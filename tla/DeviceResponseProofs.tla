--------------------------- MODULE DeviceResponseProofs ---------------------------
(* Proofs about SettingsRegistry and DeviceResponse, for every set of firmwares,     *)
(* keys, values, objects and stores and every capacity. Of the registry: the value   *)
(* in RAM is valid, agrees with what a restart would load and is the one the         *)
(* hardware was given, and every allocated object has one owner. Of the response     *)
(* serializers: the counts that they announce are those that they fill, and every    *)
(* setting is written once.                                                          *)
EXTENDS DeviceResponse, MessagePackTokensProofs, FunctionTheorems

-----------------------------------------------------------------------------------
(* The registry. *)

Places == Definitions \cup Objects
EntryType == [def : Definitions, context : Places, start : Offered, object : Objects \cup {None}]
EntriesTyped == entries \in Seq(EntryType)

\* find() has one answer: addImpl() refuses a key that is registered already.
DistinctKeys == \A i, j \in DOMAIN entries : entries[i].def.key = entries[j].def.key => i = j

\* No callback has been called for a key that nobody has registered.
UnregisteredUntouched == \A k \in Keys : k \notin Registered => applied[k] = None

Unused(place) == \A i \in DOMAIN entries : entries[i].context # place

\* The owned add() that runs has made the last entry, which does not own its object yet.
Adopting(i) ==
    /\ adding # None /\ adding.result = "Ok"
    /\ i = Len(entries) /\ entries[i].context = adding.object /\ entries[i].object = None

\* Each entry has a place of its own: the variable of its definition, or an object,
\* which it owns unless the add() that made the entry has still to hand it over.
PlacesApart ==
    /\ \A i, j \in DOMAIN entries : entries[i].context = entries[j].context => i = j
    /\ \A i \in DOMAIN entries :
        \/ entries[i].context = entries[i].def /\ entries[i].object = None
        \/ entries[i].context \in Objects /\ entries[i].object = entries[i].context
        \/ Adopting(i)

\* An entry points at the object of the add() that runs only once addImpl() said Ok.
Pending ==
    adding # None => IF adding.result = "Ok" THEN Len(entries) \in DOMAIN entries /\ Adopting(Len(entries))
                     ELSE Unused(adding.object)

\* What is written or allocated: what the entries and the running add() point at.
Allocated ==
    /\ \A i \in DOMAIN entries : Live(i) # None
    /\ \A object \in Objects :
        memory[object] # None <=> ~Unused(object) \/ (adding # None /\ adding.object = object)

Typed == TypeOK /\ EntriesTyped
Sound == DistinctKeys /\ LiveValid /\ RestartAgrees /\ UnregisteredUntouched /\ AppliedCurrent
Placed == PlacesApart /\ Pending /\ Allocated
IInv == Typed /\ Sound /\ Placed

\* What an add() that registers d does: one entry more, for a key that was new.
Grows(d, place, start, live) ==
    /\ entries' \in Seq(EntryType)
    /\ Len(entries') = Len(entries) + 1 /\ Len(entries') <= Capacity
    /\ DOMAIN entries' = DOMAIN entries \cup {Len(entries) + 1}
    /\ Len(entries) + 1 \notin DOMAIN entries
    /\ \A i \in DOMAIN entries : i \in DOMAIN entries' /\ entries'[i] = entries[i]
    /\ entries'[Len(entries) + 1] = Entry(d, place, start)
    /\ live \in Offered /\ memory' = [memory EXCEPT ![place] = live]
    /\ d.key \notin Registered /\ d.key \in Keys
    /\ Registered' = Registered \cup {d.key}
    /\ ValidDefinition(d)
    /\ \/ live = Loaded(d, start) /\ unsure' = unsure \ {d.key}
       \/ live = start /\ unsure' = unsure \cup {d.key}

\* The entries as they were, save for who owns their objects.
SameEntries ==
    /\ entries' \in Seq(EntryType)
    /\ Len(entries') = Len(entries) /\ DOMAIN entries' = DOMAIN entries
    /\ \A i \in DOMAIN entries :
        /\ entries'[i].def = entries[i].def /\ entries'[i].context = entries[i].context
        /\ entries'[i].start = entries[i].start

------------------------------------------------------------------------------------
\* Definitions name known keys and policies, and defaults are values.
LEMMA DefinitionFacts ==
    ASSUME NEW d \in Definitions
    PROVE  d.key \in Keys /\ d.policy \in Stored \cup {"Memory"} /\ Default(d) \in Offered
BY DefinitionsAssumption DEF Definitions, Default

\* What is known of the memory: values at the places of the entries.
LEMMA MemoryFacts ==
    ASSUME Typed
    PROVE  /\ DOMAIN memory = Places /\ \A place \in Places : memory[place] \in Offered \cup {None}
           /\ firmware \subseteq Definitions
           /\ DOMAIN entries = 1..Len(entries) /\ Len(entries) \in Nat
           /\ \A i \in DOMAIN entries : /\ entries[i] \in EntryType /\ entries[i].def \in firmware
                                        /\ entries[i].def \in Definitions /\ entries[i].def.key \in Keys
                                        /\ entries[i].context \in Places /\ Live(i) \in Offered \cup {None}
           /\ adding # None => /\ adding \in Running /\ adding.def \in firmware
                               /\ adding.object \in Objects /\ adding.object \in Places
<1>1. memory \in [Places -> Offered \cup {None}]
    BY DEF Typed, TypeOK, Places, Values
<1>2. firmware \subseteq Definitions
    BY DEF Typed, TypeOK, Definitions
<1>3. \A i \in DOMAIN entries : entries[i] \in EntryType /\ entries[i].def \in firmware
    BY DEF Typed, EntriesTyped, TypeOK
<1>4. DOMAIN entries = 1..Len(entries) /\ Len(entries) \in Nat
    BY DEF Typed, EntriesTyped
<1>5. adding # None => adding \in Running /\ adding.def \in firmware
    BY DEF Typed, TypeOK
<1>6. adding # None => adding.object \in Objects
    BY <1>5 DEF Running
<1>7. \A i \in DOMAIN entries : entries[i].def \in Definitions /\ entries[i].context \in Places
    BY <1>3 DEF EntryType
<1> QED BY <1>1, <1>2, <1>3, <1>4, <1>5, <1>6, <1>7, DefinitionFacts DEF Live, Places

\* find() returns the entry of the key.
LEMMA FindEntry ==
    ASSUME Typed, DistinctKeys, NEW k \in Registered
    PROVE  /\ Find(k) \in DOMAIN entries
           /\ entries[Find(k)].def.key = k
           /\ \A i \in DOMAIN entries : entries[i].def.key = k => i = Find(k)
<1>1. PICK i \in DOMAIN entries : entries[i].def.key = k
    BY DEF Registered
<1>2. Find(k) \in DOMAIN entries /\ entries[Find(k)].def.key = k
    BY <1>1 DEF Find
<1> QED BY <1>2 DEF DistinctKeys

\* A stored value that is loaded is one of the offered values.
LEMMA LoadedTyped ==
    ASSUME Typed, NEW d \in Definitions, NEW start \in Offered
    PROVE  Loaded(d, start) \in Offered
<1>1. CASE d.policy \in Stored /\ kv[d.policy][d.key] # None
    <2>1. kv[d.policy][d.key] \in Values
        BY <1>1, DefinitionFacts DEF Typed, TypeOK
    <2> QED BY <1>1, <2>1 DEF Loaded, Values
<1>2. CASE ~(d.policy \in Stored /\ kv[d.policy][d.key] # None)
    BY <1>2 DEF Loaded
<1> QED BY <1>1, <1>2

\* Registering appends one entry, for a key that was not registered.
LEMMA RegisterFacts ==
    ASSUME Typed, NEW d \in firmware, NEW place \in Places, NEW start \in Offered,
           Register(d, place, start)
    PROVE  \E live \in Offered : Grows(d, place, start, live)
<1>1. d \in Definitions
    BY MemoryFacts
<1>2. PICK live \in {start, Loaded(d, start)} :
        /\ entries' = Append(entries, Entry(d, place, start))
        /\ memory' = [memory EXCEPT ![place] = live]
        /\ \/ live = Loaded(d, start) /\ unsure' = unsure \ {d.key}
           \/ live = start /\ unsure' = unsure \cup {d.key}
    BY DEF Register
<1>3. Entry(d, place, start) \in EntryType
    BY <1>1 DEF Entry, EntryType
<1>4. ~Refused(d)
    BY DEF Register
<1>5. d.key \notin Registered /\ Len(entries) # Capacity /\ ValidDefinition(d)
    BY <1>4 DEF Refused
<1>6. /\ entries' \in Seq(EntryType)
      /\ Len(entries') = Len(entries) + 1
      /\ DOMAIN entries' = DOMAIN entries \cup {Len(entries) + 1}
      /\ Len(entries) + 1 \notin DOMAIN entries
      /\ \A i \in DOMAIN entries : i \in DOMAIN entries' /\ entries'[i] = entries[i]
      /\ entries'[Len(entries) + 1] = Entry(d, place, start)
    BY <1>2, <1>3 DEF Typed, EntriesTyped
<1>7. Len(entries') <= Capacity
    BY <1>5, <1>6, CapacityAssumption DEF Typed, TypeOK, EntriesTyped
<1>8. Registered' = Registered \cup {d.key}
    BY <1>6 DEF Registered, Entry
<1>9. live \in Offered
    BY <1>1, <1>2, LoadedTyped
<1> QED BY <1>1, <1>2, <1>5, <1>6, <1>7, <1>8, <1>9, DefinitionFacts DEF Grows

\* A set() that passes its checks has an entry for its key that accepts the value.
LEMMA CheckedFacts ==
    ASSUME Typed, DistinctKeys, NEW k \in Keys, NEW v \in Offered, Checked(k, v) = "Ok"
    PROVE  /\ k \in Registered
           /\ Find(k) \in DOMAIN entries /\ entries[Find(k)].def.key = k
           /\ Validate(entries[Find(k)].def, v) = "Ok"
<1>1. k \in Registered
    BY DEF Checked
<1>2. ~entries[Find(k)].def.readonly
    BY <1>1 DEF Checked
<1> QED BY <1>1, <1>2, FindEntry DEF Checked

\* write() changes what one entry points at and nothing else.
LEMMA WriteFacts ==
    ASSUME Typed, PlacesApart, UNCHANGED entries,
           NEW i \in DOMAIN entries, NEW v \in Offered, Write(i, v)
    PROVE  /\ memory' \in [Places -> Offered \cup {None}]
           /\ \A j \in DOMAIN entries : Live(j)' = IF j = i THEN v ELSE Live(j)
           /\ \A place \in Places : place # entries[i].context => memory'[place] = memory[place]
           /\ memory'[entries[i].context] = v
           /\ applied' = IF entries[i].def.apply = "OnRestart" THEN applied
                         ELSE [applied EXCEPT ![entries[i].def.key] = v]
<1>1. memory' = [memory EXCEPT ![entries[i].context] = v]
    BY DEF Write
<1>2. memory \in [Places -> Offered \cup {None}] /\ \A j \in DOMAIN entries : entries[j].context \in Places
    BY MemoryFacts DEF Typed, TypeOK, Places, Values
<1>3. \A j \in DOMAIN entries : j # i => entries[j].context # entries[i].context
    BY DEF PlacesApart
<1> QED BY <1>1, <1>2, <1>3 DEF Write, Live

------------------------------------------------------------------------------------
(* The steps preserve Typed and Sound: one lemma per kind of action.                 *)

\* addImpl(), when it registers.
LEMMA RegisterSound ==
    ASSUME Typed, Sound, NEW d \in firmware, NEW place \in Places, NEW start \in Offered,
           Register(d, place, start), Unused(place),
           (place = d /\ start = Default(d)) \/ place \in Objects,
           UNCHANGED <<firmware, configured, kv, ready, applied>>,
           adding' = None \/ (adding' \in Running /\ adding'.def \in firmware)
    PROVE  Typed' /\ Sound'
<1>1. PICK live \in Offered : Grows(d, place, start, live)
    BY RegisterFacts
<1> DEFINE new == Len(entries) + 1
<1>2. /\ entries'[new].def = d /\ entries'[new].start = start
      /\ entries'[new].context = place /\ entries'[new].object = None
    BY <1>1 DEF Entry, Grows
<1>3. /\ memory' \in [Places -> Offered \cup {None}] /\ memory'[place] = live
      /\ \A other \in Places : other # place => memory'[other] = memory[other]
    BY <1>1 DEF Grows, Typed, TypeOK, Places, Values
<1>4. /\ \A i : i = new => Live(i)' = live
      /\ \A i \in DOMAIN entries : /\ i \in DOMAIN entries' /\ entries'[i] = entries[i]
                                   /\ entries'[i].def.key # d.key /\ Live(i)' = Live(i)
    <2>1. \A i \in DOMAIN entries : i \in DOMAIN entries' /\ entries'[i] = entries[i]
        BY <1>1 DEF Grows
    <2>2. \A i \in DOMAIN entries : entries[i].context \in Places /\ entries[i].context # place
        BY MemoryFacts DEF Unused
    <2>3. \A i \in DOMAIN entries : entries[i].def.key # d.key
        BY <1>1 DEF Registered, Grows
    <2> QED BY <1>2, <1>3, <2>1, <2>2, <2>3 DEF Live
<1>5. DOMAIN entries' = DOMAIN entries \cup {new}
    BY <1>1 DEF Grows
<1>6. Validate(d, Default(d)) = "Ok"
    BY <1>1 DEF ValidDefinition, Default, Grows
<1>7. Validate(d, live) = "Ok" \/ (place \in Objects /\ live = start)
    BY <1>1, <1>6 DEF Loaded, Grows
<1>8. Typed'
    <2>1. \A i \in DOMAIN entries' : entries'[i].def \in firmware' /\ entries'[i].context \in Places
        BY <1>2, <1>4, <1>5, MemoryFacts
    <2>2. unsure' \subseteq Registered'
        BY <1>1 DEF Typed, TypeOK, Grows
    <2>3. EntriesTyped' /\ Len(entries') <= Capacity
        BY <1>1 DEF EntriesTyped, Grows
    <2> QED BY <1>3, <2>1, <2>2, <2>3 DEF Typed, TypeOK, Values, Places
<1>9. DistinctKeys'
    BY <1>2, <1>4, <1>5 DEF Sound, DistinctKeys
<1>10. LiveValid'
    <2>1. \A e \in firmware : memory'[e] = None \/ Validate(e, memory'[e]) = "Ok"
        <3> TAKE e \in firmware
        <3>1. e \in Places /\ e \in Definitions
            BY MemoryFacts DEF Places
        <3>2. CASE e # place
            BY <1>3, <3>1, <3>2 DEF Sound, LiveValid
        <3>3. CASE e = place
            <4>1. place = d /\ place \notin Objects
                BY <3>1, <3>3, ObjectsAssumption
            <4> QED BY <1>3, <1>7, <3>3, <4>1
        <3> QED BY <3>2, <3>3
    <2>2. \A i \in DOMAIN entries' :
            \/ Validate(entries'[i].def, Live(i)') = "Ok"
            \/ entries'[i].context \in Objects /\ Live(i)' = entries'[i].start
        BY <1>2, <1>4, <1>5, <1>7 DEF Sound, LiveValid
    <2> QED BY <2>1, <2>2 DEF LiveValid
<1>11. RestartAgrees'
    <2>1. \A e, x : Loaded(e, x)' = Loaded(e, x)
        BY DEF Loaded
    <2>2. d.policy \in Stored /\ d.key \notin unsure' => live = Loaded(d, start)
        BY <1>1 DEF Grows
    <2>3. \A i \in DOMAIN entries : entries[i].def.key \notin unsure' => entries[i].def.key \notin unsure
        BY <1>1, <1>4 DEF Grows
    <2> QED BY <1>2, <1>4, <1>5, <2>1, <2>2, <2>3 DEF Sound, RestartAgrees
<1>12. UnregisteredUntouched'
    BY <1>1 DEF Sound, UnregisteredUntouched, Grows
<1>13. AppliedCurrent'
    <2>1. applied'[d.key] = None
        BY <1>1 DEF Sound, UnregisteredUntouched, Grows
    <2> QED BY <1>2, <1>4, <1>5, <2>1 DEF Sound, AppliedCurrent
<1> QED BY <1>8, <1>9, <1>10, <1>11, <1>12, <1>13 DEF Sound

\* A step that changes only places that no entry points at, and who owns an object.
LEMMA IdleSound ==
    ASSUME Typed, Sound, SameEntries, UNCHANGED <<firmware, kv, ready, applied, unsure>>,
           configured' \subseteq Stored, memory' \in [Places -> Offered \cup {None}],
           adding' = None \/ (adding' \in Running /\ adding'.def \in firmware),
           \A i \in DOMAIN entries : memory'[entries[i].context] = memory[entries[i].context],
           \A d \in firmware : memory'[d] \in {memory[d], None} \/ Validate(d, memory'[d]) = "Ok"
    PROVE  Typed' /\ Sound'
<1>1. \A i \in DOMAIN entries : Live(i)' = Live(i)
    BY DEF Live, SameEntries
<1>2. Registered' = Registered
    BY DEF Registered, SameEntries
<1>3. Typed'
    <2>1. EntriesTyped' /\ Len(entries') <= Capacity
        BY DEF Typed, TypeOK, EntriesTyped, SameEntries
    <2>2. \A i \in DOMAIN entries' : entries'[i].def \in firmware' /\ entries'[i].context \in Places
        BY MemoryFacts DEF SameEntries
    <2>3. unsure' \subseteq Registered'
        BY <1>2 DEF Typed, TypeOK
    <2> QED BY <2>1, <2>2, <2>3 DEF Typed, TypeOK, Values, Places
<1>4. LiveValid'
    <2>1. \A d \in firmware : memory'[d] = None \/ Validate(d, memory'[d]) = "Ok"
        BY DEF Sound, LiveValid
    <2>2. \A i \in DOMAIN entries' :
            \/ Validate(entries'[i].def, Live(i)') = "Ok"
            \/ entries'[i].context \in Objects /\ Live(i)' = entries'[i].start
        BY <1>1 DEF Sound, LiveValid, SameEntries
    <2> QED BY <2>1, <2>2 DEF LiveValid
<1>5. RestartAgrees'
    <2>1. \A e, x : Loaded(e, x)' = Loaded(e, x)
        BY DEF Loaded
    <2> QED BY <1>1, <2>1 DEF Sound, RestartAgrees, SameEntries
<1>6. DistinctKeys'
    BY DEF Sound, DistinctKeys, SameEntries
<1>7. UnregisteredUntouched'
    BY <1>2 DEF Sound, UnregisteredUntouched
<1>8. AppliedCurrent'
    BY <1>1 DEF Sound, AppliedCurrent, SameEntries
<1> QED BY <1>3, <1>4, <1>5, <1>6, <1>7, <1>8 DEF Sound

\* A step that leaves the entries, the memory, the stores and the hardware alone.
LEMMA StillSound ==
    ASSUME Typed, Sound, UNCHANGED <<firmware, entries, kv, ready, memory, applied, unsure>>,
           configured' \subseteq Stored,
           adding' = None \/ (adding' \in Running /\ adding'.def \in firmware)
    PROVE  Typed' /\ Sound'
<1>1. SameEntries
    BY DEF SameEntries, Typed, EntriesTyped
<1>2. memory' \in [Places -> Offered \cup {None}]
    BY DEF Typed, TypeOK, Places, Values
<1> QED BY <1>1, <1>2, IdleSound

\* addImpl() in all its answers, for a place that no entry points at unless it refuses.
LEMMA AddImplSound ==
    ASSUME Typed, Sound, NEW d \in firmware, NEW place \in Places, NEW start \in Offered,
           NEW result \in Results, AddImpl(d, place, start, result),
           Refused(d) \/ Unused(place),
           (place = d /\ start = Default(d)) \/ place \in Objects,
           adding' = None \/ (adding' \in Running /\ adding'.def \in firmware)
    PROVE  Typed' /\ Sound'
<1>1. UNCHANGED <<firmware, configured, kv, ready, applied>> /\ configured' \subseteq Stored
    BY DEF AddImpl, Typed, TypeOK
<1>2. CASE UNCHANGED <<entries, memory, unsure>>
    BY <1>1, <1>2, StillSound
<1>3. CASE Register(d, place, start)
    <2>1. Unused(place)
        BY <1>3 DEF Register
    <2> QED BY <1>1, <1>3, <2>1, RegisterSound
<1>4. CASE NoAnswer(d, place, start)
    <2>1. ~Refused(d) /\ memory' = [memory EXCEPT ![place] = start] /\ UNCHANGED <<entries, unsure>>
        BY <1>4 DEF NoAnswer
    <2>2. memory \in [Places -> Offered \cup {None}]
        BY DEF Typed, TypeOK, Places, Values
    <2>3. memory' \in [Places -> Offered \cup {None}]
        BY <2>1, <2>2
    <2>4. \A i \in DOMAIN entries : memory'[entries[i].context] = memory[entries[i].context]
        BY <2>1, <2>2, MemoryFacts DEF Unused
    <2>5. Validate(d, Default(d)) = "Ok"
        BY <2>1 DEF Refused, ValidDefinition, Default
    <2>6. \A e \in firmware : memory'[e] \in {memory[e], None} \/ Validate(e, memory'[e]) = "Ok"
        <3> TAKE e \in firmware
        <3>1. e \in Definitions /\ e \in Places
            BY MemoryFacts DEF Places
        <3>2. CASE e # place
            BY <2>1, <2>2, <3>1, <3>2
        <3>3. CASE e = place
            <4>1. place = d /\ start = Default(d)
                BY <3>1, <3>3, ObjectsAssumption
            <4> QED BY <2>1, <2>2, <2>5, <3>1, <3>3, <4>1
        <3> QED BY <3>2, <3>3
    <2>7. SameEntries
        BY <2>1 DEF SameEntries, Typed, EntriesTyped
    <2> QED BY <1>1, <2>1, <2>3, <2>4, <2>6, <2>7, IdleSound
<1> QED BY <1>2, <1>3, <1>4 DEF AddImpl

\* A variable of a definition that add() does not refuse is in no entry.
LEMMA VariableUnused ==
    ASSUME Typed, Placed, NEW d \in firmware PROVE Refused(d) \/ Unused(d)
<1> SUFFICES ASSUME NEW i \in DOMAIN entries, entries[i].context = d PROVE d.key \in Registered
    BY DEF Unused, Refused
<1>1. d \notin Objects
    BY MemoryFacts, ObjectsAssumption
<1>2. ~Adopting(i)
    BY <1>1, MemoryFacts DEF Adopting
<1>3. entries[i].def = d
    BY <1>1, <1>2 DEF Placed, PlacesApart
<1> QED BY <1>3 DEF Registered

LEMMA AddSound ==
    ASSUME Typed, Sound, Placed, NEW d \in firmware, Add(d)
    PROVE  Typed' /\ Sound'
<1>1. PICK result \in Results : AddImpl(d, d, Default(d), result)
    BY DEF Add
<1>2. d \in Definitions /\ d \in Places /\ Default(d) \in Offered
    BY MemoryFacts, DefinitionFacts DEF Places
<1>3. adding' = None
    BY DEF Add
<1> QED BY <1>1, <1>2, <1>3, VariableUnused, AddImplSound

LEMMA AddOwnedSound ==
    ASSUME Typed, Sound, Placed, NEW d \in firmware, NEW v \in Offered, AddOwned(d, v)
    PROVE  Typed' /\ Sound'
<1>1. PICK object \in Objects : /\ memory[object] = None
                                /\ memory' = [memory EXCEPT ![object] = v]
                                /\ adding' = [def |-> d, object |-> object, result |-> "none"]
    BY DEF AddOwned
<1>2. UNCHANGED <<firmware, entries, configured, kv, ready, applied, unsure>>
    BY DEF AddOwned
<1>3. memory \in [Places -> Offered \cup {None}] /\ object \in Places /\ object \notin Definitions
    BY <1>1, ObjectsAssumption DEF Typed, TypeOK, Places, Values
<1>4. memory' \in [Places -> Offered \cup {None}]
    BY <1>1, <1>3
<1>5. \A i \in DOMAIN entries : memory'[entries[i].context] = memory[entries[i].context]
    BY <1>1, <1>3, MemoryFacts DEF Placed, Allocated, Live
<1>6. \A e \in firmware : memory'[e] = memory[e]
    BY <1>1, <1>3, MemoryFacts DEF Places
<1>7. adding' \in Running /\ adding'.def \in firmware
    BY <1>1, MemoryFacts DEF Running
<1>8. SameEntries
    BY <1>2 DEF SameEntries, Typed, EntriesTyped
<1>9. configured' \subseteq Stored
    BY <1>2 DEF Typed, TypeOK
<1> QED BY <1>2, <1>4, <1>5, <1>6, <1>7, <1>8, <1>9, IdleSound

\* What the running add() asks of addImpl().
LEMMA AskedImpl ==
    ASSUME Typed, Placed, AddOwnedImpl
    PROVE  /\ adding.def \in firmware /\ adding.object \in Objects /\ adding.object \in Places
           /\ memory[adding.object] \in Offered /\ Unused(adding.object)
           /\ \E result \in Results :
                /\ AddImpl(adding.def, adding.object, memory[adding.object], result)
                /\ adding' = [adding EXCEPT !.result = result]
                /\ adding' \in Running /\ adding'.def = adding.def
                /\ adding'.object = adding.object /\ adding'.result = result
<1>1. adding # None /\ adding.result = "none"
    BY DEF AddOwnedImpl
<1>2. PICK result \in Results : /\ AddImpl(adding.def, adding.object, memory[adding.object], result)
                                /\ adding' = [adding EXCEPT !.result = result]
    BY DEF AddOwnedImpl
<1>3. /\ adding \in Running /\ adding.def \in firmware
      /\ adding.object \in Objects /\ adding.object \in Places
      /\ memory[adding.object] \in Offered \cup {None}
    BY <1>1, MemoryFacts
<1>4. /\ adding' \in Running /\ adding'.def = adding.def
      /\ adding'.object = adding.object /\ adding'.result = result
    BY <1>2, <1>3 DEF Running
<1>5. memory[adding.object] # None /\ Unused(adding.object)
    BY <1>1, <1>3 DEF Placed, Pending, Allocated
<1> QED BY <1>2, <1>3, <1>4, <1>5

LEMMA AddOwnedImplSound == ASSUME Typed, Sound, Placed, AddOwnedImpl PROVE Typed' /\ Sound'
BY AskedImpl, AddImplSound

\* The add() that registered hands its object to the entry made last.
LEMMA AdoptFacts ==
    ASSUME Typed, Placed, Adopt
    PROVE  /\ SameEntries /\ Adopting(Len(entries)) /\ Len(entries) \in DOMAIN entries
           /\ entries'[Len(entries)].object = adding.object
           /\ \A i \in DOMAIN entries : i # Len(entries) => entries'[i] = entries[i]
           /\ UNCHANGED <<firmware, configured, kv, ready, memory, applied, unsure>> /\ adding' = None
<1>1. /\ adding # None /\ adding.result = "Ok" /\ adding' = None
      /\ entries' = [entries EXCEPT ![Len(entries)].object = adding.object]
      /\ UNCHANGED <<firmware, configured, kv, ready, memory, applied, unsure>>
    BY DEF Adopt
<1>2. Adopting(Len(entries)) /\ Len(entries) \in DOMAIN entries /\ adding.object \in Objects
    BY <1>1, MemoryFacts DEF Placed, Pending
<1>3. entries[Len(entries)] \in EntryType
    BY <1>2, MemoryFacts
<1>4. [entries[Len(entries)] EXCEPT !.object = adding.object] \in EntryType
    BY <1>2, <1>3 DEF EntryType
<1>5. /\ entries' \in Seq(EntryType) /\ Len(entries') = Len(entries) /\ DOMAIN entries' = DOMAIN entries
      /\ entries'[Len(entries)] = [entries[Len(entries)] EXCEPT !.object = adding.object]
      /\ \A i \in DOMAIN entries : i # Len(entries) => entries'[i] = entries[i]
    BY <1>1, <1>2, <1>4 DEF Typed, EntriesTyped
<1>6. LET last == entries[Len(entries)] IN
        /\ entries'[Len(entries)].def = last.def /\ entries'[Len(entries)].context = last.context
        /\ entries'[Len(entries)].start = last.start /\ entries'[Len(entries)].object = adding.object
    BY <1>3, <1>5 DEF EntryType
<1>7. SameEntries
    BY <1>5, <1>6 DEF SameEntries
<1> QED BY <1>1, <1>2, <1>5, <1>6, <1>7

LEMMA AdoptSound == ASSUME Typed, Sound, Placed, Adopt PROVE Typed' /\ Sound'
<1>1. memory' \in [Places -> Offered \cup {None}] /\ configured' \subseteq Stored
    BY AdoptFacts DEF Typed, TypeOK, Places, Values
<1> QED BY <1>1, AdoptFacts, IdleSound

LEMMA GiveBackSound == ASSUME Typed, Sound, Placed, GiveBack PROVE Typed' /\ Sound'
<1>1. /\ adding # None /\ adding.result # "Ok" /\ adding' = None
      /\ memory' = [memory EXCEPT ![adding.object] = None]
      /\ UNCHANGED <<firmware, entries, configured, kv, ready, applied, unsure>>
    BY DEF GiveBack
<1>2. adding.object \in Places /\ Unused(adding.object)
    BY <1>1, MemoryFacts DEF Placed, Pending
<1>3. memory \in [Places -> Offered \cup {None}] /\ configured' \subseteq Stored
    BY <1>1 DEF Typed, TypeOK, Places, Values
<1>4. memory' \in [Places -> Offered \cup {None}]
    BY <1>1, <1>3
<1>5. \A i \in DOMAIN entries : memory'[entries[i].context] = memory[entries[i].context]
    BY <1>1, <1>2, <1>3, MemoryFacts DEF Unused
<1>6. \A e \in firmware : memory'[e] \in {memory[e], None}
    BY <1>1, <1>2, <1>3, MemoryFacts DEF Places
<1>7. SameEntries
    BY <1>1 DEF SameEntries, Typed, EntriesTyped
<1> QED BY <1>1, <1>3, <1>4, <1>5, <1>6, <1>7, IdleSound

\* What every set() that writes does to RAM and to the hardware.
LEMMA WriteSound ==
    ASSUME Typed, Sound, Placed, NEW k \in Keys, NEW v \in Offered,
           Checked(k, v) = "Ok", Write(Find(k), v),
           UNCHANGED <<firmware, entries, configured, ready, adding>>,
           kv' \in [Stored -> [Keys -> Values]], unsure' \subseteq Registered
    PROVE  /\ Typed' /\ DistinctKeys' /\ LiveValid' /\ UnregisteredUntouched' /\ AppliedCurrent'
           /\ \A j \in DOMAIN entries : j # Find(k) => entries[j].def.key # k
<1> DEFINE i == Find(k)
<1>1. /\ k \in Registered /\ i \in DOMAIN entries /\ entries[i].def.key = k
      /\ Validate(entries[i].def, v) = "Ok"
    BY CheckedFacts DEF Sound
<1>2. /\ memory' \in [Places -> Offered \cup {None}]
      /\ \A j \in DOMAIN entries : Live(j)' = IF j = i THEN v ELSE Live(j)
      /\ \A place \in Places : place # entries[i].context => memory'[place] = memory[place]
      /\ memory'[entries[i].context] = v
      /\ applied' = IF entries[i].def.apply = "OnRestart" THEN applied
                    ELSE [applied EXCEPT ![entries[i].def.key] = v]
    BY <1>1, WriteFacts DEF Placed
<1>3. applied \in [Keys -> Values]
    BY DEF Typed, TypeOK
<1>4. Registered' = Registered
    BY DEF Registered
<1>5. Typed'
    <2>1. applied' \in [Keys -> Values]
        BY <1>1, <1>2, <1>3 DEF Values
    <2> QED BY <1>2, <1>4, <2>1 DEF Typed, TypeOK, EntriesTyped, Values, Places
<1>6. DistinctKeys'
    BY DEF Sound, DistinctKeys
<1>7. LiveValid'
    <2>1. \A d \in firmware : memory'[d] = None \/ Validate(d, memory'[d]) = "Ok"
        <3> TAKE d \in firmware
        <3>1. d \in Places /\ d \notin Objects
            BY MemoryFacts, ObjectsAssumption DEF Places
        <3>2. CASE d # entries[i].context
            BY <1>2, <3>1, <3>2 DEF Sound, LiveValid
        <3>3. CASE d = entries[i].context
            <4>1. ~Adopting(i)
                BY <1>1, <3>1, <3>3, MemoryFacts DEF Adopting
            <4>2. d = entries[i].def
                BY <1>1, <3>1, <3>3, <4>1 DEF Placed, PlacesApart
            <4> QED BY <1>1, <1>2, <3>3, <4>2
        <3> QED BY <3>2, <3>3
    <2>2. \A j \in DOMAIN entries' :
            \/ Validate(entries'[j].def, Live(j)') = "Ok"
            \/ entries'[j].context \in Objects /\ Live(j)' = entries'[j].start
        BY <1>1, <1>2 DEF Sound, LiveValid
    <2> QED BY <2>1, <2>2 DEF LiveValid
<1>8. UnregisteredUntouched'
    BY <1>1, <1>2, <1>3, <1>4 DEF Sound, UnregisteredUntouched
<1>9. \A j \in DOMAIN entries : j # i => entries[j].def.key # k
    BY <1>1 DEF Sound, DistinctKeys
<1>10. AppliedCurrent'
    <2> SUFFICES ASSUME NEW j \in DOMAIN entries', entries'[j].def.apply # "OnRestart"
                 PROVE  applied'[entries'[j].def.key] \in {None, Live(j)'}
        BY DEF AppliedCurrent
    <2>1. CASE j = i
        BY <1>1, <1>2, <1>3, <2>1
    <2>2. CASE j # i
        <3>1. entries[j].def.key # k /\ applied[entries[j].def.key] \in {None, Live(j)}
            BY <1>9, <2>2 DEF Sound, AppliedCurrent
        <3> QED BY <1>1, <1>2, <1>3, <2>2, <3>1
    <2> QED BY <2>1, <2>2
<1> QED BY <1>5, <1>6, <1>7, <1>8, <1>9, <1>10

LEMMA SetMemorySound ==
    ASSUME Typed, Sound, Placed, NEW k \in Keys, NEW v \in Offered, SetMemory(k, v)
    PROVE  Typed' /\ Sound'
<1> DEFINE i == Find(k)
<1>1. /\ Checked(k, v) = "Ok" /\ Write(i, v) /\ entries[i].def.policy = "Memory"
      /\ UNCHANGED <<firmware, entries, configured, kv, ready, adding, unsure>>
    BY DEF SetMemory
<1>2. kv' \in [Stored -> [Keys -> Values]] /\ unsure' \subseteq Registered
    BY <1>1 DEF Typed, TypeOK
<1>3. /\ Typed' /\ DistinctKeys' /\ LiveValid' /\ UnregisteredUntouched' /\ AppliedCurrent'
      /\ \A j \in DOMAIN entries : j # i => entries[j].def.key # k
    BY <1>1, <1>2, WriteSound
<1>4. RestartAgrees'
    <2>1. \A e, x : Loaded(e, x)' = Loaded(e, x)
        BY <1>1 DEF Loaded
    <2>2. i \in DOMAIN entries
        BY <1>1, CheckedFacts DEF Sound
    <2>3. \A j \in DOMAIN entries : j # i => Live(j)' = Live(j)
        BY <1>1, <2>2, WriteFacts DEF Placed
    <2> QED BY <1>1, <2>1, <2>2, <2>3, StoredAssumption DEF Sound, RestartAgrees
<1> QED BY <1>3, <1>4 DEF Sound

LEMMA SetStoredSound ==
    ASSUME Typed, Sound, Placed, NEW k \in Keys, NEW v \in Offered, SetStored(k, v)
    PROVE  Typed' /\ Sound'
<1> DEFINE i == Find(k)
           p == entries[i].def.policy
<1>1. /\ Checked(k, v) = "Ok" /\ Write(i, v) /\ p \in ready
      /\ kv' = [kv EXCEPT ![p][k] = v] /\ unsure' = unsure \ {k}
      /\ UNCHANGED <<firmware, entries, configured, ready, adding>>
    BY DEF SetStored
<1>2. p \in Stored /\ kv \in [Stored -> [Keys -> Values]]
    BY <1>1 DEF Typed, TypeOK
<1>3. kv' \in [Stored -> [Keys -> Values]] /\ unsure' \subseteq Registered
    BY <1>1, <1>2 DEF Typed, TypeOK, Values
<1>4. /\ Typed' /\ DistinctKeys' /\ LiveValid' /\ UnregisteredUntouched' /\ AppliedCurrent'
      /\ \A j \in DOMAIN entries : j # i => entries[j].def.key # k
    BY <1>1, <1>3, WriteSound
<1>5. RestartAgrees'
    <2>1. /\ i \in DOMAIN entries /\ entries[i].def.key = k /\ Validate(entries[i].def, v) = "Ok"
        BY <1>1, CheckedFacts DEF Sound
    <2>2. \A j \in DOMAIN entries : Live(j)' = IF j = i THEN v ELSE Live(j)
        BY <1>1, <2>1, WriteFacts DEF Placed
    <2>3. v # None
        BY NoneAssumption
    <2>4. \A e, x : e = entries[i].def => Loaded(e, x)' = v
        BY <1>1, <1>2, <2>1, <2>3 DEF Loaded
    <2>5. \A e, x : e.key \in Keys /\ e.key # k => Loaded(e, x)' = Loaded(e, x)
        BY <1>1, <1>2 DEF Loaded
    <2>6. \A j \in DOMAIN entries : entries[j].def.key \in Keys
        BY MemoryFacts
    <2> SUFFICES ASSUME NEW j \in DOMAIN entries, entries[j].def.policy \in Stored,
                        entries[j].def.key \notin unsure'
                 PROVE  Live(j)' = Loaded(entries[j].def, entries[j].start)'
        BY <1>1 DEF RestartAgrees
    <2>7. CASE j = i
        BY <1>1, <2>2, <2>4, <2>7
    <2>8. CASE j # i
        <3>1. entries[j].def.key # k /\ Live(j) = Loaded(entries[j].def, entries[j].start)
            BY <1>1, <1>4, <2>8 DEF Sound, RestartAgrees
        <3> QED BY <1>1, <2>2, <2>5, <2>6, <2>8, <3>1
    <2> QED BY <2>7, <2>8
<1> QED BY <1>4, <1>5 DEF Sound

LEMMA SetFailsSound ==
    ASSUME Typed, Sound, NEW k \in Keys, NEW v \in Offered, SetFails(k, v)
    PROVE  Typed' /\ Sound'
<1> DEFINE i == Find(k)
           p == entries[i].def.policy
<1>1. /\ Checked(k, v) = "Ok" /\ p \in Stored
      /\ UNCHANGED <<firmware, entries, configured, ready, memory, adding, applied>>
      /\ \/ UNCHANGED <<kv, unsure>>
         \/ kv' = [kv EXCEPT ![p][k] = v] /\ unsure' = unsure \cup {k}
    BY DEF SetFails
<1>2. k \in Registered /\ i \in DOMAIN entries /\ entries[i].def.key = k
    BY <1>1, CheckedFacts DEF Sound
<1>3. Registered' = Registered /\ \A j : Live(j)' = Live(j)
    BY <1>1 DEF Registered, Live
<1>4. Typed'
    <2>0. kv \in [Stored -> [Keys -> Values]] /\ unsure \subseteq Registered /\ p \in Stored /\ v \in Values
        BY <1>1 DEF Typed, TypeOK, Values
    <2>1. kv' \in [Stored -> [Keys -> Values]] /\ unsure' \subseteq Registered'
        <3>. HIDE DEF p
        <3>1. kv' = kv \/ kv' = [kv EXCEPT ![p][k] = v]
            BY <1>1
        <3>2. kv' \in [Stored -> [Keys -> Values]]
            BY <2>0, <3>1
        <3>. QED
            BY <1>1, <1>2, <1>3, <2>0, <3>2
    <2>. QED
        BY <1>1, <2>1 DEF Typed, TypeOK, EntriesTyped
<1>5. RestartAgrees'
    <2> SUFFICES ASSUME NEW j \in DOMAIN entries, entries[j].def.policy \in Stored,
                        entries[j].def.key \notin unsure'
                 PROVE  Live(j) = Loaded(entries[j].def, entries[j].start)'
        BY <1>1, <1>3 DEF RestartAgrees
    <2>1. Live(j) = Loaded(entries[j].def, entries[j].start)
        BY <1>1 DEF Sound, RestartAgrees
    <2>2. entries[j].def.key \in Keys
        BY MemoryFacts
    <2>3. CASE UNCHANGED kv
        BY <1>1, <2>1, <2>3 DEF Loaded
    <2>4. CASE kv' = [kv EXCEPT ![p][k] = v] /\ unsure' = unsure \cup {k}
        <3>1. kv'[entries[j].def.policy][entries[j].def.key] = kv[entries[j].def.policy][entries[j].def.key]
            BY <1>1, <2>2, <2>4 DEF Typed, TypeOK
        <3> QED BY <1>1, <2>1, <3>1 DEF Loaded
    <2> QED BY <1>1, <2>3, <2>4
<1> QED BY <1>1, <1>3, <1>4, <1>5 DEF Sound, DistinctKeys, LiveValid, UnregisteredUntouched, AppliedCurrent

LEMMA ApplyAtStartupSound ==
    ASSUME Typed, Sound, Placed, ApplyAtStartup
    PROVE  Typed' /\ Sound'
<1>1. /\ UNCHANGED <<firmware, entries, configured, kv, ready, memory, adding, unsure>>
      /\ applied' = [k \in Keys |-> IF k \in Registered THEN Live(Find(k)) ELSE applied[k]]
    BY DEF ApplyAtStartup
<1>2. Registered' = Registered /\ \A j : Live(j)' = Live(j)
    BY <1>1 DEF Registered, Live
<1>3. \A k \in Registered : Find(k) \in DOMAIN entries /\ Live(Find(k)) \in Values
    BY FindEntry, MemoryFacts DEF Sound, Values
<1>4. applied' \in [Keys -> Values]
    BY <1>1, <1>3 DEF Typed, TypeOK
<1>5. Typed'
    BY <1>1, <1>2, <1>4 DEF Typed, TypeOK, EntriesTyped, Values
<1>6. \A j \in DOMAIN entries : applied'[entries[j].def.key] = Live(j)
    <2> TAKE j \in DOMAIN entries
    <2>1. entries[j].def.key \in Keys /\ entries[j].def.key \in Registered
        BY MemoryFacts DEF Registered
    <2>2. Find(entries[j].def.key) = j
        BY <2>1, FindEntry DEF Sound
    <2> QED BY <1>1, <2>1, <2>2
<1>7. RestartAgrees'
    BY <1>1, <1>2 DEF Sound, RestartAgrees, Loaded
<1>8. AppliedCurrent'
    BY <1>1, <1>2, <1>6 DEF AppliedCurrent
<1>9. DistinctKeys' /\ LiveValid' /\ UnregisteredUntouched'
    BY <1>1, <1>2 DEF Sound, DistinctKeys, LiveValid, UnregisteredUntouched
<1> QED BY <1>5, <1>7, <1>8, <1>9 DEF Sound

\* A restart empties the registry; the stores keep what they hold.
LEMMA RestartSound ==
    ASSUME Typed, Sound, Restart
    PROVE  Typed' /\ Sound'
<1>1. /\ entries' = <<>> /\ kv' = kv /\ unsure' = {} /\ configured' = {} /\ firmware' \in Firmwares
      /\ ready' \in SUBSET Stored /\ applied' = [k \in Keys |-> None] /\ adding' = None
      /\ memory' = [place \in DOMAIN memory |-> IF place \in Definitions \cup Owned THEN None ELSE memory[place]]
    BY DEF Restart
<1>2. DOMAIN entries' = {} /\ Len(entries') = 0 /\ entries' \in Seq(EntryType)
    BY <1>1
<1>3. memory' \in [Places -> Offered \cup {None}] /\ \A d \in Definitions : memory'[d] = None
    <2>1. /\ DOMAIN memory = Places /\ \A place \in Places : memory[place] \in Offered \cup {None}
        BY MemoryFacts
    <2> QED BY <1>1, <2>1 DEF Places
<1>4. firmware' \subseteq Definitions
    BY <1>1 DEF Definitions
<1>5. Typed'
    BY <1>1, <1>2, <1>3, CapacityAssumption DEF Typed, TypeOK, EntriesTyped, Values, Places
<1>6. LiveValid'
    BY <1>2, <1>3, <1>4 DEF LiveValid
<1> QED BY <1>1, <1>2, <1>5, <1>6 DEF Sound, DistinctKeys, RestartAgrees, UnregisteredUntouched, AppliedCurrent

LEMMA StepSound == Typed /\ Sound /\ Placed /\ [Next]_vars => Typed' /\ Sound'
<1> SUFFICES ASSUME Typed, Sound, Placed, [Next]_vars PROVE Typed' /\ Sound'
    OBVIOUS
<1>1. configured \subseteq Stored /\ (adding = None \/ (adding \in Running /\ adding.def \in firmware))
    BY DEF Typed, TypeOK
<1>2. CASE UNCHANGED vars
    BY <1>1, <1>2, StillSound DEF vars
<1>3. ASSUME NEW p \in Stored, Configure(p) PROVE Typed' /\ Sound'
    BY <1>1, <1>3, StillSound DEF Configure
<1>4. ASSUME NEW d \in firmware, Add(d) PROVE Typed' /\ Sound'
    BY <1>4, AddSound
<1>5. ASSUME NEW d \in firmware, NEW v \in Offered, AddOwned(d, v) PROVE Typed' /\ Sound'
    BY <1>5, AddOwnedSound
<1>6. CASE AddOwnedImpl \/ Adopt \/ GiveBack
    BY <1>6, AddOwnedImplSound, AdoptSound, GiveBackSound
<1>7. ASSUME NEW k \in Keys, NEW v \in Offered, SetRefused(k, v) PROVE Typed' /\ Sound'
    BY <1>1, <1>7, StillSound DEF SetRefused, vars
<1>8. ASSUME NEW k \in Keys, NEW v \in Offered, SetMemory(k, v) \/ SetStored(k, v) \/ SetFails(k, v)
      PROVE  Typed' /\ Sound'
    BY <1>8, SetMemorySound, SetStoredSound, SetFailsSound
<1> QED BY <1>2, <1>3, <1>4, <1>5, <1>6, <1>7, <1>8, ApplyAtStartupSound, RestartSound DEF Next

------------------------------------------------------------------------------------
(* The steps preserve Placed.                                                        *)

\* Registering gives the new entry a place that no other has.
LEMMA RegisterPlaced ==
    ASSUME Typed, Placed, NEW d \in firmware, NEW place \in Places, NEW start \in Offered,
           Register(d, place, start), Unused(place),
           \/ place = d /\ adding = None /\ adding' = None
           \/ /\ adding # None /\ place = adding.object /\ adding.result = "none"
              /\ adding' # None /\ adding'.object = place /\ adding'.result = "Ok"
    PROVE  Placed'
<1>1. PICK live \in Offered : Grows(d, place, start, live)
    BY RegisterFacts
<1> DEFINE new == Len(entries) + 1
<1>2. /\ new \in DOMAIN entries' /\ new \notin DOMAIN entries /\ Len(entries') = new
      /\ DOMAIN entries' = DOMAIN entries \cup {new}
      /\ \A i \in DOMAIN entries : entries'[i] = entries[i]
      /\ entries'[new].def = d /\ entries'[new].context = place /\ entries'[new].object = None
    BY <1>1 DEF Entry, Grows
<1>3. /\ memory'[place] = live /\ live # None
      /\ \A other \in Places : other # place => memory'[other] = memory[other]
    BY <1>1, NoneAssumption DEF Grows, Typed, TypeOK, Places, Values
<1>4. \A i \in DOMAIN entries : entries[i].context # place /\ entries[i].context \in Places
    BY MemoryFacts DEF Unused
<1>5. adding # None => adding.object \in Objects
    BY MemoryFacts
<1>6. adding' # None => Adopting(Len(entries))'
    BY <1>2 DEF Adopting
<1>7. \A i \in DOMAIN entries : ~Adopting(i)
    BY DEF Adopting
<1>8. PlacesApart'
    <2>1. \A i, j \in DOMAIN entries' : entries'[i].context = entries'[j].context => i = j
        BY <1>2, <1>4 DEF Placed, PlacesApart
    <2>2. \A i \in DOMAIN entries :
            \/ entries'[i].context = entries'[i].def /\ entries'[i].object = None
            \/ entries'[i].context \in Objects /\ entries'[i].object = entries'[i].context
        BY <1>2, <1>7 DEF Placed, PlacesApart
    <2>3. \A i \in DOMAIN entries' :
            i = new => (entries'[i].context = entries'[i].def /\ entries'[i].object = None) \/ Adopting(i)'
        BY <1>2 DEF Adopting
    <2> QED BY <1>2, <2>1, <2>2, <2>3 DEF PlacesApart
<1>9. Pending'
    BY <1>2, <1>6 DEF Pending
<1>10. Allocated'
    <2>1. \A i \in DOMAIN entries' : Live(i)' # None
        BY <1>2, <1>3, <1>4 DEF Live, Placed, Allocated
    <2>2. ASSUME NEW object \in Objects
          PROVE  memory'[object] # None <=> ~Unused(object)' \/ (adding' # None /\ adding'.object = object)
        <3>1. object \in Places /\ (Unused(object)' <=> Unused(object) /\ object # place)
            BY <1>2 DEF Places, Unused
        <3>2. CASE object = place
            BY <1>3, <3>1, <3>2
        <3>3. CASE object # place
            BY <1>3, <3>1, <3>3 DEF Placed, Allocated
        <3> QED BY <3>2, <3>3
    <2> QED BY <2>1, <2>2 DEF Allocated
<1> QED BY <1>8, <1>9, <1>10 DEF Placed

\* A step that makes no entry, keeps what entries point at written, and runs no
\* add() that has its entry.
LEMMA IdlePlaced ==
    ASSUME Typed, Placed, UNCHANGED entries, adding = None \/ adding.result # "Ok",
           \A i \in DOMAIN entries : memory'[entries[i].context] # None,
           \A object \in Objects :
               memory'[object] # None <=> ~Unused(object) \/ (adding' # None /\ adding'.object = object),
           adding' # None => adding'.result # "Ok" /\ Unused(adding'.object)
    PROVE  Placed'
<1>1. \A i \in DOMAIN entries : ~Adopting(i)
    BY DEF Adopting
<1>2. PlacesApart'
    BY <1>1 DEF Placed, PlacesApart
<1>3. \A place : Unused(place)' <=> Unused(place)
    BY DEF Unused
<1>4. Pending'
    BY <1>3 DEF Pending, Unused
<1>5. Allocated'
    BY <1>3 DEF Allocated, Live, Unused
<1> QED BY <1>2, <1>4, <1>5 DEF Placed

\* Nothing of it is touched.
LEMMA StillPlaced ==
    ASSUME Placed, UNCHANGED <<entries, adding>>,
           \A i \in DOMAIN entries : memory'[entries[i].context] # None,
           \A object \in Objects : memory'[object] # None <=> memory[object] # None
    PROVE  Placed'
<1>1. PlacesApart'
    BY DEF Placed, PlacesApart, Adopting
<1>2. Pending'
    BY DEF Placed, Pending, Adopting, Unused
<1>3. Allocated'
    BY DEF Placed, Allocated, Live, Unused
<1> QED BY <1>1, <1>2, <1>3 DEF Placed

LEMMA SamePlaced == ASSUME Placed, UNCHANGED <<entries, memory, adding>> PROVE Placed'
BY StillPlaced DEF Placed, Allocated, Live

LEMMA AddPlaced == ASSUME Typed, Placed, NEW d \in firmware, Add(d) PROVE Placed'
<1>1. PICK result \in Results : AddImpl(d, d, Default(d), result)
    BY DEF Add
<1>2. d \in Definitions /\ d \in Places /\ d \notin Objects /\ Default(d) \in Offered
    BY MemoryFacts, DefinitionFacts, ObjectsAssumption DEF Places
<1>3. adding = None /\ adding' = None
    BY DEF Add
<1>4. CASE UNCHANGED <<entries, memory>>
    BY <1>3, <1>4, SamePlaced
<1>5. CASE Register(d, d, Default(d))
    <2>1. Unused(d)
        BY <1>5, VariableUnused DEF Register
    <2> QED BY <1>2, <1>3, <1>5, <2>1, RegisterPlaced
<1>6. CASE NoAnswer(d, d, Default(d))
    <2>1. memory' = [memory EXCEPT ![d] = Default(d)] /\ UNCHANGED entries
        BY <1>6 DEF NoAnswer
    <2>2. Default(d) # None
        BY <1>2, NoneAssumption
    <2>3. \A place \in Places : memory[place] # None => memory'[place] # None
        BY <1>2, <2>1, <2>2, MemoryFacts
    <2>4. \A i \in DOMAIN entries : memory'[entries[i].context] # None
        BY <2>3, MemoryFacts DEF Placed, Allocated, Live
    <2>5. \A object \in Objects : memory'[object] = memory[object]
        BY <1>2, <2>1, MemoryFacts DEF Places
    <2> QED BY <1>3, <2>1, <2>4, <2>5, StillPlaced
<1> QED BY <1>1, <1>4, <1>5, <1>6 DEF AddImpl

LEMMA AddOwnedPlaced ==
    ASSUME Typed, Placed, NEW d \in firmware, NEW v \in Offered, AddOwned(d, v) PROVE Placed'
<1>1. PICK object \in Objects : /\ memory[object] = None
                                /\ memory' = [memory EXCEPT ![object] = v]
                                /\ adding' = [def |-> d, object |-> object, result |-> "none"]
    BY DEF AddOwned
<1>2. adding = None /\ UNCHANGED entries
    BY DEF AddOwned
<1>3. object \in Places /\ Unused(object) /\ v # None
    BY <1>1, NoneAssumption DEF Places, Placed, Allocated
<1>4. /\ memory'[object] = v
      /\ \A place \in Places : place # object => memory'[place] = memory[place]
    BY <1>1, <1>3, MemoryFacts
<1>5. \A i \in DOMAIN entries : memory'[entries[i].context] # None
    BY <1>3, <1>4, MemoryFacts DEF Placed, Allocated, Live, Unused
<1>6. adding' # None /\ adding'.object = object /\ adding'.result = "none"
    <2>1. adding' \in Running
        BY <1>1, MemoryFacts DEF Running
    <2> QED BY <1>1, <2>1, NoneAssumption
<1>7. \A other \in Objects :
        memory'[other] # None <=> ~Unused(other) \/ (adding' # None /\ adding'.object = other)
    BY <1>2, <1>3, <1>4, <1>6 DEF Places, Placed, Allocated
<1> QED BY <1>2, <1>3, <1>5, <1>6, <1>7, IdlePlaced

LEMMA AddOwnedImplPlaced == ASSUME Typed, Placed, AddOwnedImpl PROVE Placed'
<1> DEFINE place == adding.object
           start == memory[place]
<1>1. PICK result \in Results :
        /\ AddImpl(adding.def, place, start, result)
        /\ adding' \in Running /\ adding'.object = place /\ adding'.result = result
    BY AskedImpl
<1>2. /\ adding.def \in firmware /\ place \in Objects /\ place \in Places
      /\ start \in Offered /\ Unused(place) /\ start # None
    BY AskedImpl, NoneAssumption
<1>3. adding # None /\ adding.result = "none" /\ adding' # None
    BY <1>1, NoneAssumption DEF AddOwnedImpl
<1>4. CASE result = "Ok" /\ Register(adding.def, place, start)
    BY <1>1, <1>2, <1>3, <1>4, RegisterPlaced
<1>5. CASE /\ result # "Ok"
           /\ \/ UNCHANGED <<entries, memory>>
              \/ NoAnswer(adding.def, place, start)
    <2>1. UNCHANGED entries /\ \A other \in Places : memory'[other] = memory[other]
        BY <1>2, <1>5, MemoryFacts DEF NoAnswer
    <2>2. \A i \in DOMAIN entries : memory'[entries[i].context] # None
        BY <2>1, MemoryFacts DEF Placed, Allocated, Live
    <2>3. \A object \in Objects :
            memory'[object] # None <=> ~Unused(object) \/ (adding' # None /\ adding'.object = object)
        BY <1>1, <1>3, <2>1 DEF Places, Placed, Allocated
    <2> QED BY <1>1, <1>2, <1>3, <1>5, <2>1, <2>2, <2>3, IdlePlaced
<1> QED BY <1>1, <1>4, <1>5 DEF AddImpl

LEMMA AdoptPlaced == ASSUME Typed, Placed, Adopt PROVE Placed'
<1> DEFINE last == Len(entries)
<1>1. /\ SameEntries /\ Adopting(last) /\ last \in DOMAIN entries
      /\ entries'[last].object = adding.object
      /\ \A i \in DOMAIN entries : i # last => entries'[i] = entries[i]
      /\ UNCHANGED memory /\ adding' = None
    BY AdoptFacts
<1>2. /\ DOMAIN entries' = DOMAIN entries
      /\ \A i \in DOMAIN entries : entries'[i].context = entries[i].context
    BY <1>1 DEF SameEntries
<1>3. adding.object \in Objects /\ entries[last].context = adding.object
    BY <1>1, MemoryFacts DEF Adopting
<1>4. \A i \in DOMAIN entries : i # last => ~Adopting(i)
    BY DEF Adopting
<1>5. PlacesApart'
    <2>1. \A i, j \in DOMAIN entries' : entries'[i].context = entries'[j].context => i = j
        BY <1>2 DEF Placed, PlacesApart
    <2>2. \A i \in DOMAIN entries' :
            \/ entries'[i].context = entries'[i].def /\ entries'[i].object = None
            \/ entries'[i].context \in Objects /\ entries'[i].object = entries'[i].context
        BY <1>1, <1>2, <1>3, <1>4 DEF Placed, PlacesApart
    <2> QED BY <2>1, <2>2 DEF PlacesApart
<1>6. Pending'
    BY <1>1 DEF Pending
<1>7. Allocated'
    <2>1. \A i \in DOMAIN entries' : Live(i)' # None
        BY <1>1, <1>2 DEF Placed, Allocated, Live
    <2>2. \A object : Unused(object)' <=> Unused(object)
        BY <1>2 DEF Unused
    <2>3. ~Unused(adding.object)
        BY <1>1, <1>3 DEF Unused
    <2> QED BY <1>1, <2>1, <2>2, <2>3 DEF Placed, Allocated
<1> QED BY <1>5, <1>6, <1>7 DEF Placed

LEMMA GiveBackPlaced == ASSUME Typed, Placed, GiveBack PROVE Placed'
<1>1. /\ adding # None /\ adding.result # "Ok" /\ adding' = None /\ UNCHANGED entries
      /\ memory' = [memory EXCEPT ![adding.object] = None]
    BY DEF GiveBack
<1>2. adding.object \in Places /\ Unused(adding.object)
    BY <1>1, MemoryFacts DEF Placed, Pending
<1>3. /\ memory'[adding.object] = None
      /\ \A place \in Places : place # adding.object => memory'[place] = memory[place]
    BY <1>1, <1>2, MemoryFacts
<1>4. \A i \in DOMAIN entries : memory'[entries[i].context] # None
    BY <1>2, <1>3, MemoryFacts DEF Placed, Allocated, Live, Unused
<1>5. \A object \in Objects : memory'[object] # None <=> ~Unused(object)
    BY <1>1, <1>2, <1>3 DEF Places, Placed, Allocated
<1> QED BY <1>1, <1>4, <1>5, IdlePlaced

LEMMA WritePlaced ==
    ASSUME Typed, Sound, Placed, NEW k \in Keys, NEW v \in Offered, Checked(k, v) = "Ok",
           Write(Find(k), v), UNCHANGED <<entries, adding>>
    PROVE  Placed'
<1>1. Find(k) \in DOMAIN entries
    BY CheckedFacts DEF Sound
<1>2. /\ \A place \in Places : place # entries[Find(k)].context => memory'[place] = memory[place]
      /\ memory'[entries[Find(k)].context] = v /\ v # None
    BY <1>1, WriteFacts, NoneAssumption DEF Placed
<1>3. memory[entries[Find(k)].context] # None
    BY <1>1 DEF Placed, Allocated, Live
<1>4. \A place \in Places : memory'[place] # None <=> memory[place] # None
    BY <1>2, <1>3
<1>5. \A i \in DOMAIN entries : memory'[entries[i].context] # None
    BY <1>4, MemoryFacts DEF Placed, Allocated, Live
<1>6. \A object \in Objects : memory'[object] # None <=> memory[object] # None
    BY <1>4 DEF Places
<1> QED BY <1>5, <1>6, StillPlaced

\* The destructor deletes what the entries own, which is all there is: no add() runs.
LEMMA RestartPlaced == ASSUME Typed, Placed, Restart PROVE Placed'
<1>1. /\ entries' = <<>> /\ adding = None /\ adding' = None
      /\ memory' = [place \in DOMAIN memory |-> IF place \in Definitions \cup Owned THEN None ELSE memory[place]]
    BY DEF Restart
<1>2. DOMAIN entries' = {}
    BY <1>1
<1>3. ASSUME NEW object \in Objects PROVE memory'[object] = None
    <2>1. object \in Places /\ object \notin Definitions /\ DOMAIN memory = Places
        BY MemoryFacts, ObjectsAssumption DEF Places
    <2>2. CASE Unused(object)
        BY <1>1, <2>1, <2>2 DEF Placed, Allocated
    <2>3. CASE ~Unused(object)
        <3>1. PICK i \in DOMAIN entries : entries[i].context = object
            BY <2>3 DEF Unused
        <3>2. entries[i].def \in Definitions
            BY <3>1, MemoryFacts
        <3>3. entries[i].object = object
            BY <1>1, <2>1, <3>1, <3>2 DEF Placed, PlacesApart, Adopting
        <3>4. object \in Owned
            BY <3>1, <3>3, NoneAssumption DEF Owned
        <3> QED BY <1>1, <2>1, <3>4
    <2> QED BY <2>2, <2>3
<1> QED BY <1>1, <1>2, <1>3 DEF Placed, PlacesApart, Pending, Allocated, Unused

LEMMA StepPlaced == Typed /\ Sound /\ Placed /\ [Next]_vars => Placed'
<1> SUFFICES ASSUME Typed, Sound, Placed, [Next]_vars PROVE Placed'
    OBVIOUS
<1>1. CASE UNCHANGED vars
    BY <1>1, SamePlaced DEF vars
<1>2. ASSUME NEW p \in Stored, Configure(p) PROVE Placed'
    BY <1>2, SamePlaced DEF Configure
<1>3. ASSUME NEW d \in firmware, Add(d) PROVE Placed'
    BY <1>3, AddPlaced
<1>4. ASSUME NEW d \in firmware, NEW v \in Offered, AddOwned(d, v) PROVE Placed'
    BY <1>4, AddOwnedPlaced
<1>5. CASE AddOwnedImpl \/ Adopt \/ GiveBack
    BY <1>5, AddOwnedImplPlaced, AdoptPlaced, GiveBackPlaced
<1>6. ASSUME NEW k \in Keys, NEW v \in Offered, SetRefused(k, v) \/ SetFails(k, v) PROVE Placed'
    BY <1>6, SamePlaced DEF SetRefused, SetFails, vars
<1>7. ASSUME NEW k \in Keys, NEW v \in Offered, SetMemory(k, v) \/ SetStored(k, v) PROVE Placed'
    <2>1. Checked(k, v) = "Ok" /\ Write(Find(k), v) /\ UNCHANGED <<entries, adding>>
        BY <1>7 DEF SetMemory, SetStored
    <2> QED BY <2>1, WritePlaced
<1>8. CASE ApplyAtStartup
    BY <1>8, SamePlaced DEF ApplyAtStartup
<1> QED BY <1>1, <1>2, <1>3, <1>4, <1>5, <1>6, <1>7, <1>8, RestartPlaced DEF Next

\* What has a place of its own has one owner.
LEMMA PlacedOwned == ASSUME Typed, Placed PROVE OwnedByEntries
<1> SUFFICES ASSUME NEW object \in Objects
             PROVE  /\ memory[object] # None <=> Holders(object) # {}
                    /\ \A i, j \in Holders(object) : i = j
                    /\ memory[object] = None => Unused(object)
    BY DEF OwnedByEntries, Unused
<1>1. object \notin Definitions /\ object # None
    BY ObjectsAssumption, NoneAssumption
<1>2. ASSUME NEW i \in DOMAIN entries, entries[i].object = object PROVE entries[i].context = object
    BY <1>1, <1>2 DEF Placed, PlacesApart, Adopting
<1>3. ASSUME NEW i \in DOMAIN entries, entries[i].context = object
      PROVE  entries[i].object = object \/ (adding # None /\ adding.object = object)
    BY <1>1, <1>3, MemoryFacts DEF Placed, PlacesApart, Adopting
<1>4. memory[object] # None <=> ~Unused(object) \/ (adding # None /\ adding.object = object)
    BY DEF Placed, Allocated
<1>5. ASSUME adding # None, adding.object = object, NEW i \in DOMAIN entries PROVE entries[i].object # object
    <2> SUFFICES ASSUME entries[i].object = object PROVE FALSE
        OBVIOUS
    <2>1. entries[i].context = object
        BY <1>2
    <2>2. adding.result = "Ok" /\ Adopting(Len(entries)) /\ Len(entries) \in DOMAIN entries
        BY <1>5, <2>1 DEF Placed, Pending, Unused
    <2>3. i = Len(entries)
        BY <1>5, <2>1, <2>2 DEF Placed, PlacesApart, Adopting
    <2> QED BY <1>1, <2>2, <2>3 DEF Adopting
<1>6. ASSUME NEW i \in DOMAIN entries, NEW j \in DOMAIN entries,
             entries[i].object = object, entries[j].object = object
      PROVE  i = j
    BY <1>2, <1>6 DEF Placed, PlacesApart
<1>7. 0 \notin DOMAIN entries
    BY MemoryFacts
<1>8. \A i \in Holders(object) : /\ i \in DOMAIN entries \cup {0}
                                 /\ i = 0 => adding # None /\ adding.object = object
                                 /\ i # 0 => entries[i].object = object
    BY <1>7 DEF Holders
<1>9. \A i \in DOMAIN entries : entries[i].object = object => i \in Holders(object)
    BY DEF Holders
<1>10. adding # None /\ adding.object = object => 0 \in Holders(object)
    BY DEF Holders
<1>11. memory[object] # None <=> Holders(object) # {}
    BY <1>2, <1>3, <1>4, <1>8, <1>9, <1>10 DEF Unused
<1>12. \A i, j \in Holders(object) : i = j
    BY <1>5, <1>6, <1>7, <1>8
<1> QED BY <1>4, <1>11, <1>12

------------------------------------------------------------------------------------
LEMMA InitHolds == Init => IInv
<1> SUFFICES ASSUME Init PROVE IInv
    OBVIOUS
<1>1. entries = <<>> /\ DOMAIN entries = {} /\ Len(entries) = 0 /\ entries \in Seq(EntryType)
    BY DEF Init
<1>2. /\ firmware \subseteq Definitions /\ adding = None
      /\ memory = [place \in Places |-> None]
    BY DEF Init, Definitions, Places
<1>3. Typed
    BY <1>1, <1>2, CapacityAssumption DEF Init, Typed, TypeOK, EntriesTyped, Values, Places
<1>4. Sound
    BY <1>1, <1>2 DEF Init, Sound, DistinctKeys, LiveValid, RestartAgrees, UnregisteredUntouched, AppliedCurrent, Places
<1>5. Placed
    BY <1>1, <1>2 DEF Placed, PlacesApart, Pending, Allocated, Unused, Places
<1> QED BY <1>3, <1>4, <1>5 DEF IInv

\* The inductive invariant: every part of it holds in every reachable state.
THEOREM RegistryInvariance == Spec => []IInv
<1>1. IInv /\ [Next]_vars => IInv'
    BY StepSound, StepPlaced DEF IInv
<1> QED BY <1>1, InitHolds, PTL DEF Spec

\* Every variable keeps its type; the registry never exceeds its capacity.
THEOREM RegistryTypeCorrect == Spec => []TypeOK
<1>1. IInv => TypeOK
    BY DEF IInv, Typed
<1> QED BY <1>1, RegistryInvariance, PTL

\* What RAM holds always satisfies the definition of its setting, the initial value
\* of the owned add() excepted.
THEOREM LiveAlwaysValid == Spec => []LiveValid
<1>1. IInv => LiveValid
    BY DEF IInv, Sound
<1> QED BY <1>1, RegistryInvariance, PTL

\* What RAM holds is always what the same add() would load after a restart, unless
\* the store's last answer left that open.
THEOREM RestartAlwaysAgrees == Spec => []RestartAgrees
<1>1. IInv => RestartAgrees
    BY DEF IInv, Sound
<1> QED BY <1>1, RegistryInvariance, PTL

\* The last value given to an apply callback is always the one in RAM, for settings
\* that are not applied on restart only.
THEOREM AppliedAlwaysCurrent == Spec => []AppliedCurrent
<1>1. IInv => AppliedCurrent
    BY DEF IInv, Sound
<1> QED BY <1>1, RegistryInvariance, PTL

\* Whatever add() is refused, and however its store fails it, every allocated object
\* has one owner and no entry points at one that was deleted.
THEOREM OwnedAlwaysByEntries == Spec => []OwnedByEntries
<1>1. IInv => OwnedByEntries
    BY PlacedOwned DEF IInv
<1> QED BY <1>1, RegistryInvariance, PTL

------------------------------------------------------------------------------------
\* There are at most as many registered keys as entries.
LEMMA RegisteredCount ==
    ASSUME EntriesTyped
    PROVE  IsFiniteSet(Registered) /\ Cardinality(Registered) <= Len(entries)
<1> DEFINE keyOf == [i \in DOMAIN entries |-> entries[i].def.key]
<1>1. DOMAIN entries = 1..Len(entries) /\ Len(entries) \in Nat
    BY DEF EntriesTyped
<1>2. IsFiniteSet(DOMAIN entries) /\ Cardinality(DOMAIN entries) = Len(entries)
    <2>1. IsFiniteSet(1..Len(entries))
          /\ Cardinality(1..Len(entries)) = IF 1 > Len(entries) THEN 0 ELSE Len(entries) - 1 + 1
        BY <1>1, FS_Interval
    <2>2. Cardinality(1..Len(entries)) = Len(entries)
        BY <1>1, <2>1
    <2> QED BY <1>1, <2>1, <2>2
<1>3. keyOf \in Surjection(DOMAIN entries, Registered)
    BY DEF Registered, Surjection
<1> QED BY <1>2, <1>3, FS_Surjection

\* A set() that finds no room in its store's index is the fault of a key that the
\* firmware has not registered there.
THEOREM OnlyStaleKeysAlwaysBlock == Spec => []OnlyStaleKeysBlock
<1>1. IInv => OnlyStaleKeysBlock
    <2> SUFFICES ASSUME IInv, NEW i \in DOMAIN entries,
                        entries[i].def.policy \in Stored,
                        ~HasRoom(entries[i].def.policy, entries[i].def.key),
                        \A k \in StoredKeys(entries[i].def.policy) :
                            \E j \in DOMAIN entries :
                                entries[j].def.key = k /\ entries[j].def.policy = entries[i].def.policy
                 PROVE  FALSE
        BY DEF OnlyStaleKeysBlock
    <2> DEFINE key == entries[i].def.key
               held == StoredKeys(entries[i].def.policy)
    <2>1. key \notin held /\ ~(Cardinality(held) < Capacity)
        BY DEF HasRoom
    <2>2. key \in Registered /\ held \subseteq Registered \ {key}
        BY <2>1 DEF Registered
    <2>3. IsFiniteSet(Registered) /\ Cardinality(Registered) <= Len(entries)
        BY RegisteredCount DEF IInv, Typed
    <2>4. IsFiniteSet(Registered \ {key}) /\ Cardinality(Registered \ {key}) = Cardinality(Registered) - 1
        BY <2>2, <2>3, FS_RemoveElement
    <2>5. Cardinality(held) <= Cardinality(Registered \ {key})
        BY <2>2, <2>4, FS_Subset
    <2>6. IsFiniteSet(held)
        BY <2>2, <2>4, FS_Subset
    <2>7. Cardinality(Registered) \in Nat /\ Cardinality(held) \in Nat
        BY <2>3, <2>6, FS_CardinalityType
    <2>8. Len(entries) \in Nat /\ Len(entries) <= Capacity
        BY DEF IInv, Typed, TypeOK, EntriesTyped
    <2> QED BY <2>1, <2>3, <2>4, <2>5, <2>7, <2>8, CapacityAssumption
<1> QED BY <1>1, RegistryInvariance, PTL

-----------------------------------------------------------------------------------
(* The responses. *)

IsAddress(token) == token.kind = "scalar" /\ token.name = "address"
AddressesIn(tokens) == {i \in 1..Len(tokens) : IsAddress(tokens[i])}

\* Real tokens that take the values that are due from one number to another and
\* have n addresses among them.
Carries(tokens, from, to, n) ==
    /\ Run(tokens, from, to)
    /\ \A i \in 1..Len(tokens) : tokens[i].kind \in {"map", "array", "key", "scalar"}
    /\ IsFiniteSet(AddressesIn(tokens)) /\ Cardinality(AddressesIn(tokens)) = n

-----------------------------------------------------------------------------------
(* What carries joins. *)

\* What is moved along by some positions is still as much.
LEMMA MovedAlong ==
    ASSUME NEW S, S \subseteq Nat, IsFiniteSet(S), NEW k \in Nat, NEW T, T = {i + k : i \in S}
    PROVE  IsFiniteSet(T) /\ Cardinality(T) = Cardinality(S)
<1>. DEFINE move == [i \in S |-> i + k]
<1>1. move \in [S -> T]
    OBVIOUS
<1>2. \A i, j \in S : move[i] = move[j] => i = j
    <2>. SUFFICES ASSUME NEW i \in S, NEW j \in S, move[i] = move[j]
                  PROVE  i = j
        OBVIOUS
    <2>1. i + k = j + k
        OBVIOUS
    <2>2. i \in Nat /\ j \in Nat
        OBVIOUS
    <2>. QED
        BY ONLY <2>1, <2>2, k \in Nat
<1>3. \A t \in T : \E i \in S : move[i] = t
    OBVIOUS
<1>. HIDE DEF move
<1>4. move \in Bijection(S, T)
    BY <1>1, <1>2, <1>3, Fun_IsBij
<1>. QED
    BY <1>4, FS_Bijection DEF ExistsBijection

LEMMA NothingCarried ==
    ASSUME NEW n \in Nat
    PROVE  Carries(<<>>, n, n, 0)
<1>1. AddressesIn(<<>>) = {} /\ Len(<<>>) = 0
    BY DEF AddressesIn
<1>. QED
    BY <1>1, NoTokens, FS_EmptySet DEF Carries

LEMMA OneCarried ==
    ASSUME NEW token, token.kind \in {"map", "array", "key", "scalar"}, Needs(token) \in Nat, NEW n \in Nat
    PROVE  Carries(<<token>>, n + 1, n + Needs(token), IF IsAddress(token) THEN 1 ELSE 0)
<1>. DEFINE s == <<token>>
<1>1. s \in Seq({token}) /\ Len(s) = 1 /\ s[1] = token
    OBVIOUS
<1>. HIDE DEF s
<1>2. Run(s, n + 1, n + Needs(token))
    BY OneToken DEF s
<1>3. \A i \in 1..Len(s) : s[i].kind \in {"map", "array", "key", "scalar"}
    BY <1>1
<1>4. AddressesIn(s) = IF IsAddress(token) THEN {1} ELSE {}
    BY <1>1 DEF AddressesIn
<1>5. IsFiniteSet(AddressesIn(s)) /\ Cardinality(AddressesIn(s)) = IF IsAddress(token) THEN 1 ELSE 0
    <2>1. CASE IsAddress(token)
        BY <1>4, <2>1, FS_Singleton
    <2>2. CASE ~IsAddress(token)
        BY <1>4, <2>2, FS_EmptySet
    <2>. QED
        BY <2>1, <2>2
<1>6. Carries(s, n + 1, n + Needs(token), IF IsAddress(token) THEN 1 ELSE 0)
    BY <1>2, <1>3, <1>5 DEF Carries
<1>. QED
    BY <1>6 DEF s

LEMMA JoinedCarry ==
    ASSUME NEW a, NEW b, NEW m, NEW k, NEW n, NEW p, NEW q, Carries(a, m, k, p), Carries(b, k, n, q)
    PROVE  Carries(a \o b, m, n, p + q) /\ p \in Nat /\ q \in Nat
<1>1. PICK A : a \in Seq(A)
    BY DEF Carries, Run, IsSeq
<1>2. PICK B : b \in Seq(B)
    BY DEF Carries, Run, IsSeq
<1>. DEFINE S == A \cup B
            s == a \o b
            sa == AddressesIn(a)
            sb == AddressesIn(b)
            moved == {i + Len(a) : i \in sb}
<1>3. a \in Seq(S) /\ b \in Seq(S) /\ Len(a) \in Nat /\ Len(b) \in Nat
    BY <1>1, <1>2, SeqMonotonic
<1>. HIDE DEF S
<1>4. /\ s \in Seq(S) /\ Len(s) = Len(a) + Len(b)
      /\ \A i \in 1..Len(s) : s[i] = IF i <= Len(a) THEN a[i] ELSE b[i - Len(a)]
    BY <1>3, ConcatProperties
<1>. HIDE DEF s
<1>5. Run(s, m, n)
    BY ConcatRuns DEF Carries, s
<1>6. \A i \in 1..Len(s) : \/ i \in 1..Len(a) /\ s[i] = a[i]
                           \/ i - Len(a) \in 1..Len(b) /\ s[i] = b[i - Len(a)] /\ i > Len(a)
    BY <1>3, <1>4
<1>7. \A i \in 1..Len(s) : s[i].kind \in {"map", "array", "key", "scalar"}
    BY <1>6 DEF Carries
<1>8. \A i \in 1..Len(a) : i \in 1..Len(s) /\ s[i] = a[i]
    BY <1>3, <1>4
<1>9. \A i \in 1..Len(b) : i + Len(a) \in 1..Len(s) /\ s[i + Len(a)] = b[i] /\ i + Len(a) > Len(a)
    <2>. SUFFICES ASSUME NEW i \in 1..Len(b)
                  PROVE  i + Len(a) \in 1..Len(s) /\ s[i + Len(a)] = b[i] /\ i + Len(a) > Len(a)
        OBVIOUS
    <2>. DEFINE j == i + Len(a)
    <2>1. j \in 1..Len(s) /\ ~(j <= Len(a)) /\ j - Len(a) = i /\ j > Len(a)
        BY <1>3, <1>4
    <2>. HIDE DEF j
    <2>2. s[j] = b[i]
        BY <1>4, <2>1
    <2>. QED
        BY <2>1, <2>2 DEF j
<1>10. AddressesIn(s) = sa \cup moved
    <2>1. ASSUME NEW i \in AddressesIn(s)
          PROVE  i \in sa \cup moved
        <3>1. i \in 1..Len(s) /\ IsAddress(s[i]) /\ i \in Nat
            BY DEF AddressesIn
        <3>2. CASE i \in 1..Len(a) /\ s[i] = a[i]
            BY <3>1, <3>2 DEF AddressesIn
        <3>3. CASE i - Len(a) \in 1..Len(b) /\ s[i] = b[i - Len(a)]
            <4>1. i - Len(a) \in sb
                BY <3>1, <3>3 DEF AddressesIn
            <4>2. i = (i - Len(a)) + Len(a)
                BY <1>3, <3>1
            <4>. HIDE DEF sb
            <4>. QED
                BY <4>1, <4>2
        <3>. QED
            BY <1>6, <3>1, <3>2, <3>3
    <2>2. \A i \in sa : i \in AddressesIn(s)
        BY <1>8 DEF AddressesIn
    <2>3. \A i \in sb : i + Len(a) \in AddressesIn(s)
        BY <1>9 DEF AddressesIn
    <2>. HIDE DEF sa, sb
    <2>. QED
        BY <2>1, <2>2, <2>3
<1>11. sa \cap moved = {}
    <2>1. \A i \in sa : ~(i > Len(a))
        BY <1>3 DEF AddressesIn
    <2>2. \A i \in moved : i > Len(a)
        BY <1>9 DEF AddressesIn
    <2>. QED
        BY <2>1, <2>2
<1>12. IsFiniteSet(sa) /\ Cardinality(sa) = p /\ IsFiniteSet(sb) /\ Cardinality(sb) = q /\ sb \subseteq Nat
    BY DEF Carries, AddressesIn
<1>. HIDE DEF sa, sb
<1>13. IsFiniteSet(moved) /\ Cardinality(moved) = q
    BY <1>3, <1>12, MovedAlong
<1>. HIDE DEF moved
<1>14. p \in Nat /\ q \in Nat
    BY <1>12, FS_CardinalityType
<1>15. IsFiniteSet(sa \cup moved) /\ Cardinality(sa \cup moved) = p + q
    <2>1. /\ IsFiniteSet(sa \cup moved)
          /\ Cardinality(sa \cup moved) = Cardinality(sa) + Cardinality(moved) - Cardinality(sa \cap moved)
        BY <1>12, <1>13, FS_Union
    <2>2. Cardinality(sa \cap moved) = 0
        BY <1>11, FS_EmptySet
    <2>. QED
        BY <1>12, <1>13, <1>14, <2>1, <2>2
<1>16. Carries(s, m, n, p + q)
    BY <1>5, <1>7, <1>10, <1>15 DEF Carries
<1>. QED
    BY <1>14, <1>16 DEF s

LEMMA MoreCarried ==
    ASSUME NEW tokens, NEW m, NEW n, NEW p, Carries(tokens, m, n, p), NEW k \in Nat
    PROVE  Carries(tokens, m + k, n + k, p)
BY MoreDue DEF Carries

-----------------------------------------------------------------------------------
(* Maps of pairs. *)

\* One value with n addresses; p pairs of a map; a map that still asks for p pairs.
Whole(tokens, n) == Carries(tokens, 1, 0, n)
Pairs(tokens, p, n) == Carries(tokens, 2 * p, 0, n)
Asking(tokens, p, n) == Carries(tokens, 1, 2 * p, n)

LEMMA PairIs ==
    ASSUME NEW name, NEW tokens, NEW n, Whole(tokens, n)
    PROVE  Pairs(Pair(name, tokens), 1, n)
<1>1. Needs(Key(name)) = 0 /\ Key(name).kind = "key" /\ ~IsAddress(Key(name))
    BY DEF Needs, Key, IsAddress
<1>2. Carries(<<Key(name)>>, 1 + 1, 1 + 0, 0)
    BY <1>1, OneCarried
<1>3. Carries(<<Key(name)>>, 2, 1, 0) /\ Carries(tokens, 1, 0, n)
    BY <1>2 DEF Whole
<1>4. Carries(<<Key(name)>> \o tokens, 2, 0, 0 + n) /\ n \in Nat
    BY <1>3, JoinedCarry
<1>5. 0 + n = n /\ 2 * 1 = 2
    BY <1>4
<1>. QED
    BY <1>4, <1>5 DEF Pairs, Pair

LEMMA FieldIs ==
    ASSUME NEW name, NEW v
    PROVE  /\ name # "address" => Pairs(Field(name, v), 1, 0)
           /\ name = "address" => Pairs(Field(name, v), 1, 1)
<1>. DEFINE t == Scalar(name, v)
<1>1. Needs(t) = 0 /\ t.kind = "scalar" /\ (IsAddress(t) <=> name = "address")
    BY DEF Needs, Scalar, IsAddress
<1>2. Carries(<<t>>, 0 + 1, 0 + 0, IF IsAddress(t) THEN 1 ELSE 0)
    BY <1>1, OneCarried
<1>3. /\ name # "address" => Whole(<<t>>, 0)
      /\ name = "address" => Whole(<<t>>, 1)
    BY <1>1, <1>2 DEF Whole
<1>4. \A n : Whole(<<t>>, n) => Pairs(Pair(name, <<t>>), 1, n)
    BY PairIs
<1>. QED
    BY <1>3, <1>4 DEF Field

\* A field that is written on a condition, and counted on the same.
LEMMA WhenIs ==
    ASSUME NEW c, NEW tokens, Pairs(tokens, 1, 0)
    PROVE  Pairs(When(c, tokens), Count(c), 0) /\ Count(c) \in Nat
<1>1. CASE c
    BY <1>1 DEF When, Count
<1>2. CASE ~c
    <2>1. Carries(<<>>, 0, 0, 0) /\ 2 * 0 = 0
        BY NothingCarried
    <2>2. When(c, tokens) = <<>> /\ Count(c) = 0
        BY <1>2 DEF When, Count
    <2>. QED
        BY <2>1, <2>2 DEF Pairs
<1>. QED
    BY <1>1, <1>2

LEMMA MapAsks ==
    ASSUME NEW p \in Nat
    PROVE  Asking(<<Map(p)>>, p, 0)
<1>1. Needs(Map(p)) = 2 * p /\ Map(p).kind = "map" /\ ~IsAddress(Map(p)) /\ 2 * p \in Nat
    BY DEF Needs, Map, IsAddress
<1>2. Carries(<<Map(p)>>, 0 + 1, 0 + 2 * p, 0)
    BY <1>1, OneCarried
<1>3. 0 + 1 = 1 /\ 0 + 2 * p = 2 * p
    BY <1>1
<1>. QED
    BY <1>2, <1>3 DEF Asking

LEMMA PairsAdded ==
    ASSUME NEW p \in Nat, NEW q \in Nat, NEW a, NEW b, NEW n, NEW k, Asking(a, q + p, n), Pairs(b, q, k)
    PROVE  Asking(a \o b, p, n + k)
<1>1. Carries(b, 2 * q + 2 * p, 0 + 2 * p, k)
    <2>1. 2 * p \in Nat /\ Carries(b, 2 * q, 0, k)
        BY DEF Pairs
    <2>. HIDE DEF Carries
    <2>. QED
        BY <2>1, MoreCarried
<1>2. 2 * q + 2 * p = 2 * (q + p) /\ 0 + 2 * p = 2 * p
    OBVIOUS
<1>3. Carries(a, 1, 2 * (q + p), n) /\ Carries(b, 2 * (q + p), 2 * p, k)
    BY <1>1, <1>2 DEF Asking
<1>. QED
    BY <1>3, JoinedCarry DEF Asking

LEMMA NoMoreAsked ==
    ASSUME NEW tokens, NEW n, Asking(tokens, 0, n)
    PROVE  Whole(tokens, n)
<1>1. 2 * 0 = 0
    OBVIOUS
<1>. QED
    BY <1>1 DEF Asking, Whole

\* The usual maps: of one, two and three pairs.
LEMMA MapOfOne ==
    ASSUME NEW a, NEW i, Pairs(a, 1, i)
    PROVE  Whole(<<Map(1)>> \o a, i)
<1>1. i \in Nat
    BY FS_CardinalityType DEF Pairs, Carries
<1>2. Asking(<<Map(1)>>, 1 + 0, 0)
    BY MapAsks
<1>3. Asking(<<Map(1)>> \o a, 0, 0 + i)
    BY <1>2, PairsAdded
<1>. QED
    BY <1>1, <1>3, NoMoreAsked

LEMMA MapOfTwo ==
    ASSUME NEW a, NEW i, Pairs(a, 1, i), NEW b, NEW j, Pairs(b, 1, j)
    PROVE  Whole(<<Map(2)>> \o a \o b, i + j)
<1>1. i \in Nat /\ j \in Nat
    BY FS_CardinalityType DEF Pairs, Carries
<1>2. Asking(<<Map(2)>>, 1 + 1, 0)
    BY MapAsks
<1>3. Asking(<<Map(2)>> \o a, 1 + 0, 0 + i)
    BY <1>2, PairsAdded
<1>4. Asking(<<Map(2)>> \o a \o b, 0, (0 + i) + j)
    BY <1>3, PairsAdded
<1>. QED
    BY <1>1, <1>4, NoMoreAsked

LEMMA MapOfThree ==
    ASSUME NEW a, NEW i, Pairs(a, 1, i), NEW b, NEW j, Pairs(b, 1, j), NEW c, NEW k, Pairs(c, 1, k)
    PROVE  Whole(<<Map(3)>> \o a \o b \o c, i + j + k)
<1>1. i \in Nat /\ j \in Nat /\ k \in Nat
    BY FS_CardinalityType DEF Pairs, Carries
<1>2. Asking(<<Map(3)>>, 1 + 2, 0)
    BY MapAsks
<1>3. Asking(<<Map(3)>> \o a, 1 + 1, 0 + i)
    BY <1>2, PairsAdded
<1>4. Asking(<<Map(3)>> \o a \o b, 1 + 0, (0 + i) + j)
    BY <1>3, PairsAdded
<1>5. Asking(<<Map(3)>> \o a \o b \o c, 0, ((0 + i) + j) + k)
    BY <1>4, PairsAdded
<1>. QED
    BY <1>1, <1>5, NoMoreAsked

-----------------------------------------------------------------------------------
(* What a pass over the registry carries. *)

\* FlattenSeq joins one sequence after another.
LEMMA FlattenSteps ==
    ASSUME NEW seqs, IsSeq(seqs), Len(seqs) # 0
    PROVE  \E f : /\ FlattenSeq(seqs) = f[Len(seqs)]
                  /\ \A i \in 1..Len(seqs) : f[i] = IF i = 1 THEN seqs[i] ELSE f[i - 1] \o seqs[i]
<1>. DEFINE N == Len(seqs)
            F(f) == [i \in 1..N |-> IF i = 1 THEN seqs[i] ELSE f[i - 1] \o seqs[i]]
            flatten == CHOOSE f : f = F(f)
<1>1. N \in Nat
    BY DEF IsSeq
<1>2. FlattenSeq(seqs) = flatten[N]
    BY DEF FlattenSeq
<1>3. flatten = F(flatten)
    <2>1. \E f : f = F(f)
        BY <1>1, FlattenExists
    <2>. QED
        BY <2>1
<1>. HIDE DEF flatten
<1>4. \A i \in 1..N : flatten[i] = IF i = 1 THEN seqs[i] ELSE flatten[i - 1] \o seqs[i]
    BY <1>3
<1>. QED
    BY <1>2, <1>4

LEMMA FlattenCarries ==
    ASSUME NEW seqs, IsSeq(seqs), NEW due \in [0..Len(seqs) -> Nat], NEW tally \in [0..Len(seqs) -> Nat],
           tally[0] = 0,
           \A i \in 1..Len(seqs) : \E c \in Nat : /\ Carries(seqs[i], due[i - 1], due[i], c)
                                                  /\ tally[i] = tally[i - 1] + c
    PROVE  Carries(FlattenSeq(seqs), due[0], due[Len(seqs)], tally[Len(seqs)])
<1>. DEFINE N == Len(seqs)
<1>1. N \in Nat
    BY DEF IsSeq
<1>2. CASE N = 0
    <2>1. seqs = <<>>
        BY <1>2, EmptySeq DEF IsSeq
    <2>2. FlattenSeq(seqs) = <<>>
        BY <1>2, <2>1 DEF FlattenSeq
    <2>3. due[0] \in Nat
        BY <1>1
    <2>. QED
        BY <1>2, <2>2, <2>3, NothingCarried
<1>3. CASE N # 0
    <2>1. PICK f : /\ FlattenSeq(seqs) = f[N]
                   /\ \A i \in 1..N : f[i] = IF i = 1 THEN seqs[i] ELSE f[i - 1] \o seqs[i]
        BY <1>3, FlattenSteps
    <2>. DEFINE bad == {i \in 1..N : ~Carries(f[i], due[0], due[i], tally[i])}
    <2>2. bad = {}
        <3>1. SUFFICES ASSUME bad # {}
                       PROVE  FALSE
            OBVIOUS
        <3>2. bad \subseteq Nat
            BY <1>1
        <3>3. PICK i \in bad : \A j \in bad : i <= j
            BY <3>1, <3>2, LeastNumber
        <3>4. i \in 1..N /\ ~Carries(f[i], due[0], due[i], tally[i])
            OBVIOUS
        <3>5. PICK c \in Nat : Carries(seqs[i], due[i - 1], due[i], c) /\ tally[i] = tally[i - 1] + c
            BY <3>4
        <3>6. CASE i = 1
            <4>1. f[i] = seqs[i] /\ i - 1 = 0 /\ 0 + c = c
                BY <2>1, <3>4, <3>6
            <4>. QED
                BY <3>4, <3>5, <4>1
        <3>7. CASE i # 1
            <4>1. i - 1 \in 1..N /\ ~(i <= i - 1)
                BY <1>1, <3>4, <3>7
            <4>2. i - 1 \notin bad
                <5>. HIDE DEF bad
                <5>. QED
                    BY <3>3, <4>1
            <4>3. Carries(f[i - 1], due[0], due[i - 1], tally[i - 1])
                BY <4>1, <4>2
            <4>4. f[i] = f[i - 1] \o seqs[i]
                BY <2>1, <3>4, <3>7
            <4>5. Carries(f[i - 1] \o seqs[i], due[0], due[i], tally[i - 1] + c)
                BY <3>5, <4>3, JoinedCarry
            <4>. QED
                BY <3>4, <3>5, <4>4, <4>5
        <3>. QED
            BY <3>6, <3>7
    <2>3. N \in 1..N
        BY <1>1, <1>3
    <2>. QED
        BY <2>1, <2>2, <2>3
<1>. QED
    BY <1>2, <1>3

\* What one of the joined sequences has, the whole has.
Has(tokens, token) == \E i \in 1..Len(tokens) : tokens[i] = token

LEMMA JoinedHas ==
    ASSUME NEW a, IsSeq(a), NEW b, IsSeq(b), NEW token
    PROVE  IsSeq(a \o b) /\ (Has(a, token) \/ Has(b, token) => Has(a \o b, token))
<1>1. PICK A : a \in Seq(A)
    BY DEF IsSeq
<1>2. PICK B : b \in Seq(B)
    BY DEF IsSeq
<1>. DEFINE S == A \cup B
            s == a \o b
<1>3. a \in Seq(S) /\ b \in Seq(S) /\ Len(a) \in Nat /\ Len(b) \in Nat
    BY <1>1, <1>2, SeqMonotonic
<1>. HIDE DEF S
<1>4. /\ s \in Seq(S) /\ Len(s) = Len(a) + Len(b)
      /\ \A i \in 1..Len(s) : s[i] = IF i <= Len(a) THEN a[i] ELSE b[i - Len(a)]
    BY <1>3, ConcatProperties
<1>. HIDE DEF s
<1>5. IsSeq(s)
    BY <1>4 DEF IsSeq
<1>6. \A i \in 1..Len(a) : i \in 1..Len(s) /\ s[i] = a[i]
    BY <1>3, <1>4
<1>7. \A i \in 1..Len(b) : i + Len(a) \in 1..Len(s) /\ s[i + Len(a)] = b[i]
    <2>1. \A i \in 1..Len(b) : /\ i + Len(a) \in 1..Len(s) /\ ~(i + Len(a) <= Len(a))
                               /\ (i + Len(a)) - Len(a) = i
        BY <1>3, <1>4
    <2>. QED
        BY <1>4, <2>1
<1>8. Has(a, token) \/ Has(b, token) => Has(s, token)
    BY <1>6, <1>7 DEF Has
<1>. QED
    BY <1>5, <1>8 DEF s

LEMMA FlattenHas ==
    ASSUME NEW seqs, IsSeq(seqs), \A i \in 1..Len(seqs) : IsSeq(seqs[i]),
           NEW k \in 1..Len(seqs), NEW token, Has(seqs[k], token)
    PROVE  IsSeq(FlattenSeq(seqs)) /\ Has(FlattenSeq(seqs), token)
<1>. DEFINE N == Len(seqs)
<1>1. N \in Nat /\ N # 0 /\ N \in k..N /\ k \in Nat /\ N \in 1..N
    BY DEF IsSeq
<1>2. PICK f : /\ FlattenSeq(seqs) = f[N]
               /\ \A i \in 1..N : f[i] = IF i = 1 THEN seqs[i] ELSE f[i - 1] \o seqs[i]
    BY <1>1, FlattenSteps
<1>. DEFINE bad == {i \in 1..N : ~(IsSeq(f[i]) /\ (i >= k => Has(f[i], token)))}
<1>3. bad = {}
    <2>1. SUFFICES ASSUME bad # {}
                   PROVE  FALSE
        OBVIOUS
    <2>2. bad \subseteq Nat
        BY <1>1
    <2>3. PICK i \in bad : \A j \in bad : i <= j
        BY <2>1, <2>2, LeastNumber
    <2>4. i \in 1..N /\ ~(IsSeq(f[i]) /\ (i >= k => Has(f[i], token)))
        OBVIOUS
    <2>5. CASE i = 1
        <3>1. f[i] = seqs[i] /\ (i >= k => i = k) /\ IsSeq(seqs[i])
            BY <1>2, <2>4, <2>5
        <3>. QED
            BY <2>4, <3>1
    <2>6. CASE i # 1
        <3>1. i - 1 \in 1..N /\ ~(i <= i - 1) /\ (i >= k => i - 1 >= k \/ i = k)
            BY <1>1, <2>4, <2>6
        <3>2. i - 1 \notin bad
            <4>. HIDE DEF bad
            <4>. QED
                BY <2>3, <3>1
        <3>3. IsSeq(f[i - 1]) /\ (i - 1 >= k => Has(f[i - 1], token))
            BY <3>1, <3>2
        <3>4. f[i] = f[i - 1] \o seqs[i] /\ IsSeq(seqs[i])
            BY <1>2, <2>4, <2>6
        <3>. QED
            BY <2>4, <3>1, <3>3, <3>4, JoinedHas
    <2>. QED
        BY <2>5, <2>6
<1>. QED
    BY <1>1, <1>2, <1>3

\* SeenNames: of the indices in T, those whose name f no earlier one has; all that have
\* the name of one; and all whose name was seen up to an index.
Firsts(f, T) == {i \in T : \A j \in T : j < i => f[j] # f[i]}
Alike(f, T, i) == {j \in T : f[j] = f[i]}
Met(f, T, i) == {j \in T : \E h \in T : h <= i /\ f[h] = f[j]}

\* Every name is that of one first index.
LEMMA FirstIsThere ==
    ASSUME NEW T, T \subseteq Nat, NEW f, NEW i \in T
    PROVE  \E j \in Firsts(f, T) : f[j] = f[i] /\ j <= i
<1>. DEFINE S == {j \in T : f[j] = f[i]}
<1>1. PICK j \in S : \A h \in S : j <= h
    BY LeastNumber
<1>2. j \in T /\ f[j] = f[i] /\ j \in Nat /\ i \in S /\ S \subseteq Nat
    OBVIOUS
<1>3. \A h \in S : ~(h < j)
    BY <1>1, <1>2
<1>4. \A h \in T : h < j => f[h] # f[j]
    BY <1>2, <1>3
<1>. HIDE DEF S
<1>. QED
    BY <1>1, <1>2, <1>4 DEF Firsts

\* There are as many first indices as there are names.
LEMMA FirstsCounted ==
    ASSUME NEW N \in Nat, NEW T, T \subseteq 1..N, NEW f
    PROVE  Cardinality(Firsts(f, T)) = Cardinality({f[i] : i \in T})
<1>. DEFINE W == Firsts(f, T)
            names == {f[i] : i \in T}
            name == [i \in W |-> f[i]]
<1>1. T \subseteq Nat /\ IsFiniteSet(W) /\ W \subseteq T
    <2>1. IsFiniteSet(1..N)
        BY FS_Interval
    <2>2. W \subseteq 1..N /\ W \subseteq T
        BY DEF Firsts
    <2>. QED
        BY <2>1, <2>2, FS_Subset
<1>2. name \in [W -> names]
    BY <1>1
<1>3. ASSUME NEW i \in W, NEW j \in W, name[i] = name[j]
      PROVE  i = j
    <2>1. f[i] = f[j] /\ i \in Nat /\ j \in Nat /\ i \in T /\ j \in T
        BY <1>1, <1>3
    <2>2. ~(i < j) /\ ~(j < i)
        BY <2>1 DEF Firsts
    <2>. QED
        BY <2>1, <2>2
<1>4. ASSUME NEW v \in names
      PROVE  \E i \in W : name[i] = v
    <2>1. PICK i \in T : v = f[i]
        OBVIOUS
    <2>2. PICK j \in W : f[j] = f[i]
        BY <1>1, FirstIsThere
    <2>. QED
        BY <2>1, <2>2
<1>. HIDE DEF W, names, name
<1>5. name \in Bijection(W, names)
    BY <1>2, <1>3, <1>4, Fun_IsBij
<1>6. Cardinality(names) = Cardinality(W)
    BY <1>1, <1>5, FS_Bijection DEF ExistsBijection
<1>. QED
    BY <1>6 DEF W, names

\* A pass that writes one value for each name, with an address for each index of that
\* name, writes as many values as there are names and an address for every index.
LEMMA OnceForEachName ==
    ASSUME NEW N \in Nat, NEW T, T \subseteq 1..N, NEW f, NEW parts, IsSeq(parts), Len(parts) = N,
           \A i \in 1..N : IF i \in Firsts(f, T) THEN Whole(parts[i], Cardinality(Alike(f, T, i)))
                           ELSE parts[i] = <<>>
    PROVE  Carries(FlattenSeq(parts), Cardinality(Firsts(f, T)), 0, Cardinality(T))
<1>. DEFINE W == Firsts(f, T)
            due == [i \in 0..N |-> Ahead(W, i)]
            tally == [i \in 0..N |-> Cardinality(Met(f, T, i))]
<1>1. W \subseteq T /\ W \subseteq 1..N /\ T \subseteq Nat
    <2>1. W \subseteq T
        BY DEF Firsts
    <2>. HIDE DEF W
    <2>. QED
        BY <2>1
<1>2. IsFiniteSet(T)
    <2>1. IsFiniteSet(1..N)
        BY FS_Interval
    <2>. QED
        BY <2>1, FS_Subset
<1>3. \A i : /\ IsFiniteSet(Met(f, T, i)) /\ Cardinality(Met(f, T, i)) \in Nat
             /\ IsFiniteSet(Alike(f, T, i)) /\ Cardinality(Alike(f, T, i)) \in Nat
    <2>. SUFFICES ASSUME NEW i
                  PROVE  /\ IsFiniteSet(Met(f, T, i)) /\ Cardinality(Met(f, T, i)) \in Nat
                         /\ IsFiniteSet(Alike(f, T, i)) /\ Cardinality(Alike(f, T, i)) \in Nat
        OBVIOUS
    <2>1. Met(f, T, i) \subseteq T /\ Alike(f, T, i) \subseteq T
        BY DEF Met, Alike
    <2>. QED
        BY <1>2, <2>1, FS_Subset, FS_CardinalityType
<1>. HIDE DEF W
<1>4. /\ \A i \in 0..N : Ahead(W, i) \in Nat
      /\ Ahead(W, 0) = Cardinality(W) /\ Ahead(W, N) = 0
      /\ \A i \in 1..N : Ahead(W, i - 1) = IF i \in W THEN Ahead(W, i) + 1 ELSE Ahead(W, i)
    BY <1>1, StillToCome
<1>5. due \in [0..N -> Nat] /\ tally \in [0..N -> Nat]
    BY <1>3, <1>4
<1>6. tally[0] = 0 /\ tally[N] = Cardinality(T)
    <2>1. Met(f, T, 0) = {}
        <3>1. \A h \in T : ~(h <= 0)
            BY <1>1
        <3>. QED
            BY <3>1 DEF Met
    <2>2. Met(f, T, N) = T
        <3>1. \A h \in T : h <= N
            BY <1>1
        <3>. QED
            BY <3>1 DEF Met
    <2>. QED
        BY <2>1, <2>2, FS_EmptySet
<1>7. ASSUME NEW i \in 1..N
      PROVE  \E c \in Nat : Carries(parts[i], due[i - 1], due[i], c) /\ tally[i] = tally[i - 1] + c
    <2>1. i \in 0..N /\ i - 1 \in 0..N /\ i \in Nat
        OBVIOUS
    <2>2. /\ due[i] = Ahead(W, i) /\ due[i - 1] = Ahead(W, i - 1) /\ Ahead(W, i) \in Nat
          /\ tally[i] = Cardinality(Met(f, T, i)) /\ tally[i - 1] = Cardinality(Met(f, T, i - 1))
        BY <1>4, <2>1
    <2>3. \A h \in T : h <= i <=> h <= i - 1 \/ h = i
        BY <1>1, <2>1
    <2>. HIDE DEF due, tally
    <2>4. CASE i \in W
        <3>. DEFINE c == Cardinality(Alike(f, T, i))
        <3>1. i \in T /\ \A j \in T : j <= i - 1 => f[j] # f[i]
            <4>1. i \in T /\ \A j \in T : j < i => f[j] # f[i]
                BY <2>4 DEF W, Firsts
            <4>2. \A j \in T : j <= i - 1 => j < i
                BY <1>1, <2>1
            <4>. QED
                BY <4>1, <4>2
        <3>2. Met(f, T, i) = Met(f, T, i - 1) \cup Alike(f, T, i)
            BY <2>3, <3>1 DEF Met, Alike
        <3>3. Met(f, T, i - 1) \cap Alike(f, T, i) = {}
            BY <3>1 DEF Met, Alike
        <3>4. Cardinality(Met(f, T, i)) = Cardinality(Met(f, T, i - 1)) + c
            <4>1. Cardinality(Met(f, T, i - 1) \cap Alike(f, T, i)) = 0
                BY <3>3, FS_EmptySet
            <4>2. Cardinality(Met(f, T, i - 1) \cup Alike(f, T, i)) =
                      Cardinality(Met(f, T, i - 1)) + Cardinality(Alike(f, T, i))
                      - Cardinality(Met(f, T, i - 1) \cap Alike(f, T, i))
                BY <1>3, FS_Union
            <4>3. Cardinality(Met(f, T, i - 1)) \in Nat /\ c \in Nat
                BY <1>3
            <4>. QED
                BY <3>2, <4>1, <4>2, <4>3
        <3>5. c \in Nat
            BY <1>3
        <3>6. Carries(parts[i], 1, 0, c)
            BY <2>4 DEF W, Whole
        <3>. HIDE DEF c
        <3>7. Carries(parts[i], 1 + Ahead(W, i), 0 + Ahead(W, i), c)
            BY <2>2, <3>6, MoreCarried
        <3>8. 1 + Ahead(W, i) = Ahead(W, i - 1) /\ 0 + Ahead(W, i) = Ahead(W, i)
            BY <1>4, <2>2, <2>4
        <3>. QED
            BY <2>2, <3>4, <3>5, <3>7, <3>8
    <2>5. CASE i \notin W
        <3>1. Met(f, T, i) = Met(f, T, i - 1)
            <4>1. \A j \in T : f[i] = f[j] /\ i \in T => \E h \in T : h <= i - 1 /\ f[h] = f[j]
                <5>1. i \in T => \E h \in T : h < i /\ f[h] = f[i]
                    BY <2>5 DEF W, Firsts
                <5>2. \A h \in T : h < i => h <= i - 1
                    BY <1>1, <2>1
                <5>. QED
                    BY <5>1, <5>2
            <4>2. \A j \in T : (\E h \in T : h <= i /\ f[h] = f[j]) <=> (\E h \in T : h <= i - 1 /\ f[h] = f[j])
                BY <2>3, <4>1
            <4>. QED
                BY <4>2 DEF Met
        <3>2. parts[i] = <<>>
            BY <2>5 DEF W
        <3>3. Carries(parts[i], Ahead(W, i), Ahead(W, i), 0)
            BY <2>2, <3>2, NothingCarried
        <3>4. Ahead(W, i - 1) = Ahead(W, i)
            BY <1>4, <2>5
        <3>5. Cardinality(Met(f, T, i - 1)) \in Nat
            BY <1>3
        <3>6. tally[i] = tally[i - 1] + 0
            BY <2>2, <3>1, <3>5
        <3>. QED
            BY <2>2, <3>3, <3>4, <3>6
    <2>. QED
        BY <2>4, <2>5
<1>8. due[0] = Cardinality(W) /\ due[N] = 0
    BY <1>4
<1>. HIDE DEF due, tally
<1>9. Carries(FlattenSeq(parts), due[0], due[N], tally[N])
    BY <1>5, <1>6, <1>7, FlattenCarries
<1>. QED
    BY <1>6, <1>8, <1>9 DEF W

LEMMA SeqOfParts ==
    ASSUME NEW N \in Nat, NEW parts, parts = [i \in 1..N |-> parts[i]]
    PROVE  IsSeq(parts) /\ Len(parts) = N
<1>1. parts \in [1..N -> {parts[i] : i \in 1..N}]
    OBVIOUS
<1>2. parts \in Seq({parts[i] : i \in 1..N})
    BY <1>1, IsASeq
<1>3. DOMAIN parts = 1..N
    BY <1>1
<1>. QED
    BY <1>2, <1>3, LenProperties DEF IsSeq

\* An array whose count is that of the values in it.
LEMMA ArrayIs ==
    ASSUME NEW n \in Nat, NEW tokens, NEW c, Carries(tokens, n, 0, c)
    PROVE  Whole(<<Array(n)>> \o tokens, c)
<1>1. Needs(Array(n)) = n /\ Array(n).kind = "array" /\ ~IsAddress(Array(n))
    BY DEF Needs, Array, IsAddress
<1>2. Carries(<<Array(n)>>, 0 + 1, 0 + n, 0)
    BY <1>1, OneCarried
<1>3. 0 + n = n /\ 0 + 1 = 1
    OBVIOUS
<1>4. Carries(<<Array(n)>>, 1, n, 0)
    BY <1>2, <1>3
<1>5. Carries(<<Array(n)>> \o tokens, 1, 0, 0 + c) /\ c \in Nat
    BY <1>4, JoinedCarry
<1>6. 0 + c = c
    BY <1>5
<1>. QED
    BY <1>5, <1>6 DEF Whole

\* An array of values with an address each, or with none, one for each element of a
\* sequence.
LEMMA ArrayFilled ==
    ASSUME NEW N \in Nat, NEW parts, parts = [i \in 1..N |-> parts[i]],
           NEW k \in {0, 1}, \A i \in 1..N : Whole(parts[i], k)
    PROVE  Whole(<<Array(N)>> \o FlattenSeq(parts), IF k = 0 THEN 0 ELSE N)
<1>. DEFINE due == [i \in 0..N |-> N - i]
            tally == [i \in 0..N |-> IF k = 0 THEN 0 ELSE i]
<1>1. IsSeq(parts) /\ Len(parts) = N
    BY SeqOfParts
<1>2. /\ due \in [0..N -> Nat] /\ due[0] = N /\ due[N] = 0
      /\ tally \in [0..N -> Nat] /\ tally[0] = 0 /\ tally[N] = IF k = 0 THEN 0 ELSE N
    OBVIOUS
<1>3. ASSUME NEW i \in 1..N
      PROVE  \E c \in Nat : Carries(parts[i], due[i - 1], due[i], c) /\ tally[i] = tally[i - 1] + c
    <2>1. i \in 0..N /\ i - 1 \in 0..N /\ i \in Nat
        OBVIOUS
    <2>2. due[i] \in Nat /\ 1 + due[i] = due[i - 1] /\ 0 + due[i] = due[i] /\ tally[i] = tally[i - 1] + k
        BY <2>1
    <2>. HIDE DEF due, tally
    <2>3. Carries(parts[i], 1 + due[i], 0 + due[i], k)
        BY <1>3, <2>2, MoreCarried DEF Whole
    <2>. QED
        BY <2>2, <2>3
<1>. HIDE DEF due, tally
<1>4. Carries(FlattenSeq(parts), due[0], due[N], tally[N])
    BY <1>1, <1>2, <1>3, FlattenCarries
<1>. QED
    BY <1>2, <1>4, ArrayIs

-----------------------------------------------------------------------------------
(* The serializers of the device. *)

LEMMA LimitsWhole ==
    ASSUME NEW s, s.options \in Seq(Int)
    PROVE  Whole(LimitTokens(s), 0)
<1>. DEFINE numeric == ~IsBool(s.type)
            bound(name, limit) == When(numeric /\ limit # {}, Field(name, limit))
            a == Count(numeric /\ s.min # {})
            b == Count(numeric /\ s.max # {})
            c == Count(numeric /\ s.step # {})
            N == Len(s.options)
            part(i) == <<Map(2)>> \o Field("value", s.options[i]) \o Field("id", s.ids[i])
            parts == [i \in 1..N |-> part(i)]
            options == <<Array(N)>> \o FlattenSeq(parts)
<1>1. N \in Nat /\ DOMAIN s.options = 1..N
    OBVIOUS
<1>2. Whole(options, 0)
    <2>1. \A i \in 1..N : Whole(parts[i], 0)
        <3>. SUFFICES ASSUME NEW i \in 1..N
                      PROVE  Whole(parts[i], 0)
            OBVIOUS
        <3>1. Pairs(Field("value", s.options[i]), 1, 0) /\ Pairs(Field("id", s.ids[i]), 1, 0)
            BY FieldIs
        <3>2. Whole(part(i), 0 + 0)
            BY <3>1, MapOfTwo
        <3>. QED
            BY <3>2
    <2>2. parts = [i \in 1..N |-> parts[i]]
        OBVIOUS
    <2>. HIDE DEF parts, N
    <2>. QED
        BY <1>1, <2>1, <2>2, ArrayFilled
<1>3. /\ Pairs(bound("min", s.min), a, 0) /\ a \in Nat
      /\ Pairs(bound("max", s.max), b, 0) /\ b \in Nat
      /\ Pairs(bound("step", s.step), c, 0) /\ c \in Nat
    <2>1. /\ Pairs(Field("min", s.min), 1, 0)
          /\ Pairs(Field("max", s.max), 1, 0)
          /\ Pairs(Field("step", s.step), 1, 0)
        BY FieldIs
    <2>. QED
        BY <2>1, WhenIs
<1>4. Pairs(Field("isRange", s.isRange), 1, 0) /\ Pairs(Pair("options", options), 1, 0)
    BY <1>2, FieldIs, PairIs
<1>. DEFINE t0 == <<Map(2 + a + b + c)>>
            t1 == t0 \o bound("min", s.min)
            t2 == t1 \o bound("max", s.max)
            t3 == t2 \o bound("step", s.step)
            t4 == t3 \o Field("isRange", s.isRange)
            t5 == t4 \o Pair("options", options)
<1>5. LimitTokens(s) = t5
    BY <1>1 DEF LimitTokens
<1>. HIDE DEF a, b, c, bound, options
<1>6. /\ 2 + a + b + c \in Nat /\ 2 + a + b + c = a + (2 + b + c) /\ 2 + b + c \in Nat
      /\ 2 + b + c = b + (2 + c) /\ 2 + c \in Nat /\ 2 + c = c + 2 /\ 2 = 1 + 1 /\ 1 = 1 + 0 /\ 0 + 0 = 0
    BY <1>3
<1>7. Asking(t0, a + (2 + b + c), 0)
    BY <1>6, MapAsks
<1>. HIDE DEF t0
<1>8. Asking(t1, b + (2 + c), 0)
    <2>1. Asking(t1, 2 + b + c, 0 + 0)
        BY <1>3, <1>6, <1>7, PairsAdded
    <2>. QED
        BY <1>6, <2>1
<1>. HIDE DEF t1
<1>9. Asking(t2, c + 2, 0)
    <2>1. Asking(t2, 2 + c, 0 + 0)
        BY <1>3, <1>6, <1>8, PairsAdded
    <2>. QED
        BY <1>6, <2>1
<1>. HIDE DEF t2
<1>10. Asking(t3, 1 + 1, 0)
    <2>1. Asking(t3, 2, 0 + 0)
        BY <1>3, <1>6, <1>9, PairsAdded
    <2>. QED
        BY <1>6, <2>1
<1>. HIDE DEF t3
<1>11. Asking(t4, 1 + 0, 0)
    <2>1. Asking(t4, 1, 0 + 0)
        BY <1>4, <1>10, PairsAdded
    <2>. QED
        BY <1>6, <2>1
<1>. HIDE DEF t4
<1>12. Asking(t5, 0, 0)
    <2>1. Asking(t5, 0, 0 + 0)
        BY <1>4, <1>11, PairsAdded
    <2>. QED
        BY <1>6, <2>1
<1>. HIDE DEF t5
<1>. QED
    BY <1>5, <1>12, NoMoreAsked

\* A setting is one value, with its address.
LEMMA SettingWhole ==
    ASSUME NEW s, s.options \in Seq(Int)
    PROVE  Whole(SettingTokens(s), 1)
<1>. DEFINE a == Count(s.unit # "")
            b == Count(s.readonly)
            unit == When(s.unit # "", Field("unit", s.unit))
            readonly == When(s.readonly, Field("readonly", TRUE))
            t0 == <<Map(4 + a + b)>>
            t1 == t0 \o Field("address", AddressOf(s.key))
            t2 == t1 \o Field("id", s.key)
            t3 == t2 \o unit
            t4 == t3 \o Field("value", s.value)
            t5 == t4 \o readonly
            t6 == t5 \o Pair("limits", LimitTokens(s))
<1>1. SettingTokens(s) = <<Map(2)>> \o Field("type", s.type) \o Pair("value", t6)
    BY DEF SettingTokens
<1>2. Pairs(unit, a, 0) /\ a \in Nat /\ Pairs(readonly, b, 0) /\ b \in Nat
    <2>1. Pairs(Field("unit", s.unit), 1, 0) /\ Pairs(Field("readonly", TRUE), 1, 0)
        BY FieldIs
    <2>. QED
        BY <2>1, WhenIs
<1>3. /\ Pairs(Field("address", AddressOf(s.key)), 1, 1) /\ Pairs(Field("id", s.key), 1, 0)
      /\ Pairs(Field("value", s.value), 1, 0) /\ Pairs(Field("type", s.type), 1, 0)
    BY FieldIs
<1>4. Pairs(Pair("limits", LimitTokens(s)), 1, 0)
    BY LimitsWhole, PairIs
<1>. HIDE DEF a, b, unit, readonly
<1>5. /\ 4 + a + b \in Nat /\ 4 + a + b = 1 + (3 + a + b) /\ 3 + a + b \in Nat
      /\ 3 + a + b = 1 + (2 + a + b) /\ 2 + a + b \in Nat /\ 2 + a + b = a + (2 + b) /\ 2 + b \in Nat
      /\ 2 + b = 1 + (1 + b) /\ 1 + b \in Nat /\ 1 + b = b + 1 /\ 1 = 1 + 0 /\ 1 + 0 = 1 /\ 0 + 1 = 1
    BY <1>2
<1>6. Asking(t0, 1 + (3 + a + b), 0)
    BY <1>5, MapAsks
<1>. HIDE DEF t0
<1>7. Asking(t1, 1 + (2 + a + b), 1)
    <2>1. Asking(t1, 3 + a + b, 0 + 1)
        BY <1>3, <1>5, <1>6, PairsAdded
    <2>. QED
        BY <1>5, <2>1
<1>. HIDE DEF t1
<1>8. Asking(t2, a + (2 + b), 1)
    <2>1. Asking(t2, 2 + a + b, 1 + 0)
        BY <1>3, <1>5, <1>7, PairsAdded
    <2>. QED
        BY <1>5, <2>1
<1>. HIDE DEF t2
<1>9. Asking(t3, 1 + (1 + b), 1)
    <2>1. Asking(t3, 2 + b, 1 + 0)
        BY <1>2, <1>5, <1>8, PairsAdded
    <2>. QED
        BY <1>5, <2>1
<1>. HIDE DEF t3
<1>10. Asking(t4, b + 1, 1)
    <2>1. Asking(t4, 1 + b, 1 + 0)
        BY <1>3, <1>5, <1>9, PairsAdded
    <2>. QED
        BY <1>5, <2>1
<1>. HIDE DEF t4
<1>11. Asking(t5, 1 + 0, 1)
    <2>1. Asking(t5, 1, 1 + 0)
        BY <1>2, <1>5, <1>10, PairsAdded
    <2>. QED
        BY <1>5, <2>1
<1>. HIDE DEF t5
<1>12. Whole(t6, 1)
    <2>1. Asking(t6, 0, 1 + 0)
        BY <1>4, <1>11, PairsAdded
    <2>. QED
        BY <1>5, <2>1, NoMoreAsked
<1>. HIDE DEF t6
<1>13. Pairs(Pair("value", t6), 1, 1)
    BY <1>12, PairIs
<1>14. Whole(<<Map(2)>> \o Field("type", s.type) \o Pair("value", t6), 0 + 1)
    BY <1>3, <1>13, MapOfTwo
<1>. QED
    BY <1>1, <1>5, <1>14

\* What the passes visit: any snapshots whose options are a sequence.
Snapshots(visited) == IsSeq(visited) /\ \A i \in 1..Len(visited) : visited[i].options \in Seq(Int)

Members(visited, module, group) == {i \in 1..Len(visited) : InGroup(visited[i], module, group)}
InModule(visited, module) == {i \in 1..Len(visited) : visited[i].module = module}

\* A group has every setting of it.
LEMMA GroupWhole ==
    ASSUME NEW visited, Snapshots(visited), NEW module, NEW group
    PROVE  Whole(GroupTokens(visited, module, group), Cardinality(Members(visited, module, group)))
<1>. DEFINE N == Len(visited)
            T == Members(visited, module, group)
            f == [i \in 1..N |-> i]
            parts == [i \in 1..N |-> When(InGroup(visited[i], module, group), SettingTokens(visited[i]))]
            settings == <<Array(Cardinality(T))>> \o FlattenSeq(parts)
<1>1. N \in Nat /\ DOMAIN visited = 1..N
    BY DEF Snapshots, IsSeq
<1>2. GroupTokens(visited, module, group) = <<Map(2)>> \o Field("id", group) \o Pair("settings", settings)
    BY <1>1 DEF GroupTokens, SettingCount, Members, Emitted
<1>3. T \subseteq 1..N
    BY DEF Members
<1>4. parts = [i \in 1..N |-> parts[i]] /\ \A i \in 1..N : f[i] = i
    OBVIOUS
<1>5. Firsts(f, T) = T /\ \A i \in T : Alike(f, T, i) = {i}
    <2>. HIDE DEF T, f
    <2>1. \A i \in T : f[i] = i
        BY <1>3, <1>4
    <2>2. \A i, j \in T : j < i => j # i
        BY <1>1, <1>3
    <2>3. Firsts(f, T) = T
        BY <2>1, <2>2 DEF Firsts
    <2>4. \A i \in T : Alike(f, T, i) = {i}
        BY <2>1 DEF Alike
    <2>. QED
        BY <2>3, <2>4
<1>6. \A i \in 1..N : IF i \in Firsts(f, T) THEN Whole(parts[i], Cardinality(Alike(f, T, i)))
                      ELSE parts[i] = <<>>
    <2>. SUFFICES ASSUME NEW i \in 1..N
                  PROVE  IF i \in T THEN Whole(parts[i], Cardinality(Alike(f, T, i))) ELSE parts[i] = <<>>
        BY <1>5
    <2>1. CASE i \in T
        <3>1. parts[i] = SettingTokens(visited[i]) /\ visited[i].options \in Seq(Int)
            BY <2>1 DEF Members, When, Snapshots
        <3>2. Cardinality(Alike(f, T, i)) = 1
            BY <1>5, <2>1, FS_Singleton
        <3>. HIDE DEF T, parts
        <3>. QED
            BY <2>1, <3>1, <3>2, SettingWhole
    <2>2. CASE i \notin T
        BY <2>2 DEF Members, When
    <2>. QED
        BY <2>1, <2>2
<1>. HIDE DEF T, f, parts
<1>7. IsSeq(parts) /\ Len(parts) = N
    BY <1>1, <1>4, SeqOfParts
<1>8. Carries(FlattenSeq(parts), Cardinality(T), 0, Cardinality(T))
    BY <1>1, <1>3, <1>5, <1>6, <1>7, OnceForEachName
<1>9. Cardinality(T) \in Nat
    <2>1. IsFiniteSet(1..N)
        BY <1>1, FS_Interval
    <2>. QED
        BY <1>3, <2>1, FS_Subset, FS_CardinalityType
<1>10. Whole(settings, Cardinality(T))
    BY <1>8, <1>9, ArrayIs
<1>. HIDE DEF settings
<1>11. Pairs(Field("id", group), 1, 0) /\ Pairs(Pair("settings", settings), 1, Cardinality(T))
    BY <1>10, FieldIs, PairIs
<1>12. Whole(<<Map(2)>> \o Field("id", group) \o Pair("settings", settings), 0 + Cardinality(T))
    BY <1>11, MapOfTwo
<1>. QED
    BY <1>2, <1>9, <1>12 DEF T

\* A module has every group of it once, so every setting of it.
LEMMA ModuleWhole ==
    ASSUME NEW visited, Snapshots(visited), NEW module
    PROVE  Whole(ModuleTokens(visited, module), Cardinality(InModule(visited, module)))
<1>. DEFINE N == Len(visited)
            T == InModule(visited, module)
            f == [i \in 1..N |-> visited[i].group]
            new(i) == /\ visited[i].module = module
                      /\ \A j \in 1..(i - 1) : ~InGroup(visited[j], module, visited[i].group)
            parts == [i \in 1..N |-> When(new(i), GroupTokens(visited, module, visited[i].group))]
            count == GroupCount(visited, module)
            groups == <<Array(count)>> \o FlattenSeq(parts)
<1>1. N \in Nat /\ DOMAIN visited = 1..N
    BY DEF Snapshots, IsSeq
<1>2. ModuleTokens(visited, module) = <<Map(2)>> \o Field("id", module) \o Pair("groups", groups)
    BY <1>1 DEF ModuleTokens, Emitted
<1>3. T \subseteq 1..N
    BY DEF InModule
<1>4. parts = [i \in 1..N |-> parts[i]] /\ \A i \in 1..N : f[i] = visited[i].group
    OBVIOUS
<1>5. \A i \in 1..N : new(i) <=> i \in Firsts(f, T)
    <2>. SUFFICES ASSUME NEW i \in 1..N
                  PROVE  new(i) <=> i \in Firsts(f, T)
        OBVIOUS
    <2>1. i \in T <=> visited[i].module = module
        BY DEF InModule
    <2>2. \A j : j \in 1..(i - 1) <=> j \in 1..N /\ j < i
        BY <1>1
    <2>3. \A j \in 1..N : InGroup(visited[j], module, visited[i].group) <=> j \in T /\ f[j] = f[i]
        BY DEF InGroup, InModule
    <2>4. (\A j \in 1..(i - 1) : ~InGroup(visited[j], module, visited[i].group))
              <=> (\A j \in T : j < i => f[j] # f[i])
        <3>. HIDE DEF T, f
        <3>. QED
            BY <1>3, <2>2, <2>3
    <2>. HIDE DEF T, f
    <2>. QED
        BY <2>1, <2>4 DEF Firsts
<1>6. \A i \in T : Alike(f, T, i) = Members(visited, module, visited[i].group)
    BY DEF Alike, Members, InGroup, InModule
<1>7. \A i \in 1..N : IF i \in Firsts(f, T) THEN Whole(parts[i], Cardinality(Alike(f, T, i)))
                      ELSE parts[i] = <<>>
    <2>. SUFFICES ASSUME NEW i \in 1..N
                  PROVE  IF i \in Firsts(f, T) THEN Whole(parts[i], Cardinality(Alike(f, T, i)))
                         ELSE parts[i] = <<>>
        OBVIOUS
    <2>0. parts[i] = When(new(i), GroupTokens(visited, module, visited[i].group))
        OBVIOUS
    <2>. HIDE DEF parts, f, T, new
    <2>1. CASE i \in Firsts(f, T)
        <3>1. parts[i] = GroupTokens(visited, module, visited[i].group)
            BY <1>5, <2>0, <2>1 DEF When
        <3>2. i \in T
            BY <2>1 DEF Firsts
        <3>. QED
            BY <1>6, <2>1, <3>1, <3>2, GroupWhole
    <2>2. CASE i \notin Firsts(f, T)
        BY <1>5, <2>0, <2>2 DEF When
    <2>. QED
        BY <2>1, <2>2
<1>8. count = Cardinality(Firsts(f, T))
    <2>1. {f[i] : i \in T} = {s.group : s \in {t \in ToSet(visited) : t.module = module}}
        BY <1>1 DEF InModule, ToSet
    <2>2. Cardinality(Firsts(f, T)) = Cardinality({f[i] : i \in T})
        <3>. HIDE DEF T, f
        <3>. QED
            BY <1>1, <1>3, FirstsCounted
    <2>. QED
        BY <2>1, <2>2 DEF GroupCount
<1>9. IsFiniteSet(1..N) /\ Firsts(f, T) \subseteq T
    BY <1>1, FS_Interval DEF Firsts
<1>. HIDE DEF T, f, parts, count, new
<1>10. IsSeq(parts) /\ Len(parts) = N
    BY <1>1, <1>4, SeqOfParts
<1>11. Carries(FlattenSeq(parts), count, 0, Cardinality(T))
    BY <1>1, <1>3, <1>7, <1>8, <1>10, OnceForEachName
<1>12. Cardinality(T) \in Nat /\ count \in Nat
    <2>1. IsFiniteSet(T) /\ IsFiniteSet(Firsts(f, T))
        BY <1>3, <1>9, FS_Subset
    <2>. QED
        BY <1>8, <2>1, FS_CardinalityType
<1>13. Whole(groups, Cardinality(T))
    BY <1>11, <1>12, ArrayIs
<1>. HIDE DEF groups
<1>14. Pairs(Field("id", module), 1, 0) /\ Pairs(Pair("groups", groups), 1, Cardinality(T))
    BY <1>13, FieldIs, PairIs
<1>15. Whole(<<Map(2)>> \o Field("id", module) \o Pair("groups", groups), 0 + Cardinality(T))
    BY <1>14, MapOfTwo
<1>. QED
    BY <1>2, <1>12, <1>15 DEF T

\* The device has every module once, so every setting.
LEMMA PayloadWhole ==
    ASSUME NEW visited, Snapshots(visited)
    PROVE  Whole(PayloadTokens(visited), Len(visited))
<1>. DEFINE N == Len(visited)
            T == 1..N
            f == [i \in 1..N |-> visited[i].module]
            new(i) == \A j \in 1..(i - 1) : visited[j].module # visited[i].module
            parts == [i \in 1..N |-> When(new(i), ModuleTokens(visited, visited[i].module))]
            count == ModuleCount(visited)
            modules == <<Array(count)>> \o FlattenSeq(parts)
            info == <<Map(2)>> \o Field("model", Identity) \o Field("firmwareVersion", Identity)
<1>1. N \in Nat /\ DOMAIN visited = 1..N
    BY DEF Snapshots, IsSeq
<1>2. PayloadTokens(visited) = <<Map(2)>> \o Pair("deviceInfo", info) \o Pair("modules", modules)
    BY <1>1 DEF PayloadTokens, Emitted
<1>3. parts = [i \in 1..N |-> parts[i]] /\ \A i \in 1..N : f[i] = visited[i].module
    OBVIOUS
<1>4. \A i \in 1..N : new(i) <=> i \in Firsts(f, T)
    <2>. SUFFICES ASSUME NEW i \in 1..N
                  PROVE  new(i) <=> i \in Firsts(f, T)
        OBVIOUS
    <2>1. \A j : j \in 1..(i - 1) <=> j \in 1..N /\ j < i
        BY <1>1
    <2>. HIDE DEF f
    <2>. QED
        BY <1>3, <2>1 DEF Firsts
<1>5. \A i \in 1..N : Alike(f, T, i) = InModule(visited, visited[i].module)
    BY DEF Alike, InModule
<1>6. \A i \in 1..N : IF i \in Firsts(f, T) THEN Whole(parts[i], Cardinality(Alike(f, T, i)))
                      ELSE parts[i] = <<>>
    <2>. SUFFICES ASSUME NEW i \in 1..N
                  PROVE  IF i \in Firsts(f, T) THEN Whole(parts[i], Cardinality(Alike(f, T, i)))
                         ELSE parts[i] = <<>>
        OBVIOUS
    <2>0. parts[i] = When(new(i), ModuleTokens(visited, visited[i].module))
        OBVIOUS
    <2>. HIDE DEF parts, f, T, new
    <2>1. CASE i \in Firsts(f, T)
        <3>1. parts[i] = ModuleTokens(visited, visited[i].module)
            BY <1>4, <2>0, <2>1 DEF When
        <3>. QED
            BY <1>5, <2>1, <3>1, ModuleWhole
    <2>2. CASE i \notin Firsts(f, T)
        BY <1>4, <2>0, <2>2 DEF When
    <2>. QED
        BY <2>1, <2>2
<1>7. count = Cardinality(Firsts(f, T))
    <2>1. {f[i] : i \in T} = {s.module : s \in ToSet(visited)}
        BY <1>1 DEF ToSet
    <2>2. Cardinality(Firsts(f, T)) = Cardinality({f[i] : i \in T})
        <3>1. T \subseteq 1..N
            OBVIOUS
        <3>. HIDE DEF T, f
        <3>. QED
            BY <1>1, <3>1, FirstsCounted
    <2>. QED
        BY <2>1, <2>2 DEF ModuleCount
<1>8. IsFiniteSet(T) /\ Firsts(f, T) \subseteq T /\ Cardinality(T) = N /\ T \subseteq 1..N
    <2>1. Cardinality(1..N) = N
        <3>1. Cardinality(1..N) = IF 1 > N THEN 0 ELSE N - 1 + 1
            BY <1>1, FS_Interval
        <3>. HIDE DEF N
        <3>. QED
            BY <1>1, <3>1
    <2>. QED
        BY <1>1, <2>1, FS_Interval DEF Firsts
<1>. HIDE DEF T, f, parts, count, new
<1>9. IsSeq(parts) /\ Len(parts) = N
    BY <1>1, <1>3, SeqOfParts
<1>10. Carries(FlattenSeq(parts), count, 0, N)
    BY <1>1, <1>6, <1>7, <1>8, <1>9, OnceForEachName
<1>11. count \in Nat
    BY <1>7, <1>8, FS_Subset, FS_CardinalityType
<1>12. Whole(modules, N)
    BY <1>10, <1>11, ArrayIs
<1>13. Whole(info, 0 + 0)
    <2>1. Pairs(Field("model", Identity), 1, 0) /\ Pairs(Field("firmwareVersion", Identity), 1, 0)
        BY FieldIs
    <2>. QED
        BY <2>1, MapOfTwo
<1>. HIDE DEF modules, info
<1>14. Pairs(Pair("deviceInfo", info), 1, 0) /\ Pairs(Pair("modules", modules), 1, N)
    BY <1>12, <1>13, PairIs
<1>15. Whole(<<Map(2)>> \o Pair("deviceInfo", info) \o Pair("modules", modules), 0 + N)
    BY <1>14, MapOfTwo
<1>. QED
    BY <1>1, <1>2, <1>15

\* Every answer is a map of three.
LEMMA EnvelopeWhole ==
    ASSUME NEW opCode, NEW payload, NEW n \in Nat, Whole(payload, n)
    PROVE  Whole(Envelope(opCode, payload), n)
<1>1. /\ Pairs(Field("msgType", "response"), 1, 0) /\ Pairs(Field("opCode", opCode), 1, 0)
      /\ Pairs(Pair("payload", payload), 1, n)
    BY FieldIs, PairIs
<1>2. Whole(Envelope(opCode, payload), 0 + 0 + n)
    BY <1>1, MapOfThree DEF Envelope
<1>. QED
    BY <1>2

\* What can be read of the snapshots of the entries.
LEMMA VisitedAre ==
    ASSUME Typed
    PROVE  /\ Snapshots(Visited) /\ Len(Visited) = Len(entries)
           /\ \A i \in 1..Len(entries) : Visited[i].key = entries[i].def.key
<1>1. entries \in Seq(EntryType) /\ Len(entries) \in Nat /\ DOMAIN entries = 1..Len(entries)
    BY DEF Typed, EntriesTyped
<1>2. ASSUME NEW i \in 1..Len(entries)
      PROVE  Visited[i].key = entries[i].def.key /\ Visited[i].options \in Seq(Int)
    <2>. DEFINE d == entries[i].def
    <2>1. entries[i] \in EntryType
        BY <1>1
    <2>2. {"key", "options"} \subseteq DOMAIN d /\ d.options \in Seq(Int)
        BY <2>1, FieldsAssumption DEF EntryType, Definitions
    <2>3. Visited[i] = [field \in DOMAIN d \cup {"value"} |-> IF field = "value" THEN Live(i) ELSE d[field]]
        BY <1>1 DEF Visited
    <2>. QED
        BY <2>2, <2>3
<1>3. Visited = [i \in 1..Len(entries) |-> Visited[i]]
    BY <1>1 DEF Visited
<1>4. IsSeq(Visited) /\ Len(Visited) = Len(entries)
    BY <1>1, <1>3, SeqOfParts
<1>. QED
    BY <1>2, <1>4 DEF Snapshots

-----------------------------------------------------------------------------------
(* The address of every setting is among the tokens. *)

LEMMA PairHas ==
    ASSUME NEW name, NEW tokens, IsSeq(tokens), NEW token
    PROVE  IsSeq(Pair(name, tokens)) /\ (Has(tokens, token) => Has(Pair(name, tokens), token))
<1>1. <<Key(name)>> \in Seq({Key(name)})
    OBVIOUS
<1>2. IsSeq(<<Key(name)>>)
    BY <1>1 DEF IsSeq
<1>. QED
    BY <1>2, JoinedHas DEF Pair

LEMMA OneHas ==
    ASSUME NEW token
    PROVE  IsSeq(<<token>>) /\ Has(<<token>>, token)
<1>. DEFINE s == <<token>>
<1>1. s \in Seq({token}) /\ Len(s) = 1 /\ s[1] = token
    OBVIOUS
<1>. HIDE DEF s
<1>2. IsSeq(s) /\ Has(s, token)
    BY <1>1 DEF IsSeq, Has
<1>. QED
    BY <1>2 DEF s

LEMMA FieldHas ==
    ASSUME NEW name, NEW v
    PROVE  IsSeq(Field(name, v)) /\ Has(Field(name, v), Scalar(name, v))
BY OneHas, PairHas DEF Field

LEMMA WhenSeq ==
    ASSUME NEW c, NEW tokens, IsSeq(tokens)
    PROVE  IsSeq(When(c, tokens))
<1>1. <<>> \in Seq({})
    OBVIOUS
<1>2. CASE c
    BY <1>2 DEF When
<1>3. CASE ~c
    BY <1>1, <1>3 DEF When, IsSeq
<1>. QED
    BY <1>2, <1>3

LEMMA SettingHas ==
    ASSUME NEW s, s.options \in Seq(Int)
    PROVE  Has(SettingTokens(s), Scalar("address", AddressOf(s.key)))
<1>. DEFINE address == Scalar("address", AddressOf(s.key))
            t0 == <<Map(4 + Count(s.unit # "") + Count(s.readonly))>>
            t1 == t0 \o Field("address", AddressOf(s.key))
            t2 == t1 \o Field("id", s.key)
            t3 == t2 \o When(s.unit # "", Field("unit", s.unit))
            t4 == t3 \o Field("value", s.value)
            t5 == t4 \o When(s.readonly, Field("readonly", TRUE))
            t6 == t5 \o Pair("limits", LimitTokens(s))
            head == <<Map(2)>> \o Field("type", s.type)
<1>1. SettingTokens(s) = head \o Pair("value", t6)
    BY DEF SettingTokens
<1>2. /\ IsSeq(t0) /\ IsSeq(<<Map(2)>>)
      /\ IsSeq(Field("address", AddressOf(s.key))) /\ Has(Field("address", AddressOf(s.key)), address)
      /\ IsSeq(Field("id", s.key)) /\ IsSeq(Field("value", s.value)) /\ IsSeq(Field("type", s.type))
      /\ IsSeq(When(s.unit # "", Field("unit", s.unit))) /\ IsSeq(When(s.readonly, Field("readonly", TRUE)))
    BY OneHas, FieldHas, WhenSeq
<1>3. IsSeq(LimitTokens(s))
    BY LimitsWhole DEF Whole, Carries, Run
<1>4. IsSeq(Pair("limits", LimitTokens(s)))
    BY <1>3, PairHas
<1>. HIDE DEF address, t0
<1>5. IsSeq(t1) /\ Has(t1, address)
    BY <1>2, JoinedHas
<1>. HIDE DEF t1
<1>6. IsSeq(t2) /\ Has(t2, address)
    BY <1>2, <1>5, JoinedHas
<1>. HIDE DEF t2
<1>7. IsSeq(t3) /\ Has(t3, address)
    BY <1>2, <1>6, JoinedHas
<1>. HIDE DEF t3
<1>8. IsSeq(t4) /\ Has(t4, address)
    BY <1>2, <1>7, JoinedHas
<1>. HIDE DEF t4
<1>9. IsSeq(t5) /\ Has(t5, address)
    BY <1>2, <1>8, JoinedHas
<1>. HIDE DEF t5
<1>10. IsSeq(t6) /\ Has(t6, address)
    BY <1>4, <1>9, JoinedHas
<1>. HIDE DEF t6
<1>11. IsSeq(Pair("value", t6)) /\ Has(Pair("value", t6), address)
    BY <1>10, PairHas
<1>12. IsSeq(head)
    BY <1>2, JoinedHas
<1>. HIDE DEF head
<1>13. Has(head \o Pair("value", t6), address)
    BY <1>11, <1>12, JoinedHas
<1>. QED
    BY <1>1, <1>13 DEF address

\* What a map of two has below its second name.
LEMMA MapOfTwoHas ==
    ASSUME NEW a, IsSeq(a), NEW name, NEW tokens, IsSeq(tokens), NEW token, Has(tokens, token)
    PROVE  Has(<<Map(2)>> \o a \o Pair(name, tokens), token)
<1>1. IsSeq(<<Map(2)>>)
    BY OneHas
<1>2. IsSeq(<<Map(2)>> \o a)
    BY <1>1, JoinedHas
<1>3. IsSeq(Pair(name, tokens)) /\ Has(Pair(name, tokens), token)
    BY PairHas
<1>. QED
    BY <1>2, <1>3, JoinedHas

\* What an array has that one of the written values has.
LEMMA ArrayHas ==
    ASSUME NEW n, NEW N \in Nat, NEW parts, parts = [i \in 1..N |-> parts[i]], NEW k \in 1..N,
           \A i \in 1..N : IsSeq(parts[i]), NEW token, Has(parts[k], token)
    PROVE  IsSeq(<<Array(n)>> \o FlattenSeq(parts)) /\ Has(<<Array(n)>> \o FlattenSeq(parts), token)
<1>1. IsSeq(parts) /\ Len(parts) = N
    BY SeqOfParts
<1>2. IsSeq(FlattenSeq(parts)) /\ Has(FlattenSeq(parts), token)
    BY <1>1, FlattenHas
<1>3. IsSeq(<<Array(n)>>)
    BY OneHas
<1>. QED
    BY <1>2, <1>3, JoinedHas

LEMMA GroupHas ==
    ASSUME NEW visited, Snapshots(visited), NEW k \in 1..Len(visited)
    PROVE  Has(GroupTokens(visited, visited[k].module, visited[k].group), Scalar("address", AddressOf(visited[k].key)))
<1>. DEFINE N == Len(visited)
            module == visited[k].module
            group == visited[k].group
            token == Scalar("address", AddressOf(visited[k].key))
            parts == [i \in 1..N |-> When(InGroup(visited[i], module, group), SettingTokens(visited[i]))]
            settings == <<Array(SettingCount(visited, module, group))>> \o FlattenSeq(parts)
<1>1. N \in Nat /\ DOMAIN visited = 1..N
    BY DEF Snapshots, IsSeq
<1>2. GroupTokens(visited, module, group) = <<Map(2)>> \o Field("id", group) \o Pair("settings", settings)
    BY <1>1 DEF GroupTokens, Emitted
<1>3. parts = [i \in 1..N |-> parts[i]]
    OBVIOUS
<1>4. \A i \in 1..N : IsSeq(parts[i])
    <2>. SUFFICES ASSUME NEW i \in 1..N
                  PROVE  IsSeq(parts[i])
        OBVIOUS
    <2>1. IsSeq(SettingTokens(visited[i]))
        BY SettingWhole DEF Snapshots, Whole, Carries, Run
    <2>2. parts[i] = When(InGroup(visited[i], module, group), SettingTokens(visited[i]))
        OBVIOUS
    <2>. QED
        BY <2>1, <2>2, WhenSeq
<1>5. Has(parts[k], token)
    <2>1. parts[k] = SettingTokens(visited[k])
        BY DEF InGroup, When
    <2>. QED
        BY <2>1, SettingHas DEF Snapshots
<1>. HIDE DEF parts, token
<1>6. IsSeq(settings) /\ Has(settings, token)
    BY <1>1, <1>3, <1>4, <1>5, ArrayHas
<1>. HIDE DEF settings
<1>7. IsSeq(Field("id", group))
    BY FieldHas
<1>. QED
    BY <1>2, <1>6, <1>7, MapOfTwoHas DEF token

LEMMA ModuleHas ==
    ASSUME NEW visited, Snapshots(visited), NEW k \in 1..Len(visited)
    PROVE  Has(ModuleTokens(visited, visited[k].module), Scalar("address", AddressOf(visited[k].key)))
<1>. DEFINE N == Len(visited)
            module == visited[k].module
            token == Scalar("address", AddressOf(visited[k].key))
            new(i) == /\ visited[i].module = module
                      /\ \A j \in 1..(i - 1) : ~InGroup(visited[j], module, visited[i].group)
            parts == [i \in 1..N |-> When(new(i), GroupTokens(visited, module, visited[i].group))]
            groups == <<Array(GroupCount(visited, module))>> \o FlattenSeq(parts)
            same == {j \in 1..N : InGroup(visited[j], module, visited[k].group)}
<1>1. N \in Nat /\ DOMAIN visited = 1..N
    BY DEF Snapshots, IsSeq
<1>2. ModuleTokens(visited, module) = <<Map(2)>> \o Field("id", module) \o Pair("groups", groups)
    BY <1>1 DEF ModuleTokens, Emitted
<1>3. parts = [i \in 1..N |-> parts[i]]
    OBVIOUS
<1>4. \A i \in 1..N : IsSeq(parts[i])
    <2>. SUFFICES ASSUME NEW i \in 1..N
                  PROVE  IsSeq(parts[i])
        OBVIOUS
    <2>1. IsSeq(GroupTokens(visited, module, visited[i].group))
        BY GroupWhole DEF Whole, Carries, Run
    <2>2. parts[i] = When(new(i), GroupTokens(visited, module, visited[i].group))
        OBVIOUS
    <2>. QED
        BY <2>1, <2>2, WhenSeq
<1>5. PICK first \in same : \A j \in same : first <= j
    <2>1. k \in same /\ same \subseteq Nat
        BY <1>1 DEF InGroup
    <2>. HIDE DEF same
    <2>. QED
        BY <2>1, LeastNumber
<1>6. first \in 1..N /\ visited[first].module = module /\ visited[first].group = visited[k].group
    BY DEF InGroup
<1>7. new(first)
    <2>1. \A j \in 1..(first - 1) : j \in 1..N /\ ~(first <= j)
        BY <1>1, <1>6
    <2>2. \A j \in 1..(first - 1) : j \notin same
        <3>. HIDE DEF same
        <3>. QED
            BY <1>5, <2>1
    <2>. QED
        BY <1>6, <2>1, <2>2
<1>8. Has(parts[first], token)
    <2>1. parts[first] = GroupTokens(visited, module, visited[k].group)
        BY <1>6, <1>7 DEF When
    <2>. QED
        BY <2>1, GroupHas
<1>. HIDE DEF parts, token
<1>9. IsSeq(groups) /\ Has(groups, token)
    BY <1>1, <1>3, <1>4, <1>6, <1>8, ArrayHas
<1>. HIDE DEF groups
<1>10. IsSeq(Field("id", module))
    BY FieldHas
<1>. QED
    BY <1>2, <1>9, <1>10, MapOfTwoHas DEF token

LEMMA PayloadHas ==
    ASSUME NEW visited, Snapshots(visited), NEW k \in 1..Len(visited)
    PROVE  Has(PayloadTokens(visited), Scalar("address", AddressOf(visited[k].key)))
<1>. DEFINE N == Len(visited)
            token == Scalar("address", AddressOf(visited[k].key))
            new(i) == \A j \in 1..(i - 1) : visited[j].module # visited[i].module
            parts == [i \in 1..N |-> When(new(i), ModuleTokens(visited, visited[i].module))]
            modules == <<Array(ModuleCount(visited))>> \o FlattenSeq(parts)
            info == <<Map(2)>> \o Field("model", Identity) \o Field("firmwareVersion", Identity)
            same == {j \in 1..N : visited[j].module = visited[k].module}
<1>1. N \in Nat /\ DOMAIN visited = 1..N
    BY DEF Snapshots, IsSeq
<1>2. PayloadTokens(visited) = <<Map(2)>> \o Pair("deviceInfo", info) \o Pair("modules", modules)
    BY <1>1 DEF PayloadTokens, Emitted
<1>3. parts = [i \in 1..N |-> parts[i]]
    OBVIOUS
<1>4. \A i \in 1..N : IsSeq(parts[i])
    <2>. SUFFICES ASSUME NEW i \in 1..N
                  PROVE  IsSeq(parts[i])
        OBVIOUS
    <2>1. IsSeq(ModuleTokens(visited, visited[i].module))
        BY ModuleWhole DEF Whole, Carries, Run
    <2>2. parts[i] = When(new(i), ModuleTokens(visited, visited[i].module))
        OBVIOUS
    <2>. QED
        BY <2>1, <2>2, WhenSeq
<1>5. PICK first \in same : \A j \in same : first <= j
    <2>1. k \in same /\ same \subseteq Nat
        BY <1>1
    <2>. HIDE DEF same
    <2>. QED
        BY <2>1, LeastNumber
<1>6. first \in 1..N /\ visited[first].module = visited[k].module
    OBVIOUS
<1>7. new(first)
    <2>1. \A j \in 1..(first - 1) : j \in 1..N /\ ~(first <= j)
        BY <1>1, <1>6
    <2>2. \A j \in 1..(first - 1) : j \notin same
        <3>. HIDE DEF same
        <3>. QED
            BY <1>5, <2>1
    <2>. QED
        BY <1>6, <2>1, <2>2
<1>8. Has(parts[first], token)
    <2>1. parts[first] = ModuleTokens(visited, visited[k].module)
        BY <1>6, <1>7 DEF When
    <2>. QED
        BY <2>1, ModuleHas
<1>. HIDE DEF parts, token
<1>9. IsSeq(modules) /\ Has(modules, token)
    BY <1>1, <1>3, <1>4, <1>6, <1>8, ArrayHas
<1>. HIDE DEF modules
<1>10. IsSeq(Pair("deviceInfo", info))
    <2>1. IsSeq(<<Map(2)>>) /\ IsSeq(Field("model", Identity)) /\ IsSeq(Field("firmwareVersion", Identity))
        BY OneHas, FieldHas
    <2>2. IsSeq(<<Map(2)>> \o Field("model", Identity))
        BY <2>1, JoinedHas
    <2>3. IsSeq(info)
        BY <2>1, <2>2, JoinedHas
    <2>. HIDE DEF info
    <2>. QED
        BY <2>3, PairHas
<1>. HIDE DEF info
<1>. QED
    BY <1>2, <1>9, <1>10, MapOfTwoHas DEF token

-----------------------------------------------------------------------------------
(* The answers to requests, and the theorem. *)

\* One element for each value of the request, however many there are.
LEMMA WriteSettingsWhole ==
    ASSUME NEW results, IsSeq(results)
    PROVE  Whole(WriteSettingsTokens(results), Len(results))
<1>. DEFINE N == Len(results)
            head(r) == <<Map(IF r.result = "Ok" THEN 2 ELSE 3)>> \o Field("address", r.address)
                       \o Field("success", r.result = "Ok")
            one(r) == head(r) \o When(r.result # "Ok", Field("errorMessage", ErrorId(r.result)))
            parts == [i \in 1..N |-> one(results[i])]
            values == <<Array(N)>> \o FlattenSeq(parts)
<1>1. N \in Nat /\ DOMAIN results = 1..N
    BY DEF IsSeq
<1>2. WriteSettingsTokens(results) = Envelope("write.settings", <<Map(1)>> \o Pair("values", values))
    BY <1>1 DEF WriteSettingsTokens
<1>3. ASSUME NEW r
      PROVE  Whole(one(r), 1)
    <2>. DEFINE more == Count(r.result # "Ok")
                error == When(r.result # "Ok", Field("errorMessage", ErrorId(r.result)))
    <2>1. Pairs(error, more, 0) /\ more \in Nat
        BY FieldIs, WhenIs
    <2>2. Pairs(Field("address", r.address), 1, 1) /\ Pairs(Field("success", r.result = "Ok"), 1, 0)
        BY FieldIs
    <2>3. (IF r.result = "Ok" THEN 2 ELSE 3) = 1 + (1 + more)
        BY DEF Count
    <2>. HIDE DEF more, error
    <2>4. 1 + more \in Nat /\ 1 + (1 + more) \in Nat /\ 1 + more = 1 + more /\ more = more + 0
        BY <2>1
    <2>5. Asking(<<Map(1 + (1 + more))>>, 1 + (1 + more), 0)
        BY <2>4, MapAsks
    <2>6. Asking(<<Map(1 + (1 + more))>> \o Field("address", r.address), 1 + more, 0 + 1)
        BY <2>2, <2>4, <2>5, PairsAdded
    <2>7. Asking(<<Map(1 + (1 + more))>> \o Field("address", r.address) \o Field("success", r.result = "Ok"),
                 more, (0 + 1) + 0)
        BY <2>1, <2>2, <2>6, PairsAdded
    <2>8. Asking(head(r), more + 0, 1)
        BY <2>3, <2>4, <2>7
    <2>. HIDE DEF head
    <2>9. Asking(head(r) \o error, 0, 1 + 0)
        BY <2>1, <2>8, PairsAdded
    <2>. QED
        BY <2>9, NoMoreAsked DEF error
<1>4. parts = [i \in 1..N |-> parts[i]] /\ \A i \in 1..N : Whole(parts[i], 1)
    <2>1. \A i \in 1..N : parts[i] = one(results[i])
        OBVIOUS
    <2>2. parts = [i \in 1..N |-> parts[i]]
        OBVIOUS
    <2>. HIDE DEF parts, one
    <2>. QED
        BY <1>3, <2>1, <2>2
<1>. HIDE DEF parts
<1>5. Whole(values, N)
    <2>1. Whole(values, IF 1 = 0 THEN 0 ELSE N)
        BY <1>1, <1>4, ArrayFilled
    <2>. QED
        BY <2>1
<1>. HIDE DEF values
<1>6. Whole(<<Map(1)>> \o Pair("values", values), N)
    BY <1>5, PairIs, MapOfOne
<1>. QED
    BY <1>1, <1>2, <1>6, EnvelopeWhole

LEMMA SuccessWhole ==
    ASSUME NEW opCode, NEW res
    PROVE  Whole(SuccessTokens(opCode, res), 0)
<1>. DEFINE more == Count(res # "Ok")
            error == When(res # "Ok", Field("errorMessage", ErrorId(res)))
            head == <<Map(IF res = "Ok" THEN 1 ELSE 2)>> \o Field("success", res = "Ok")
<1>1. Pairs(error, more, 0) /\ more \in Nat
    BY FieldIs, WhenIs
<1>2. Pairs(Field("success", res = "Ok"), 1, 0)
    BY FieldIs
<1>3. (IF res = "Ok" THEN 1 ELSE 2) = 1 + more
    BY DEF Count
<1>4. SuccessTokens(opCode, res) = Envelope(opCode, head \o error)
    BY DEF SuccessTokens
<1>. HIDE DEF more, error
<1>5. 1 + more \in Nat /\ more = more + 0
    BY <1>1
<1>6. Asking(<<Map(1 + more)>>, 1 + more, 0)
    BY <1>5, MapAsks
<1>7. Asking(<<Map(1 + more)>> \o Field("success", res = "Ok"), more, 0 + 0)
    BY <1>1, <1>2, <1>6, PairsAdded
<1>8. Asking(head, more + 0, 0)
    BY <1>3, <1>5, <1>7
<1>. HIDE DEF head
<1>9. Asking(head \o error, 0, 0 + 0)
    BY <1>1, <1>8, PairsAdded
<1>10. Whole(head \o error, 0)
    BY <1>9, NoMoreAsked
<1>. QED
    BY <1>4, <1>10, EnvelopeWhole

LEMMA WholeIsOneValue ==
    ASSUME NEW tokens, NEW n, Whole(tokens, n)
    PROVE  OneValue(tokens)
BY RunIsOneValue DEF Whole, Carries

\* write() of the response serializers: what the counting passes over the registry
\* announce is what the writing passes fill, and every setting is written exactly once,
\* for every registry that add(), set() and apply() can build; so are the answers to
\* any request.
THEOREM ResponsesAlwaysComplete == Spec => []ResponsesComplete
<1>1. IInv => ResponsesComplete
    <2>. SUFFICES ASSUME IInv
                  PROVE  ResponsesComplete
        OBVIOUS
    <2>. DEFINE device == DeviceTokens
                addresses == {i \in DOMAIN device : device[i].kind = "scalar" /\ device[i].name = "address"}
    <2>1. /\ Snapshots(Visited) /\ Len(Visited) = Len(entries) /\ Len(entries) \in Nat
          /\ \A i \in 1..Len(entries) : Visited[i].key = entries[i].def.key
          /\ DOMAIN entries = 1..Len(entries)
        <3>1. Typed /\ entries \in Seq(EntryType)
            BY DEF IInv, Typed, EntriesTyped
        <3>. QED
            BY <3>1, VisitedAre
    <2>2. Whole(device, Len(entries))
        <3>1. Whole(PayloadTokens(Visited), Len(entries))
            BY <2>1, PayloadWhole
        <3>. QED
            BY <2>1, <3>1, EnvelopeWhole DEF DeviceTokens
    <2>3. IsSeq(device) /\ DOMAIN device = 1..Len(device)
        BY <2>2 DEF Whole, Carries, Run, IsSeq
    <2>4. ASSUME NEW k \in Registered
          PROVE  Scalar("address", AddressOf(k)) \in ToSet(device)
        <3>1. PICK i \in 1..Len(entries) : entries[i].def.key = k
            BY <2>1 DEF Registered
        <3>2. Has(PayloadTokens(Visited), Scalar("address", AddressOf(k)))
            BY <2>1, <3>1, PayloadHas
        <3>3. IsSeq(PayloadTokens(Visited))
            BY <2>1, PayloadWhole DEF Whole, Carries, Run
        <3>4. IsSeq(<<Map(3)>>) /\ IsSeq(Field("msgType", "response")) /\ IsSeq(Field("opCode", "read.device"))
            BY OneHas, FieldHas
        <3>5. IsSeq(<<Map(3)>> \o Field("msgType", "response"))
            BY <3>4, JoinedHas
        <3>6. IsSeq(<<Map(3)>> \o Field("msgType", "response") \o Field("opCode", "read.device"))
            BY <3>4, <3>5, JoinedHas
        <3>7. /\ IsSeq(Pair("payload", PayloadTokens(Visited)))
              /\ Has(Pair("payload", PayloadTokens(Visited)), Scalar("address", AddressOf(k)))
            BY <3>2, <3>3, PairHas
        <3>8. Has(device, Scalar("address", AddressOf(k)))
            BY <3>6, <3>7, JoinedHas DEF DeviceTokens, Envelope
        <3>. HIDE DEF device
        <3>. QED
            BY <2>3, <3>8 DEF Has, ToSet
    <2>5. Cardinality(addresses) = Len(entries)
        <3>. HIDE DEF device
        <3>1. addresses = AddressesIn(device)
            BY <2>3 DEF AddressesIn, IsAddress
        <3>. QED
            BY <2>2, <3>1 DEF Whole, Carries
    <2>6. \A r, q : OneValue(WriteSettingsTokens(<<[address |-> 0, result |-> r], [address |-> 0, result |-> q]>>))
        <3>. SUFFICES ASSUME NEW r, NEW q
                      PROVE  OneValue(WriteSettingsTokens(<<[address |-> 0, result |-> r], [address |-> 0, result |-> q]>>))
            OBVIOUS
        <3>. DEFINE a == [address |-> 0, result |-> r]
                    b == [address |-> 0, result |-> q]
        <3>. HIDE DEF a, b
        <3>1. <<a, b>> \in Seq({a, b})
            OBVIOUS
        <3>2. IsSeq(<<a, b>>)
            BY <3>1 DEF IsSeq
        <3>3. OneValue(WriteSettingsTokens(<<a, b>>))
            BY <3>2, WriteSettingsWhole, WholeIsOneValue
        <3>. QED
            BY <3>3 DEF a, b
    <2>7. \A r : OneValue(SuccessTokens("write.settings", r))
        BY SuccessWhole, WholeIsOneValue
    <2>8. OneValue(device)
        BY <2>2, WholeIsOneValue
    <2>. HIDE DEF device
    <2>9. device = DeviceTokens
        BY DEF device
    <2>. QED
        BY <2>4, <2>5, <2>6, <2>7, <2>8, <2>9 DEF ResponsesComplete
<1>. QED
    BY <1>1, RegistryInvariance, PTL
===================================================================================
