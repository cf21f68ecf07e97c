----------------------------- MODULE SettingsRegistry -----------------------------
(* The registry: settings are added at boot from the definitions of the firmware, *)
(* take their value from a store when it holds a valid one, and are then set and   *)
(* applied. The two stores are maps (what SettingsKV promises of them) that        *)
(* outlive restarts and firmware updates; a store call may fail and may have       *)
(* changed the map even then. The owned form of add() is taken in its steps: it    *)
(* allocates, asks addImpl(), and then hands its object over or deletes it.        *)
EXTENDS SettingLimits, FiniteSets

CONSTANTS
    Keys,
    Unpackable,   \* keys that packKey() refuses (instance above 63)
    Offered,      \* values that callers pass to set() and to the owned add()
    Firmwares,    \* each the set of definitions one firmware may add
    Capacity,     \* of the registry, and of the index of each store
    Stored,       \* the policies that persist: Frequent, LongTerm
    Objects,      \* what new returns: places for OwnedSetting objects
    None

\* Each definition of a firmware comes with a variable for its value.
Definitions == UNION Firmwares

\* What addImpl() answers, and an owned add() that runs: result is what it was answered.
Results == {"Refused", "StorageError", "Ok"}
Running == [def : Definitions, object : Objects, result : Results \cup {"none"}]

ASSUME NoneAssumption == None \notin Offered \cup Objects \cup Definitions \cup Running
ASSUME ObjectsAssumption == Objects \cap Definitions = {}
ASSUME CapacityAssumption == Capacity \in Nat
ASSUME StoredAssumption == "Memory" \notin Stored
ASSUME DefinitionsAssumption ==
    \A f \in Firmwares : \A d \in f : /\ d.key \in Keys
                                     /\ d.policy \in Stored \cup {"Memory"}
                                     /\ [type |-> d.type, num |-> d.default] \in Offered

VARIABLES
    firmware,     \* the definitions of the running firmware
    entries,      \* _entries[0.._size-1]: [def, context, start, object]
    configured,   \* the policies whose store pointer is set
    kv,           \* what each store holds
    ready,        \* the stores whose open() succeeded at this boot
    memory,       \* what the variables and the objects hold; None: not written,
                  \* or not allocated
    adding,       \* the owned add() that runs (Running), or None
    applied,      \* the last value given to each apply callback since boot
    unsure        \* keys whose last store call left it open what the store holds

vars == <<firmware, entries, configured, kv, ready, memory, adding, applied, unsure>>

Default(d) == [type |-> d.type, num |-> d.default]
Values == Offered \cup {None}

Registered == {entries[i].def.key : i \in DOMAIN entries}
Find(k) == CHOOSE i \in DOMAIN entries : entries[i].def.key = k
Live(i) == memory[entries[i].context]

Init ==
    /\ firmware \in Firmwares
    /\ entries = <<>>
    /\ configured = {}
    /\ kv = [p \in Stored |-> [k \in Keys |-> None]]
    /\ ready \in SUBSET Stored
    /\ memory = [place \in Definitions \cup Objects |-> None]
    /\ adding = None
    /\ applied = [k \in Keys |-> None]
    /\ unsure = {}

Configure(p) ==
    /\ adding = None
    /\ configured' = configured \cup {p}
    /\ UNCHANGED <<firmware, entries, kv, ready, memory, adding, applied, unsure>>

\* Faulty variant of Refused: a full registry goes on adding.
RefusedUnlessFull(d) == ~ValidDefinition(d) \/ d.key \in Registered

\* The refusals of addImpl() that come before anything is written.
Refused(d) == ~ValidDefinition(d) \/ d.key \in Registered \/ Len(entries) = Capacity

\* Faulty variant of Loaded: what the store holds is not validated.
LoadedUnchecked(d, start) ==
    IF d.policy \in Stored /\ kv[d.policy][d.key] # None THEN kv[d.policy][d.key] ELSE start

\* What addImpl() leaves in a variable that holds start: the stored value when
\* the store has one that the definition accepts.
Loaded(d, start) ==
    IF d.policy \in Stored /\ kv[d.policy][d.key] # None /\ Validate(d, kv[d.policy][d.key]) = "Ok"
    THEN kv[d.policy][d.key]
    ELSE start

Entry(d, place, start) == [def |-> d, context |-> place, start |-> start, object |-> None]

\* Faulty variant of NoAnswer: the entry is made before the store is asked.
NoAnswerLate(d, place, start) ==
    /\ ~Refused(d) /\ d.policy \in Stored /\ (d.policy \in configured => d.policy \in ready)
    /\ memory' = [memory EXCEPT ![place] = start]
    /\ entries' = Append(entries, Entry(d, place, start))
    /\ UNCHANGED unsure

\* There is no store, or load() answers StorageError: the variable holds start by then.
NoAnswer(d, place, start) ==
    /\ ~Refused(d) /\ d.policy \in Stored /\ (d.policy \in configured => d.policy \in ready)
    /\ memory' = [memory EXCEPT ![place] = start]
    /\ UNCHANGED <<entries, unsure>>

\* Any other answer of load() registers the setting. NotOpen and CorruptData leave
\* the variable as it was.
Register(d, place, start) ==
    /\ ~Refused(d) /\ d.policy \in configured \cup {"Memory"}
    /\ \/ /\ d.policy \in ready \cup {"Memory"}
          /\ memory' = [memory EXCEPT ![place] = Loaded(d, start)]
          /\ unsure' = unsure \ {d.key}
       \/ /\ d.policy \in Stored
          /\ memory' = [memory EXCEPT ![place] = start]
          /\ unsure' = unsure \cup {d.key}
    /\ entries' = Append(entries, Entry(d, place, start))

\* Faulty variant of AddImpl: the default is written before the refusals.
AddImplWritten(d, place, start, result) ==
    /\ \/ /\ result = "Refused" /\ Refused(d)
          /\ memory' = [memory EXCEPT ![place] = start] /\ UNCHANGED <<entries, unsure>>
       \/ result = "StorageError" /\ NoAnswer(d, place, start)
       \/ result = "Ok" /\ Register(d, place, start)
    /\ UNCHANGED <<firmware, configured, kv, ready, applied>>

\* addImpl() for the variable at a place; start is what it holds once the default,
\* if it is asked for, has been written.
AddImpl(d, place, start, result) ==
    /\ \/ result = "Refused" /\ Refused(d) /\ UNCHANGED <<entries, memory, unsure>>
       \/ result = "StorageError" /\ NoAnswer(d, place, start)
       \/ result = "Ok" /\ Register(d, place, start)
    /\ UNCHANGED <<firmware, configured, kv, ready, applied>>

\* The form whose value is a variable of the caller.
Add(d) ==
    /\ adding = None
    /\ \E result \in Results : AddImpl(d, d, Default(d), result)
    /\ UNCHANGED adding

\* The owned form. When there is no memory for the object, nothing happens.
AddOwned(d, v) ==
    /\ adding = None /\ v.type = d.type
    /\ \E object \in Objects :
        /\ memory[object] = None
        /\ memory' = [memory EXCEPT ![object] = v]
        /\ adding' = [def |-> d, object |-> object, result |-> "none"]
    /\ UNCHANGED <<firmware, entries, configured, kv, ready, applied, unsure>>

AddOwnedImpl ==
    /\ adding # None /\ adding.result = "none"
    /\ \E result \in Results :
        /\ AddImpl(adding.def, adding.object, memory[adding.object], result)
        /\ adding' = [adding EXCEPT !.result = result]

\* The entry made last becomes the owner of the object.
Adopt ==
    /\ adding # None /\ adding.result = "Ok"
    /\ entries' = [entries EXCEPT ![Len(entries)].object = adding.object]
    /\ adding' = None
    /\ UNCHANGED <<firmware, configured, kv, ready, memory, applied, unsure>>

\* delete, after a refusal or an error.
GiveBack ==
    /\ adding # None /\ adding.result \in {"Refused", "StorageError"}
    /\ memory' = [memory EXCEPT ![adding.object] = None]
    /\ adding' = None
    /\ UNCHANGED <<firmware, entries, configured, kv, ready, applied, unsure>>

\* set() as far as the store: the key, the readonly flag, the limits.
Checked(k, v) ==
    IF k \notin Registered THEN "NotFound"
    ELSE IF entries[Find(k)].def.readonly THEN "ReadOnly"
    ELSE Validate(entries[Find(k)].def, v)

SetRefused(k, v) ==
    /\ adding = None /\ Checked(k, v) # "Ok"
    /\ UNCHANGED vars

\* Write to RAM, then apply unless the policy says on restart.
Write(i, v) ==
    LET d == entries[i].def
    IN  /\ memory' = [memory EXCEPT ![entries[i].context] = v]
        /\ applied' = IF d.apply = "OnRestart" THEN applied ELSE [applied EXCEPT ![d.key] = v]

SetMemory(k, v) ==
    /\ adding = None /\ Checked(k, v) = "Ok"
    /\ entries[Find(k)].def.policy = "Memory"
    /\ Write(Find(k), v)
    /\ UNCHANGED <<firmware, entries, configured, kv, ready, adding, unsure>>

StoredKeys(p) == {k \in Keys : kv[p][k] # None}
\* Faulty variant of HasRoom: the last place of the index is never given.
HasRoomBelow(p, k) == k \in StoredKeys(p) \/ Cardinality(StoredKeys(p)) + 1 < Capacity
\* findIndex() and findFreeIndex() of the store.
HasRoom(p, k) == k \in StoredKeys(p) \/ Cardinality(StoredKeys(p)) < Capacity

SetStored(k, v) ==
    /\ adding = None /\ Checked(k, v) = "Ok"
    /\ LET p == entries[Find(k)].def.policy
       IN  /\ p \in ready
           /\ HasRoom(p, k) /\ k \notin Unpackable
           /\ kv' = [kv EXCEPT ![p][k] = v]
    /\ Write(Find(k), v)
    /\ unsure' = unsure \ {k}
    /\ UNCHANGED <<firmware, entries, configured, ready, adding>>

\* Faulty variant of SetFails: the hardware has the value already.
SetFailsApplied(k, v) ==
    /\ adding = None /\ Checked(k, v) = "Ok"
    /\ entries[Find(k)].def.policy \in Stored
    /\ applied' = [applied EXCEPT ![k] = v]
    /\ UNCHANGED <<firmware, entries, configured, kv, ready, memory, adding, unsure>>

\* The store does not answer Ok: closed, index full, a key that cannot be packed,
\* or a failure before or after the record is durable. RAM is left alone.
SetFails(k, v) ==
    /\ adding = None /\ Checked(k, v) = "Ok"
    /\ LET p == entries[Find(k)].def.policy
       IN  /\ p \in Stored
           /\ \/ UNCHANGED <<kv, unsure>>
              \/ /\ p \in ready /\ HasRoom(p, k) /\ k \notin Unpackable
                 /\ kv' = [kv EXCEPT ![p][k] = v]
                 /\ unsure' = unsure \cup {k}
    /\ UNCHANGED <<firmware, entries, configured, ready, memory, adding, applied>>

ApplyAtStartup ==
    /\ adding = None
    /\ applied' = [k \in Keys |-> IF k \in Registered THEN Live(Find(k)) ELSE applied[k]]
    /\ UNCHANGED <<firmware, entries, configured, kv, ready, memory, adding, unsure>>

\* What clearOwned() deletes.
Owned == {entries[i].object : i \in DOMAIN entries} \ {None}

\* The destructor deletes every owned object; another boot follows, perhaps of
\* another firmware with its variables, and each store opens or does not.
Restart ==
    /\ adding = None
    /\ firmware' \in Firmwares
    /\ entries' = <<>>
    /\ configured' = {}
    /\ ready' \in SUBSET Stored
    /\ memory' = [place \in DOMAIN memory |-> IF place \in Definitions \cup Owned THEN None ELSE memory[place]]
    /\ applied' = [k \in Keys |-> None]
    /\ unsure' = {}
    /\ UNCHANGED <<kv, adding>>

Next ==
    \/ \E p \in Stored : Configure(p)
    \/ \E d \in firmware : Add(d)
    \/ \E d \in firmware, v \in Offered : AddOwned(d, v)
    \/ AddOwnedImpl
    \/ Adopt
    \/ GiveBack
    \/ \E k \in Keys, v \in Offered : SetRefused(k, v) \/ SetMemory(k, v) \/ SetStored(k, v) \/ SetFails(k, v)
    \/ ApplyAtStartup
    \/ Restart

Spec == Init /\ [][Next]_vars
-----------------------------------------------------------------------------------
TypeOK ==
    /\ firmware \in Firmwares
    /\ \A i \in DOMAIN entries : entries[i].def \in firmware /\ entries[i].context \in Definitions \cup Objects
    /\ Len(entries) <= Capacity
    /\ configured \subseteq Stored /\ ready \subseteq Stored
    /\ kv \in [Stored -> [Keys -> Values]]
    /\ memory \in [Definitions \cup Objects -> Values]
    /\ adding = None \/ (adding \in Running /\ adding.def \in firmware)
    /\ applied \in [Keys -> Values]
    /\ unsure \subseteq Registered

\* What RAM holds satisfies the definition it belongs to, across stored values that
\* a newer firmware no longer accepts, failed loads and failed sets; a variable of
\* the caller does so once add() wrote it, also when add() then failed. The one
\* exception is the initial value of the owned add(), which nobody validates
\* (addImpl(), lines 337-353 and 404-427).
LiveValid ==
    /\ \A d \in firmware : memory[d] = None \/ Validate(d, memory[d]) = "Ok"
    /\ \A i \in DOMAIN entries :
        \/ Validate(entries[i].def, Live(i)) = "Ok"
        \/ entries[i].context \in Objects /\ Live(i) = entries[i].start

\* RAM and the stores agree: each persistent setting holds what the same add()
\* would load after a restart now, whatever was set, refused, added a second time or
\* updated before. Excepted are the settings whose add() got no answer from the
\* store and those whose last set() failed after its record was durable.
RestartAgrees ==
    \A i \in DOMAIN entries :
        entries[i].def.policy \in Stored /\ entries[i].def.key \notin unsure =>
            Live(i) = Loaded(entries[i].def, entries[i].start)

\* The hardware follows RAM: the last value an apply callback was given is the one
\* RAM holds, save for settings applied on restart only, for every order of adds,
\* sets that fail in the store, and applyAtStartup().
AppliedCurrent ==
    \A i \in DOMAIN entries :
        \/ applied[entries[i].def.key] \in {None, Live(i)}
        \/ entries[i].def.apply = "OnRestart"

\* Who has to delete an object: the entry at i, or the add() that runs (0).
Holders(object) ==
    {i \in DOMAIN entries : entries[i].object = object}
    \cup {i \in {0} : adding # None /\ adding.object = object}

\* Wherever add() refuses or fails, every OwnedSetting has one owner, which deletes
\* it once, nothing is deleted by who does not own it, and no entry points at an
\* object that is gone.
OwnedByEntries ==
    \A object \in Objects :
        /\ memory[object] # None <=> Holders(object) # {}
        /\ \A i, j \in Holders(object) : i = j
        /\ memory[object] = None => \A i \in DOMAIN entries : entries[i].context # object

\* A registry that accepted a setting leaves room for it in its store: set() runs
\* out of index entries only when the store still holds keys that the running
\* firmware has not registered there (the index of a store has Capacity entries
\* too, and a record is never dropped).
OnlyStaleKeysBlock ==
    \A i \in DOMAIN entries : LET d == entries[i].def IN
        d.policy \in Stored /\ ~HasRoom(d.policy, d.key) =>
            \E k \in StoredKeys(d.policy) :
                ~\E j \in DOMAIN entries : entries[j].def.key = k /\ entries[j].def.policy = d.policy
===================================================================================
