------------------------------- MODULE SettingsKV -------------------------------
(* The promise of SettingsStore: a map from keys to values that survives power  *)
(* loss. A store call that answers Ok has changed the map; one that answers     *)
(* anything else, or that a power loss cuts off, has changed all of its entry   *)
(* or none of it. Nothing else ever changes the map, and load reads it.         *)
CONSTANTS Keys, Values, NoValue, NoCall, NoReply

VARIABLES
    kv,     \* the stored settings
    call,   \* the store call in progress, or NoCall
    reply   \* the answer the caller sees, or NoReply while a call runs

vars == <<kv, call, reply>>

\* enum SettingsStoreResult
Results == {"Ok", "Blank", "Recovered", "NotFound", "NotOpen", "NoSpace",
            "UnsupportedVersion", "CorruptData", "InvalidArgument", "StorageError"}

StoreReply(res) == [op |-> "store", res |-> res]
OpenReply(res) == [op |-> "open", res |-> res]
LoadReply(res, k, v) == [op |-> "load", res |-> res, key |-> k, val |-> v]

Updated == [kv EXCEPT ![call.key] = call.val]

Init ==
    /\ kv = [k \in Keys |-> NoValue]
    /\ call = NoCall
    /\ reply = NoReply

Begin(k, v) ==
    /\ call = NoCall
    /\ call' = [key |-> k, val |-> v]
    /\ reply' = NoReply
    /\ UNCHANGED kv

StoreOk ==
    /\ call # NoCall
    /\ call' = NoCall
    /\ reply' = StoreReply("Ok")
    /\ kv' = Updated

StoreFails ==
    /\ call # NoCall
    /\ call' = NoCall
    /\ reply' \in {StoreReply(res) : res \in Results \ {"Ok"}}
    /\ kv' \in {kv, Updated}

\* A store on a store that is not open.
Refuse ==
    /\ call = NoCall
    /\ reply' = StoreReply("NotOpen")
    /\ UNCHANGED <<call, kv>>

Load(k) ==
    /\ call = NoCall
    /\ \/ reply' = LoadReply("NotFound", k, NoValue) /\ kv[k] = NoValue
       \/ \E v \in Values : reply' = LoadReply("Ok", k, v) /\ kv[k] = v
    /\ UNCHANGED <<call, kv>>

LoadFails(k) ==
    /\ call = NoCall
    /\ reply' \in {LoadReply(res, k, NoValue) : res \in {"NotOpen", "StorageError"}}
    /\ UNCHANGED <<call, kv>>

\* Opening answers without touching the map.
Open ==
    /\ call = NoCall
    /\ reply' \in {NoReply} \cup {OpenReply(res) : res \in Results}
    /\ UNCHANGED <<call, kv>>

PowerLoss ==
    /\ call' = NoCall
    /\ reply' = NoReply
    /\ IF call = NoCall THEN kv' = kv ELSE kv' \in {kv, Updated}

Next ==
    \/ \E k \in Keys, v \in Values : Begin(k, v)
    \/ StoreOk
    \/ StoreFails
    \/ Refuse
    \/ \E k \in Keys : Load(k) \/ LoadFails(k)
    \/ Open
    \/ PowerLoss

Spec == Init /\ [][Next]_vars
=================================================================================
