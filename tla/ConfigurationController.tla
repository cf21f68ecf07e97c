-------------------------- MODULE ConfigurationController --------------------------
(* The controller's loop(): a message is read into a Message on the stack, given to *)
(* the callback when the reader saw no error, and destroyed. The input is chosen    *)
(* one value at a time; it may end anywhere and repeat keys.                        *)
EXTENDS MPackObjectBase, MessagePayloadRegistry

CONSTANTS
    Payloads,    \* the entries the application may register
    Texts,       \* what the strings of a message may say, by member name
    MaxMembers,  \* entries of an incoming map
    MaxKeys,     \* keys of one incoming message
    TxTokens     \* what the transmit buffer holds

ASSUME PayloadAssumption ==
    \A e \in Payloads : e = Entry(e.msgType, e.opCode, e.class) /\ e.class \in DOMAIN Classes \ {"Message"}
ASSUME BoundAssumption == MaxMembers \in Nat /\ MaxKeys \in Nat

VARIABLES
    phase,       \* "off", "idle", "reading", "failed", "decoded", "received", "done"
    stack,       \* the open containers, innermost last
    tree,        \* the Message being read
    keys,        \* how many keys it had so far
    late,        \* members of the envelope that came after a payload was made
    repeated,    \* some key of one object came twice
    types,       \* the payload registry
    handler,     \* the callback is set
    sent         \* the last write(): its tokens, or what it answered

vars == <<phase, stack, tree, keys, late, repeated, handler, sent, types>>

Unsent == <<>>

Init ==
    /\ phase = "off"
    /\ stack = <<>> /\ tree = EmptyTree
    /\ keys = 0 /\ late = {} /\ repeated = FALSE
    /\ handler = FALSE /\ sent = Unsent
    /\ types = <<>>

\* init() creates the one instance; a second call changes nothing.
InitController ==
    /\ phase = "off" /\ phase' = "idle"
    /\ UNCHANGED <<stack, tree, keys, late, repeated, handler, sent, types>>

SetOnReceived(set) ==
    /\ phase \in {"idle", "received"} /\ handler' = set
    /\ UNCHANGED <<phase, stack, tree, keys, late, repeated, sent, types>>

RegisterPayload(e) ==
    /\ phase \in {"off", "idle"} /\ types' = Registered(types, e)
    /\ UNCHANGED <<phase, stack, tree, keys, late, repeated, handler, sent>>

RegisterDefaults ==
    /\ phase \in {"off", "idle"} /\ types' = WithDefaults(types)
    /\ UNCHANGED <<phase, stack, tree, keys, late, repeated, handler, sent>>

-----------------------------------------------------------------------------------
\* The input is over, is no MessagePack, or has a value of another kind there: to
\* the code that reads a place these are one error.
Wrong == [kind |-> "wrong"]
MapTokens == {Map(n) : n \in 0..MaxMembers}
TextsOf(name) == IF name \in DOMAIN Texts THEN Texts[name] ELSE {"s"}

\* The values that may come for a member or slot of a kind.
Tokens(name, kind) ==
    {[kind |-> "nil"], Wrong} \cup
    CASE kind = "Number" -> {[kind |-> "number", fits |-> b] : b \in BOOLEAN}
      [] kind = "Bool" -> {[kind |-> "bool", value |-> b] : b \in BOOLEAN}
      [] kind = "String" -> {[kind |-> "str", text |-> t] : t \in TextsOf(name)}
      [] kind = "Array" -> {Array(n) : n \in 0..MaxSlots}
      [] OTHER -> MapTokens

\* Message::getMsgType() and isOpCode().
TextAt(place) == IF Holds(tree, place) THEN tree.memory[place] ELSE Null
MsgType == IF TextAt(<<"msgType">>) \in {"request", "response", "event"} THEN TextAt(<<"msgType">>) ELSE "Unknown"

\* Faulty variant of ClassFor: the operation alone chooses the payload.
ClassForOpCode(at) ==
    LET same == {i \in DOMAIN types : types[i].opCode = TextAt(<<"opCode">>)}
    IN  IF at.owner # "Message" THEN Create(at.owner, at.name, TextAt(Append(at.above, "type")))
        ELSE IF same = {} THEN Null ELSE types[CHOOSE i \in same : \A j \in same : i <= j].class

\* createObject() of the object that owns a place; that of Message asks the registry.
ClassFor(at) ==
    IF at.owner = "Message"
    THEN IF TextAt(<<"opCode">>) = Null \/ MsgType = "Unknown" THEN Null
         ELSE PayloadClass(types, MsgType, TextAt(<<"opCode">>), Null)
    ELSE Create(at.owner, at.name, TextAt(Append(at.above, "type")))

\* readMessage() has a message; its first value has to be a map.
Receive ==
    /\ phase = "idle"
    /\ \E token \in MapTokens \cup {Wrong} :
          LET r == ReadObject(EmptyTree, <<>>, "Message", 0, token)
          IN  /\ phase' = IF r.ok THEN "reading" ELSE "failed"
              /\ stack' = r.open
    /\ UNCHANGED <<tree, keys, late, repeated, handler, sent, types>>

Top == Last(stack)

\* Faulty variant of Advanced: every element is read into the same slot.
Stuck == Append(Front(stack), [Top EXCEPT !.left = @ - 1])

\* The loops of read() and readArray() go on to the next key or the next slot.
Advanced ==
    Append(Front(stack), IF Top.object THEN [Top EXCEPT !.left = @ - 1] ELSE [Top EXCEPT !.left = @ - 1, !.slot = @ + 1])

\* Faulty variant of Takes: an error does not end the objects around it.
TakesOn(at, token) ==
    LET r == ReadValue(tree, at, ClassFor(at), token)
    IN  /\ tree' = r.tree
        /\ stack' = Advanced \o r.open
        /\ phase' = IF r.ok THEN "reading" ELSE "failed"

\* One value is read for a place; an error ends read() of every object around it.
Takes(at, token) ==
    LET r == ReadValue(tree, at, ClassFor(at), token)
    IN  /\ tree' = r.tree
        /\ stack' = IF r.ok THEN Advanced \o r.open ELSE <<>>
        /\ phase' = IF r.ok THEN "reading" ELSE "failed"

Members == {Classes[Top.class][i] : i \in DOMAIN Classes[Top.class]}

ReadMember(m, token) ==
    /\ Takes(MemberAt(Top, m), token)
    /\ keys' = keys + 1
    /\ late' = IF Top.class = "Message" /\ m.name # "payload" /\ Holds(tree, <<"payload">>) THEN late \cup {m.name} ELSE late
    /\ repeated' = (repeated \/ Append(Top.place, m.name) \in tree.owned)

\* A key that is no member: its value is discarded, whatever it holds.
ReadUnknown(broken) ==
    /\ phase' = IF broken THEN "failed" ELSE "reading"
    /\ stack' = IF broken THEN <<>> ELSE Advanced
    /\ keys' = keys + 1
    /\ UNCHANGED <<tree, late, repeated>>

\* The key itself may be missing, not a string, or too long.
BadKey ==
    /\ phase' = "failed" /\ stack' = <<>>
    /\ UNCHANGED <<tree, keys, late, repeated>>

ReadNext ==
    /\ phase = "reading" /\ Top.left > 0
    /\ \/ /\ Top.object /\ keys < MaxKeys
          /\ \/ \E m \in Members : \E token \in Tokens(m.name, Head(m.kind)) : ReadMember(m, token)
             \/ \E broken \in BOOLEAN : ReadUnknown(broken)
       \/ Top.object /\ BadKey
       \/ /\ ~Top.object
          /\ \E token \in Tokens(Top.name, Head(Top.kind)) : Takes(SlotAt(Top), token)
          /\ UNCHANGED <<keys, late, repeated>>
    /\ UNCHANGED <<handler, sent, types>>

\* mpack_done_map() and mpack_done_array().
Close ==
    /\ phase = "reading" /\ Top.left = 0
    /\ stack' = Front(stack)
    /\ phase' = IF Len(stack) = 1 THEN "decoded" ELSE "reading"
    /\ UNCHANGED <<tree, keys, late, repeated, handler, sent, types>>

\* mpack_reader_destroy() reported no error.
Deliver ==
    /\ phase = "decoded"
    /\ phase' = IF handler THEN "received" ELSE "done"
    /\ UNCHANGED <<stack, tree, keys, late, repeated, handler, sent, types>>

\* The callback writes a message, here the one it got, and returns. A buffer that
\* overflows is an error of the writer, as is a message too deep, and nothing is sent.
Write ==
    /\ phase = "received"
    /\ LET tokens == WriteMessage(tree)
       IN  sent' = IF TooBig \notin ToSet(tokens) /\ Len(tokens) <= TxTokens THEN tokens ELSE Unsent
    /\ phase' = "done"
    /\ UNCHANGED <<stack, tree, keys, late, repeated, handler, types>>

Return ==
    /\ phase = "received" /\ phase' = "done"
    /\ UNCHANGED <<stack, tree, keys, late, repeated, handler, sent, types>>

\* The Message goes out of scope.
Destroy ==
    /\ phase \in {"failed", "done"}
    /\ phase' = "idle"
    /\ tree' = Destroyed(tree)
    /\ keys' = 0 /\ late' = {} /\ repeated' = FALSE /\ sent' = Unsent
    /\ UNCHANGED <<stack, handler, types>>

Loop == Receive \/ ReadNext \/ Close \/ Deliver \/ Write \/ Return \/ Destroy

Next ==
    \/ InitController \/ RegisterDefaults
    \/ \E set \in BOOLEAN : SetOnReceived(set)
    \/ \E e \in Payloads : RegisterPayload(e)
    \/ Loop

Spec == Init /\ [][Next]_vars
-----------------------------------------------------------------------------------
TypeOK ==
    /\ phase \in {"off", "idle", "reading", "failed", "decoded", "received", "done"}
    /\ stack # <<>> <=> phase = "reading"
    /\ keys \in 0..MaxKeys /\ late \subseteq {"msgType", "opCode"}
    /\ tree.owned \subseteq Seq(STRING)
    /\ Len(types) <= MaxEntries

\* Whatever the input is and wherever it breaks off, the destructor of the message
\* would at this moment free every block on the heap, and each one exactly once.
NothingLost == tree.heap = SetToBag(Freed(tree, <<>>))

\* Every decoded block was reached through a pointer that still points at it, and
\* what a bit claims is not someone else's: no bit is set under a place that was
\* released or replaced.
BitsHaveObjects ==
    \A q \in tree.owned : Len(q) = 1 \/ Last(Front(q)) \in InlineNames \/ Holds(tree, Front(q))

\* The payload given to the callback is of the class that is registered for the
\* message's own type and operation, when no object of the message repeats a key.
PayloadMatches ==
    phase = "received" /\ ~repeated /\ Holds(tree, <<"payload">>) =>
        tree.memory[<<"payload">>] = PayloadClass(types, MsgType, TextAt(<<"opCode">>), Null)

\* A class, once it is registered for a type and an operation, stays, whoever
\* registers what later, and an answer of success means that it is the one used.
NeverRebound ==
    [][\A e \in Payloads \cup ToSet(DefaultTypes) :
          Accepted(types, e) /\ Bound(types, e.msgType, e.opCode) # {} =>
              PayloadClass(types', e.msgType, e.opCode, Null) = e.class]_vars

\* What write() sends is one MessagePack value: the counts of its maps and arrays
\* are those of the members that are written, the omitted and optional ones too.
SentWhole == sent # Unsent => OneValue(sent)

-----------------------------------------------------------------------------------
\* A place is in a slot of the frame's array that was read or is being read.
Behind(frame, place) == \E j \in 1..(frame.slot - 1) : place[Len(frame.place) + 1] = Slot(j)

\* A frame on the stack: its object is there and can be reached, and nothing is yet at
\* the slots of its array that were not read.
FrameSound(frame, message) ==
    /\ frame.place \in Seq(STRING) /\ frame.class \in DOMAIN Classes
    /\ frame.left \in Nat /\ frame.depth \in Nat
    /\ \A p \in Prefixes(frame.place) \ {<<>>} : Reaches(message, p)
    /\ \/ /\ frame.object /\ IsRecord(frame, {"object", "place", "class", "depth", "left"})
          /\ frame.place = <<>> \/ Last(frame.place) \in InlineNames \/ Holds(message, frame.place)
       \/ /\ ~frame.object
          /\ IsRecord(frame, {"object", "place", "class", "above", "name", "kind", "depth", "left", "slot"})
          /\ IsKind(frame.kind) /\ Head(frame.kind) # "Object"
          /\ frame.slot \in Nat \ {0} /\ frame.slot + frame.left <= MaxSlots + 1
          /\ \A q \in DOMAIN message.memory :
                IsPrefix(frame.place, q) /\ q # frame.place => Behind(frame, q)

\* The frames are nested, each in what the frame below it reads now.
StackSound(frames, message) ==
    /\ frames \in Seq(ToSet(frames))
    /\ \A k \in DOMAIN frames : FrameSound(frames[k], message) /\ Len(frames[k].place) = k - 1
    /\ frames # <<>> => frames[1].class = "Message" /\ frames[1].object
    /\ \A k, l \in DOMAIN frames : k < l =>
          /\ IsPrefix(frames[k].place, frames[l].place)
          /\ frames[l].class # "Message"
          /\ ~frames[k].object => Behind(frames[k], frames[l].place)

\* The entries of the registry name classes, and no two have one type and operation.
TableSound(table) ==
    /\ table \in Seq(Payloads \cup ToSet(DefaultTypes)) /\ Len(table) <= MaxEntries
    /\ \A i, j \in DOMAIN table :
          table[i].msgType = table[j].msgType /\ table[i].opCode = table[j].opCode => i = j

\* A payload was made for the type and the operation that the message still says.
PayloadSound ==
    /\ phase \in {"off", "idle"} => DOMAIN tree.memory = {}
    /\ ~repeated /\ Holds(tree, <<"payload">>) =>
          /\ Holds(tree, <<"msgType">>) /\ Holds(tree, <<"opCode">>)
          /\ tree.memory[<<"payload">>] = PayloadClass(types, MsgType, TextAt(<<"opCode">>), Null)

MessageSound == TypeOK /\ TreeSound(tree) /\ StackSound(stack, tree) /\ TableSound(types) /\ PayloadSound

\* The message and its open containers are of the types that the tables declare.
Typed == WellTyped(tree) /\ \A k \in DOMAIN stack : FrameTyped(stack[k], tree)

\* The inductive invariant of loop(): what the message, the open containers and the
\* registry have to say of each other between any two values of the input.
IInv == MessageSound /\ Typed

-----------------------------------------------------------------------------------
\* The README (lines 128-130): msgType and opCode must appear before payload, and
\* inputs that violate this ordering are rejected.
OrderRespected == phase = "received" => late = {}
===================================================================================
