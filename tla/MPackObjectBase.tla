----------------------------- MODULE MPackObjectBase -----------------------------
(* Reading MessagePack into a tree of objects, releasing the tree and writing it,  *)
(* by the member tables. A place in the tree is a path of member names and slot     *)
(* numbers; every place holds at most one heap block: a string, an object, or the   *)
(* elements of an array. A tree is                                                  *)
(*   memory   what the non-null pointers point at, a function on their paths        *)
(*   owned    the members whose bit is set in _decodedMembers of their object       *)
(*   heap     the bag of the places whose blocks are allocated                      *)
(*   present  the optional members that have a value and the bools that are true    *)
EXTENDS Integers, MessageClasses, MessagePackTokens, SequencesExt, Bags, TLC

CONSTANTS MaxDepth, MaxSlots

ASSUME LimitAssumption == MaxDepth \in Nat /\ MaxSlots \in Nat

Slot(i) == ToString(i)
Slots == {Slot(i) : i \in 1..MaxSlots}

EmptyTree == [memory |-> <<>>, owned |-> {}, heap |-> EmptyBag, present |-> {}]

InlineNames == UNION {{Classes[c][i].name : i \in {j \in DOMAIN Classes[c] : Classes[c][j].kind = <<"Object">>}} : c \in DOMAIN Classes}

CppTypes == {"Number", "Bool", "String", "Object", "ObjectPtr", "Array"}

\* A chain of CppTypes: the types of nested arrays, then that of an element. The
\* switches of the arrays have no case for an inline object.
IsKind(kind) ==
    /\ kind \in Seq(CppTypes) /\ kind # <<>>
    /\ \A i \in DOMAIN kind : kind[i] = "Array" <=> i < Len(kind)
    /\ Last(kind) = "Object" => Len(kind) = 1

\* A table is well formed. That a name is inline in each class that has it, or in none,
\* is a convention of these modules: by it a path says how its blocks are reached.
ASSUME TableAssumption ==
    \A class \in DOMAIN Classes :
        /\ Classes[class] \in Seq(ToSet(Classes[class]))
        /\ \A i \in DOMAIN Classes[class] :
              LET m == Classes[class][i]
              IN  /\ m.name \in STRING \ Slots /\ IsKind(m.kind)
                  /\ \A j \in DOMAIN Classes[class] : Classes[class][j].name = m.name => j = i
                  /\ m.kind = <<"Object">> <=> m.name \in InlineNames
                  /\ m.kind = <<"Object">> => m.class \in DOMAIN Classes \ {"Message"}

\* ToString tells numbers apart.
ASSUME SlotAssumption ==
    \A i, j \in 1..MaxSlots : Slot(i) \in STRING /\ (Slot(i) = Slot(j) => i = j)

\* A destructor reaches a block from the place above it: every slot of an array and
\* every inline object is destroyed, a member only when its bit is set.
Reaches(tree, place) == place \in tree.owned \/ Last(place) \in Slots \cup InlineNames

\* The blocks that deleting what place holds frees, the destructors' included.
Freed(tree, place) ==
    {q \in DOMAIN tree.memory :
        IsPrefix(place, q) /\ \A n \in (Len(place) + 1)..Len(q) : Reaches(tree, SubSeq(q, 1, n))}

\* Faulty variant of Without: the bits of what is gone stay set.
WithoutClearing(tree, blocks, gone) ==
    [tree EXCEPT !.heap = @ (-) SetToBag(blocks), !.memory = [q \in DOMAIN @ \ gone |-> @[q]]]

Without(tree, blocks, gone) ==
    [tree EXCEPT !.heap = @ (-) SetToBag(blocks),
                 !.memory = [q \in DOMAIN @ \ gone |-> @[q]],
                 !.owned = @ \ gone]

Under(tree, place) == {q \in DOMAIN tree.memory \cup tree.owned : IsPrefix(place, q)}

\* Faulty variant of Release: the bit goes and the block stays.
ReleaseBit(tree, place) == [tree EXCEPT !.owned = @ \ {place}]

\* releaseDecodedMember() with releaseArray(): nothing without the bit.
Release(tree, place) ==
    IF place \in tree.owned THEN Without(tree, Freed(tree, place), Under(tree, place)) ELSE tree

\* The start of read(): clearDecodedMembers(), then resetReadState() of each member,
\* which nulls the strings and pointers that were not decoded and leaves arrays.
Cleared(tree, place, class) ==
    LET at(m) == Append(place, m.name)
        members == {Classes[class][i] : i \in DOMAIN Classes[class]}
        own == {at(m) : m \in members} \cap tree.owned
        reset == {at(m) : m \in {k \in members : k.kind \in {<<"String">>, <<"ObjectPtr">>}}}
        blocks == UNION {Freed(tree, q) : q \in own}
        released == Without(tree, blocks, UNION {Under(tree, q) : q \in own})
    IN  [released EXCEPT !.memory = [q \in DOMAIN @ \ reset |-> @[q]],
                         !.present = @ \ {at(m) : m \in {k \in members : k.optional \/ k.omit = "FalseBool"}}]

\* A new block for a place; the pointer that was there is overwritten.
Allocate(tree, place, what) ==
    [tree EXCEPT !.heap = @ (+) SetToBag({place}),
                 !.memory = [q \in DOMAIN @ \cup {place} |-> IF q = place THEN what ELSE @[q]]]
SetNull(tree, place) == [tree EXCEPT !.memory = [q \in DOMAIN @ \ {place} |-> @[q]]]
Own(tree, place) == [tree EXCEPT !.owned = @ \cup {place}]
OwnIf(condition, tree, place) == IF condition THEN Own(tree, place) ELSE tree

Destroyed(tree) == [EmptyTree EXCEPT !.heap = tree.heap (-) SetToBag(Freed(tree, <<>>))]

-----------------------------------------------------------------------------------
\* The member or the slot that a frame reads next. A frame is an object
\* [place, class, depth, left] or an array, which has kind, name and slot too: its
\* elements are made by createObject(name) of the object that has the array.
MemberAt(frame, m) ==
    [place |-> Append(frame.place, m.name), member |-> TRUE, optional |-> m.optional, kind |-> m.kind,
     inline |-> m.class, owner |-> frame.class, above |-> frame.place, name |-> m.name, depth |-> frame.depth + 1]
SlotAt(frame) ==
    [place |-> Append(frame.place, Slot(frame.slot)), member |-> FALSE, optional |-> FALSE, kind |-> frame.kind,
     inline |-> "", owner |-> frame.class, above |-> frame.above, name |-> frame.name, depth |-> frame.depth + 1]

ObjectFrame(place, class, depth, n) == [object |-> TRUE, place |-> place, class |-> class, depth |-> depth, left |-> n]
ArrayFrame(at, n) ==
    [object |-> FALSE, place |-> at.place, class |-> at.owner, above |-> at.above, name |-> at.name,
     kind |-> Tail(at.kind), depth |-> at.depth, left |-> n, slot |-> 1]

\* What one value does to the tree: the tree, the frames it opens, and whether the
\* reader is still without error.
Done(tree) == [tree |-> tree, open |-> <<>>, ok |-> TRUE]
Failed(tree) == [tree |-> tree, open |-> <<>>, ok |-> FALSE]
Opens(tree, frame) == [tree |-> tree, open |-> <<frame>>, ok |-> TRUE]

\* read() of an object at a place: the depth, the header, then the clearing.
ReadObject(tree, place, class, depth, token) ==
    IF depth > MaxDepth \/ token.kind # "map" THEN Failed(tree)
    ELSE Opens(Cleared(tree, place, class), ObjectFrame(place, class, depth, token.count))

\* readNumeric() and readBool(): a number may be outside the range of the member.
ReadScalar(tree, at, token) ==
    IF at.optional /\ token.kind = "nil" THEN Done([tree EXCEPT !.present = @ \ {at.place}])
    ELSE IF token.kind = "number" /\ at.kind = <<"Number">> /\ token.fits
         THEN Done([tree EXCEPT !.present = IF at.optional THEN @ \cup {at.place} ELSE @])
    ELSE IF token.kind = "bool" /\ at.kind = <<"Bool">>
         THEN Done([tree EXCEPT !.present = IF token.value THEN @ \cup {at.place} ELSE @ \ {at.place}])
    ELSE Failed(tree)

\* The bit of a string is set after it was read, so that a failure leaves neither.
ReadString(tree, at, token) ==
    CASE token.kind = "nil" -> Done(OwnIf(at.member, SetNull(tree, at.place), at.place))
      [] token.kind = "str" -> Done(OwnIf(at.member, Allocate(tree, at.place, token.text), at.place))
      [] OTHER -> Failed(tree)

\* An object is made before its header is read: a truncated input leaves it, empty.
ReadPointer(tree, at, class, token) ==
    LET made == OwnIf(at.member, Allocate(tree, at.place, class), at.place)
    IN  CASE token.kind = "nil" -> Done(IF at.member THEN SetNull(tree, at.place) ELSE tree)
          [] token.kind # "nil" /\ class = Null -> Failed(tree)
          [] OTHER -> ReadObject(made, at.place, class, at.depth, token)

\* The bit of an array is set before it is read. The elements are allocated by the
\* announced count before the first of them is there.
ReadArray(tree, at, token) ==
    LET held == OwnIf(at.member, tree, at.place)
    IN  CASE at.depth > MaxDepth -> Failed(held)
          [] at.depth <= MaxDepth /\ token.kind = "nil" -> Done(SetNull(held, at.place))
          [] at.depth <= MaxDepth /\ token.kind = "array" ->
                Opens(IF token.count = 0 THEN SetNull(held, at.place) ELSE Allocate(held, at.place, token.count),
                      ArrayFrame(at, token.count))
          [] OTHER -> Failed(held)

\* readValue() of a known member, or an element of readArray(); class is what
\* createObject() would make.
ReadValue(tree, at, class, token) ==
    LET before == IF at.member THEN Release(tree, at.place) ELSE tree
    IN  CASE Head(at.kind) \in {"Number", "Bool"} -> ReadScalar(before, at, token)
          [] Head(at.kind) = "String" -> ReadString(before, at, token)
          [] Head(at.kind) = "Object" -> IF token.kind = "nil" THEN Done(before)
                                         ELSE ReadObject(before, at.place, at.inline, at.depth, token)
          [] Head(at.kind) = "ObjectPtr" -> ReadPointer(before, at, class, token)
          [] Head(at.kind) = "Array" -> ReadArray(before, at, token)

-----------------------------------------------------------------------------------
Nil == Scalar("nil", Null)
Holds(tree, place) == place \in DOMAIN tree.memory

ShouldWrite(tree, place, m) ==
    IF m.optional \/ m.omit = "FalseBool" THEN place \in tree.present
    ELSE IF m.omit = "NullOrEmptyCString" THEN Holds(tree, place) /\ tree.memory[place] # ""
    ELSE IF m.omit = "NullCString" THEN Holds(tree, place)
    ELSE TRUE

\* Faulty variant of MemberCount: every member of the table.
TableSize(tree, place, class) == Len(Classes[class])

\* The counting pass of write().
MemberCount(tree, place, class) ==
    Cardinality({i \in DOMAIN Classes[class] :
        ShouldWrite(tree, Append(place, Classes[class][i].name), Classes[class][i])})

\* What is written comes in order, but a value of a message is written as a token
\* that stands for it until everything around it is there.
Pending(place, kind, class) == [kind |-> "pending", place |-> place, as |-> kind, class |-> class]

\* The writer has an error, and nothing will be sent.
TooBig == [kind |-> "error"]

\* write() of the object at a place: a second pass over the table, with the question
\* asked again. The depth that write() is passed is the length of the place.
WriteObject(tree, place, class) ==
    IF Len(place) > MaxDepth THEN <<TooBig>>
    ELSE <<Map(MemberCount(tree, place, class))>> \o FlattenSeq([i \in DOMAIN Classes[class] |->
        LET m == Classes[class][i]
            at == Append(place, m.name)
        IN  When(ShouldWrite(tree, at, m), Pair(m.name, <<Pending(at, m.kind, m.class)>>))])

\* An array that was never read, or was read as nil or without elements, is a nil.
WriteArray(tree, place, kind, class) ==
    IF Len(place) > MaxDepth THEN <<TooBig>>
    ELSE IF ~Holds(tree, place) THEN <<Nil>>
    ELSE <<Array(tree.memory[place])>>
         \o [i \in 1..tree.memory[place] |-> Pending(Append(place, Slot(i)), kind, class)]

\* writeMember(), and an element in writeArray().
WriteValue(tree, place, kind, class) ==
    CASE Head(kind) \in {"Number", "Bool"} -> <<Scalar(Last(place), place \in tree.present)>>
      [] Head(kind) = "String" -> IF Holds(tree, place) THEN <<Scalar(Last(place), tree.memory[place])>> ELSE <<Nil>>
      [] Head(kind) = "Object" -> WriteObject(tree, place, class)
      [] Head(kind) = "ObjectPtr" -> IF Holds(tree, place) THEN WriteObject(tree, place, tree.memory[place]) ELSE <<Nil>>
      [] Head(kind) = "Array" -> WriteArray(tree, place, Tail(kind), class)

\* What is pending is written, and with it the values below become pending.
Deeper(tree, tokens) ==
    FlattenSeq([i \in DOMAIN tokens |->
        IF tokens[i].kind = "pending"
        THEN WriteValue(tree, tokens[i].place, tokens[i].as, tokens[i].class)
        ELSE <<tokens[i]>>])

\* The tokens of a whole message, depth by depth: beyond MaxDepth + 1 nothing is pending.
WriteMessage(tree) ==
    LET upTo[depth \in 0..MaxDepth + 1] ==
            IF depth = 0 THEN WriteObject(tree, <<>>, "Message") ELSE Deeper(tree, upTo[depth - 1])
    IN  upTo[MaxDepth + 1]

-----------------------------------------------------------------------------------
IsRecord(r, fields) == DOMAIN r = fields /\ r = [f \in fields |-> r[f]]

\* The blocks of the heap are those that pointers of the tree point at, one for each;
\* destructors reach every one of them, and the object of every set bit is there.
TreeSound(tree) ==
    /\ IsRecord(tree, {"memory", "owned", "heap", "present"})
    /\ tree.memory = [q \in DOMAIN tree.memory |-> tree.memory[q]]
    /\ DOMAIN tree.memory \cup tree.owned \subseteq Seq(STRING) \ {<<>>}
    /\ tree.heap = SetToBag(DOMAIN tree.memory)
    /\ \A q \in DOMAIN tree.memory : \A p \in Prefixes(q) \ {<<>>} : Reaches(tree, p)
    /\ \A q \in tree.owned : Len(q) = 1 \/ Last(Front(q)) \in InlineNames \/ Holds(tree, Front(q))

\* The class of the object at a place that is declared so.
ClassAt(tree, declared, place) ==
    IF Head(declared.kind) = "Object" THEN declared.class
    ELSE IF Head(declared.kind) = "ObjectPtr" /\ Holds(tree, place) THEN tree.memory[place] ELSE Null

\* What the tables declare for a place: the kind, and the class of an inline object.
\* Below an array it is the element, below an object the member of that name.
NoPlace == [kind |-> <<"None">>, class |-> Null]
MemberNamed(class, name) ==
    IF class \in DOMAIN Classes /\ \E i \in DOMAIN Classes[class] : Classes[class][i].name = name
    THEN LET m == Classes[class][CHOOSE i \in DOMAIN Classes[class] : Classes[class][i].name = name]
         IN  [kind |-> m.kind, class |-> m.class]
    ELSE NoPlace
Below(tree, declared, place, name) ==
    IF Head(declared.kind) = "Array" THEN [kind |-> Tail(declared.kind), class |-> declared.class]
    ELSE MemberNamed(ClassAt(tree, declared, place), name)
Declared(tree, place) ==
    LET upTo[n \in 0..Len(place)] ==
            IF n = 0 THEN [kind |-> <<"Object">>, class |-> "Message"]
            ELSE Below(tree, upTo[n - 1], SubSeq(place, 1, n - 1), place[n])
    IN  upTo[Len(place)]

\* What a pointer that is declared so may point at: a pointer to objects leads to an
\* object of some class, an array has as many elements as were announced; nothing else
\* has a block.
BlockTyped(declared, what) ==
    LET type == Head(declared.kind)
    IN  /\ type \in {"String", "ObjectPtr", "Array"}
        /\ type = "ObjectPtr" => what \in DOMAIN Classes
        /\ type = "Array" => what \in 0..MaxSlots

WellTyped(tree) == \A q \in DOMAIN tree.memory : BlockTyped(Declared(tree, q), tree.memory[q])

\* A frame reads what is declared for its place.
FrameTyped(frame, message) ==
    LET declared == Declared(message, frame.place)
    IN  IF frame.object
        THEN Head(declared.kind) \in {"Object", "ObjectPtr"} /\ ClassAt(message, declared, frame.place) = frame.class
        ELSE Head(declared.kind) = "Array" /\ Tail(declared.kind) = frame.kind
===================================================================================
