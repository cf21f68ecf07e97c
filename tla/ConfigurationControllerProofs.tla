---------------------- MODULE ConfigurationControllerProofs ----------------------
(* What the operations of a message's tree keep (the order of the places, the heap  *)
(* as the set of the blocks that pointers point at, what reading one value does),   *)
(* and then the controller's loop, which keeps its inductive invariant: the message *)
(* being read and the registry of payload classes are sound after every value of    *)
(* every input.                                                                     *)
EXTENDS ConfigurationController, MessagePackTokensProofs

Paths == Seq(STRING)
Places == Paths \ {<<>>}

-----------------------------------------------------------------------------------
(* Places under the order of prefixes. *)

\* A path is a prefix of another when it agrees with it as far as it goes.
LEMMA PrefixAt ==
    ASSUME NEW p \in Paths, NEW q \in Paths
    PROVE  IsPrefix(p, q) <=> Len(p) <= Len(q) /\ \A i \in 1..Len(p) : p[i] = q[i]
BY DEF IsPrefix, Paths

LEMMA PathsEqual ==
    ASSUME NEW p \in Paths, NEW q \in Paths, Len(p) = Len(q), \A i \in 1..Len(p) : p[i] = q[i]
    PROVE  p = q
BY DEF Paths

LEMMA PrefixRefl ==
    ASSUME NEW p \in Paths
    PROVE  IsPrefix(p, p) /\ IsPrefix(<<>>, p)
<1>1. <<>> \in Paths /\ Len(<<>>) = 0 /\ Len(p) \in Nat
    BY DEF Paths
<1>2. IsPrefix(p, p)
    BY <1>1, PrefixAt
<1>3. IsPrefix(<<>>, p)
    <2>1. \A i \in 1..Len(<<>>) : <<>>[i] = p[i]
        BY <1>1
    <2>. QED
        BY <1>1, <2>1, PrefixAt
<1>. QED
    BY <1>2, <1>3

LEMMA PrefixTrans ==
    ASSUME NEW p \in Paths, NEW q \in Paths, NEW r \in Paths, IsPrefix(p, q), IsPrefix(q, r)
    PROVE  IsPrefix(p, r)
<1>1. \A i \in 1..Len(p) : i \in 1..Len(q) /\ p[i] = q[i]
    BY PrefixAt DEF Paths
<1>2. \A i \in 1..Len(q) : q[i] = r[i]
    BY PrefixAt
<1>. QED
    BY <1>1, <1>2, PrefixAt DEF Paths

\* Of two prefixes of one path the shorter is a prefix of the longer.
LEMMA PrefixesNested ==
    ASSUME NEW p \in Paths, NEW q \in Paths, NEW r \in Paths,
           IsPrefix(p, r), IsPrefix(q, r), Len(p) <= Len(q)
    PROVE  IsPrefix(p, q)
<1>1. \A i \in 1..Len(p) : i \in 1..Len(q) /\ p[i] = r[i]
    BY PrefixAt DEF Paths
<1>2. \A i \in 1..Len(q) : q[i] = r[i]
    BY PrefixAt
<1>. QED
    BY <1>1, <1>2, PrefixAt

LEMMA SameLengthPrefix ==
    ASSUME NEW p \in Paths, NEW q \in Paths, IsPrefix(p, q), Len(p) >= Len(q)
    PROVE  p = q
<1>1. Len(p) = Len(q) /\ \A i \in 1..Len(p) : p[i] = q[i]
    BY PrefixAt DEF Paths
<1>. QED
    BY <1>1, PathsEqual

\* One step down from a place.
LEMMA StepDown ==
    ASSUME NEW p \in Paths, NEW x \in STRING
    PROVE  /\ Append(p, x) \in Places /\ Len(Append(p, x)) = Len(p) + 1
           /\ Last(Append(p, x)) = x /\ Front(Append(p, x)) = p
           /\ IsPrefix(p, Append(p, x))
           /\ Append(p, x)[Len(p) + 1] = x
           /\ \A i \in 1..Len(p) : Append(p, x)[i] = p[i]
<1>1. Append(p, x) \in Paths /\ Len(Append(p, x)) = Len(p) + 1 /\ Append(p, x) # <<>>
    BY AppendProperties DEF Paths
<1>2. Append(p, x)[Len(p) + 1] = x /\ \A i \in 1..Len(p) : Append(p, x)[i] = p[i]
    <2>. DEFINE S == STRING
    <2>1. p \in Seq(S) /\ x \in S
        BY DEF Paths
    <2>. HIDE DEF S
    <2>2. Append(p, x)[Len(p) + 1] = x
        BY <2>1, AppendProperties
    <2>3. \A i \in 1..Len(p) : Append(p, x)[i] = p[i]
        BY <2>1, AppendProperties
    <2>. QED
        BY <2>2, <2>3
<1>3. Last(Append(p, x)) = x
    BY <1>1, <1>2 DEF Last
<1>4. Front(Append(p, x)) = p
    <2>1. Front(Append(p, x)) \in Paths /\ Len(Front(Append(p, x))) = Len(p)
        BY <1>1 DEF Front, Paths
    <2>2. \A i \in 1..Len(p) : Front(Append(p, x))[i] = p[i]
        BY <1>1, <1>2 DEF Front, Paths
    <2>. QED
        BY <2>1, <2>2, PathsEqual
<1>5. IsPrefix(p, Append(p, x))
    <2>1. Len(p) \in Nat /\ Len(p) <= Len(Append(p, x)) /\ \A i \in 1..Len(p) : p[i] = Append(p, x)[i]
        BY <1>1, <1>2 DEF Paths
    <2>. QED
        BY <1>1, <2>1, PrefixAt
<1>. QED
    BY <1>1, <1>2, <1>3, <1>4, <1>5 DEF Places

\* A prefix of the place one step down is that place or a prefix of the upper one.
LEMMA PrefixOfStep ==
    ASSUME NEW p \in Paths, NEW x \in STRING, NEW q \in Paths, IsPrefix(q, Append(p, x)), q # Append(p, x)
    PROVE  IsPrefix(q, p)
<1>1. Append(p, x) \in Paths
    BY StepDown DEF Places
<1>2. Len(q) <= Len(p)
    <2>1. Len(q) \in Nat /\ Len(p) \in Nat /\ Len(Append(p, x)) = Len(p) + 1
        BY StepDown DEF Paths
    <2>2. ~(Len(q) >= Len(Append(p, x)))
        BY <1>1, SameLengthPrefix
    <2>. QED
        BY <2>1, <2>2
<1>. QED
    BY <1>1, <1>2, PrefixesNested, StepDown

\* A place is one step down from its front.
LEMMA FrontOfPlace ==
    ASSUME NEW q \in Places
    PROVE  /\ Front(q) \in Paths /\ Last(q) \in STRING /\ q = Append(Front(q), Last(q))
           /\ IsPrefix(Front(q), q) /\ Front(q) # q
           /\ Len(Front(q)) = Len(q) - 1
           /\ Len(q) \in Nat \ {0}
           /\ Last(q) = q[Len(q)]
<1>1. Len(q) \in Nat \ {0} /\ q \in Paths
    BY DEF Places, Paths
<1>2. Front(q) \in Paths /\ Last(q) \in STRING /\ Len(Front(q)) = Len(q) - 1
    <2>1. Len(q) - 1 \in 0..Len(q) /\ Front(q) = SubSeq(q, 1, Len(q) - 1)
        BY <1>1 DEF Front
    <2>2. ASSUME NEW n \in 0..Len(q)
          PROVE  SubSeq(q, 1, n) \in Paths /\ Len(SubSeq(q, 1, n)) = n
        BY <1>1 DEF Paths
    <2>5. Front(q) \in Paths /\ Len(Front(q)) = Len(q) - 1
        BY <1>1, <2>1, <2>2
    <2>3. Last(q) \in STRING
        BY <1>1, ElementOfSeq DEF Last, Paths
    <2>. QED
        BY <2>3, <2>5
<1>3. Append(Front(q), Last(q)) \in Paths /\ Len(Append(Front(q), Last(q))) = Len(q)
    <2>1. Append(Front(q), Last(q)) \in Places /\ Len(Append(Front(q), Last(q))) = Len(Front(q)) + 1
        BY <1>2, StepDown
    <2>. QED
        BY <1>1, <1>2, <2>1 DEF Places
<1>4. \A i \in 1..Len(q) : q[i] = Append(Front(q), Last(q))[i]
    <2>1. \A i \in 1..(Len(q) - 1) : Front(q)[i] = q[i]
        BY <1>1 DEF Front, Paths
    <2>2. \A i \in 1..(Len(q) - 1) : Append(Front(q), Last(q))[i] = Front(q)[i]
        BY <1>2, StepDown
    <2>3. Append(Front(q), Last(q))[Len(q)] = q[Len(q)]
        BY <1>1, <1>2, StepDown DEF Last
    <2>4. ASSUME NEW i \in 1..Len(q)
          PROVE  q[i] = Append(Front(q), Last(q))[i]
        <3>1. CASE i = Len(q)
            BY <2>3, <3>1
        <3>2. CASE i # Len(q)
            <4>1. i \in 1..(Len(q) - 1)
                BY <1>1, <3>2
            <4>. QED
                BY <2>1, <2>2, <4>1
        <3>. QED
            BY <3>1, <3>2
    <2>. QED
        BY <2>4
<1>5. q = Append(Front(q), Last(q))
    BY <1>1, <1>3, <1>4, PathsEqual
<1>6. IsPrefix(Front(q), q)
    BY <1>2, <1>5, StepDown
<1>. QED
    BY <1>1, <1>2, <1>5, <1>6 DEF Last

LEMMA PrefixesAre ==
    ASSUME NEW q \in Paths
    PROVE  \A p : p \in Prefixes(q) \ {<<>>} <=> p \in Places /\ IsPrefix(p, q)
<1>1. ASSUME NEW n \in 0..Len(q)
      PROVE  SubSeq(q, 1, n) \in Paths /\ IsPrefix(SubSeq(q, 1, n), q)
    <2>1. SubSeq(q, 1, n) \in Paths /\ Len(SubSeq(q, 1, n)) = n
        BY DEF Paths
    <2>2. \A i \in 1..n : SubSeq(q, 1, n)[i] = q[i]
        BY DEF Paths
    <2>3. n <= Len(q) /\ n \in Nat
        BY DEF Paths
    <2>. QED
        BY <2>1, <2>2, <2>3, PrefixAt
<1>2. ASSUME NEW p \in Paths, IsPrefix(p, q)
      PROVE  p \in Prefixes(q)
    <2>1. Len(p) \in 0..Len(q)
        BY <1>2, PrefixAt DEF Paths
    <2>2. SubSeq(q, 1, Len(p)) \in Paths /\ Len(SubSeq(q, 1, Len(p))) = Len(p)
        BY <2>1 DEF Paths
    <2>3. \A i \in 1..Len(p) : p[i] = SubSeq(q, 1, Len(p))[i]
        BY <1>2, <2>1, PrefixAt DEF Paths
    <2>4. p = SubSeq(q, 1, Len(p))
        BY <2>2, <2>3, PathsEqual
    <2>. QED
        BY <2>1, <2>4 DEF Prefixes
<1>. QED
    BY <1>1, <1>2 DEF Prefixes, Places

-----------------------------------------------------------------------------------
(* Trees. *)

\* What TreeSound says, with prefixes for the places on the way.
LEMMA SoundSays ==
    ASSUME NEW objs, TreeSound(objs)
    PROVE  /\ IsRecord(objs, {"memory", "owned", "heap", "present"})
           /\ objs.memory = [q \in DOMAIN objs.memory |-> objs.memory[q]]
           /\ DOMAIN objs.memory \subseteq Places /\ objs.owned \subseteq Places
           /\ objs.heap = SetToBag(DOMAIN objs.memory)
           /\ \A q \in DOMAIN objs.memory : \A p \in Places : IsPrefix(p, q) => Reaches(objs, p)
           /\ \A q \in objs.owned : Len(q) = 1 \/ Last(Front(q)) \in InlineNames \/ Holds(objs, Front(q))
<1>1. DOMAIN objs.memory \subseteq Places /\ objs.owned \subseteq Places
    BY DEF TreeSound, Places, Paths
<1>2. ASSUME NEW q \in DOMAIN objs.memory, NEW p \in Places, IsPrefix(p, q)
      PROVE  Reaches(objs, p)
    <2>1. p \in Prefixes(q) \ {<<>>}
        BY <1>1, <1>2, PrefixesAre DEF Places
    <2>. QED
        BY <2>1 DEF TreeSound
<1>. QED
    BY <1>1, <1>2 DEF TreeSound

LEMMA ThenSound ==
    ASSUME NEW objs,
           IsRecord(objs, {"memory", "owned", "heap", "present"}),
           objs.memory = [q \in DOMAIN objs.memory |-> objs.memory[q]],
           DOMAIN objs.memory \subseteq Places, objs.owned \subseteq Places,
           objs.heap = SetToBag(DOMAIN objs.memory),
           \A q \in DOMAIN objs.memory : \A p \in Places : IsPrefix(p, q) => Reaches(objs, p),
           \A q \in objs.owned : Len(q) = 1 \/ Last(Front(q)) \in InlineNames \/ Holds(objs, Front(q))
    PROVE  TreeSound(objs)
<1>1. \A q \in DOMAIN objs.memory : \A p \in Prefixes(q) \ {<<>>} : p \in Places /\ IsPrefix(p, q)
    BY PrefixesAre DEF Places
<1>2. \A q \in DOMAIN objs.memory : \A p \in Prefixes(q) \ {<<>>} : Reaches(objs, p)
    BY <1>1
<1>3. DOMAIN objs.memory \cup objs.owned \subseteq Seq(STRING) \ {<<>>}
    BY DEF Places, Paths
<1>. QED
    BY <1>2, <1>3 DEF TreeSound

\* The heap as a set: freeing and allocating blocks.
LEMMA FreeBlocks ==
    ASSUME NEW S, NEW T, T \subseteq S
    PROVE  SetToBag(S) (-) SetToBag(T) = SetToBag(S \ T)
BY DEF SetToBag, (-)

LEMMA NewBlock ==
    ASSUME NEW S, NEW x, x \notin S
    PROVE  SetToBag(S) (+) SetToBag({x}) = SetToBag(S \cup {x})
BY DEF SetToBag, (+)

\* Deleting what a place holds frees all that lies at it and under it.
LEMMA FreedIs ==
    ASSUME NEW objs, TreeSound(objs), NEW place \in Paths
    PROVE  Freed(objs, place) = {q \in DOMAIN objs.memory : IsPrefix(place, q)}
<1>. SUFFICES ASSUME NEW q \in DOMAIN objs.memory, IsPrefix(place, q), NEW n \in (Len(place) + 1)..Len(q)
              PROVE  Reaches(objs, SubSeq(q, 1, n))
    BY DEF Freed
<1>1. q \in Paths
    BY SoundSays DEF Places
<1>2. n \in 0..Len(q) /\ n >= 1
    <2>1. Len(place) \in Nat /\ Len(q) \in Nat
        BY <1>1 DEF Paths
    <2>. QED
        BY <2>1
<1>3. SubSeq(q, 1, n) \in Prefixes(q)
    BY <1>2 DEF Prefixes
<1>4. Len(SubSeq(q, 1, n)) = n
    BY <1>1, <1>2 DEF Paths
<1>5. SubSeq(q, 1, n) # <<>>
    BY <1>2, <1>4
<1>. QED
    BY <1>3, <1>5 DEF TreeSound

\* Nothing changes in a tree but at some place and under it.
OnlyAt(place, old, new) ==
    \A q \in Places : ~IsPrefix(place, q) =>
        /\ q \in new.owned <=> q \in old.owned
        /\ Holds(new, q) <=> Holds(old, q)
        /\ Holds(old, q) => new.memory[q] = old.memory[q]

\* Nothing changes in a tree but strictly under some place.
OnlyUnder(place, old, new) ==
    \A q \in Places : ~IsPrefix(place, q) \/ q = place =>
        /\ q \in new.owned <=> q \in old.owned
        /\ Holds(new, q) <=> Holds(old, q)
        /\ Holds(old, q) => new.memory[q] = old.memory[q]

\* A place is free: nothing lies at it or under it.
Vacant(objs, place) == \A q \in DOMAIN objs.memory : ~IsPrefix(place, q)

\* Blocks go with all that lies under them, and none comes or changes.
Sheds(old, new) ==
    /\ \A q \in DOMAIN new.memory : Holds(old, q) /\ new.memory[q] = old.memory[q]
    /\ \A p \in DOMAIN old.memory : Holds(new, p) \/ Vacant(new, p)

LEMMA OnlyAtTrans ==
    ASSUME NEW place, NEW a, NEW b, NEW c, OnlyAt(place, a, b), OnlyAt(place, b, c)
    PROVE  OnlyAt(place, a, c)
BY DEF OnlyAt

LEMMA OnlyUnderAt ==
    ASSUME NEW place \in Places, NEW a, NEW b, OnlyUnder(place, a, b)
    PROVE  OnlyAt(place, a, b)
BY DEF OnlyUnder, OnlyAt

\* Taking out of a tree a set of places, with all that lies under them, and freeing
\* the blocks among them leaves a sound tree.
LEMMA PruneSound ==
    ASSUME NEW objs, TreeSound(objs), NEW gone, NEW blocks,
           blocks = DOMAIN objs.memory \cap gone,
           \A p \in Places, q \in DOMAIN objs.memory \cup objs.owned : p \in gone /\ IsPrefix(p, q) => q \in gone
    PROVE  /\ TreeSound(Without(objs, blocks, gone))
           /\ DOMAIN Without(objs, blocks, gone).memory = DOMAIN objs.memory \ gone
           /\ \A q \in DOMAIN objs.memory \ gone : Without(objs, blocks, gone).memory[q] = objs.memory[q]
           /\ Without(objs, blocks, gone).owned = objs.owned \ gone
           /\ Sheds(objs, Without(objs, blocks, gone))
<1>. DEFINE new == Without(objs, blocks, gone)
<1>1. /\ new.memory = [q \in DOMAIN objs.memory \ gone |-> objs.memory[q]] /\ new.owned = objs.owned \ gone
      /\ new.heap = objs.heap (-) SetToBag(blocks)
      /\ IsRecord(new, {"memory", "owned", "heap", "present"})
    BY SoundSays DEF Without, IsRecord
<1>2. /\ DOMAIN new.memory = DOMAIN objs.memory \ gone
      /\ \A q \in DOMAIN objs.memory \ gone : new.memory[q] = objs.memory[q]
      /\ new.owned = objs.owned \ gone
    BY <1>1
<1>3. new.heap = SetToBag(DOMAIN new.memory)
    <2>1. objs.heap (-) SetToBag(blocks) = SetToBag(DOMAIN objs.memory \ blocks)
        BY SoundSays, FreeBlocks
    <2>2. DOMAIN objs.memory \ blocks = DOMAIN objs.memory \ gone
        OBVIOUS
    <2>. QED
        BY <1>1, <2>1, <2>2
<1>4. ASSUME NEW q \in DOMAIN new.memory, NEW p \in Places, IsPrefix(p, q)
      PROVE  Reaches(new, p)
    <2>1. p \notin gone
        BY <1>2, <1>4
    <2>2. Reaches(objs, p)
        BY <1>2, <1>4, SoundSays
    <2>. QED
        BY <1>2, <2>1, <2>2 DEF Reaches
<1>5. ASSUME NEW q \in new.owned
      PROVE  Len(q) = 1 \/ Last(Front(q)) \in InlineNames \/ Holds(new, Front(q))
    <2>1. q \in objs.owned /\ q \notin gone /\ q \in Places
        BY <1>2, SoundSays
    <2>2. Len(q) = 1 \/ Last(Front(q)) \in InlineNames \/ Holds(objs, Front(q))
        BY <2>1, SoundSays
    <2>3. CASE Holds(objs, Front(q))
        <3>1. Front(q) \in Places
            BY <2>3, SoundSays DEF Holds
        <3>2. Front(q) \notin gone
            BY <2>1, <3>1, FrontOfPlace
        <3>. QED
            BY <1>2, <2>3, <3>2 DEF Holds
    <2>. QED
        BY <2>2, <2>3
<1>6. DOMAIN new.memory \subseteq Places /\ new.owned \subseteq Places
    BY <1>2, SoundSays
<1>8. new.memory = [q \in DOMAIN new.memory |-> new.memory[q]]
    BY <1>1
<1>9. TreeSound(new)
    <2>. HIDE DEF new
    <2>. QED
        BY <1>3, <1>4, <1>5, <1>1, <1>6, <1>8, ThenSound
<1>10. Sheds(objs, new)
    <2>. HIDE DEF new
    <2>1. \A p \in DOMAIN objs.memory : p \notin DOMAIN new.memory => p \in gone /\ p \in Places
        BY <1>2, SoundSays
    <2>2. \A p \in Places : p \in gone => Vacant(new, p)
        BY <1>2 DEF Vacant
    <2>. QED
        BY <1>2, <2>1, <2>2 DEF Sheds, Holds
<1>. QED
    BY <1>2, <1>9, <1>10

\* The values and bools of a tree may change freely.
LEMMA PresentSound ==
    ASSUME NEW objs, TreeSound(objs), NEW present
    PROVE  /\ TreeSound([objs EXCEPT !.present = present])
           /\ [objs EXCEPT !.present = present].memory = objs.memory
           /\ [objs EXCEPT !.present = present].owned = objs.owned
<1>. DEFINE new == [objs EXCEPT !.present = present]
<1>1. IsRecord(new, {"memory", "owned", "heap", "present"})
    BY SoundSays DEF IsRecord
<1>2. new.memory = objs.memory /\ new.owned = objs.owned /\ new.heap = objs.heap /\ new.present = present
    BY SoundSays DEF IsRecord
<1>3. \A p : Reaches(objs, p) => Reaches(new, p)
    BY <1>2 DEF Reaches
<1>4. \A q : Holds(objs, q) => Holds(new, q)
    BY <1>2 DEF Holds
<1>5. TreeSound(new)
    <2>. HIDE DEF new
    <2>. QED
        BY <1>1, <1>2, <1>3, <1>4, SoundSays, ThenSound
<1>. QED
    BY <1>2, <1>5

\* Releasing a member leaves a sound tree in which its place is free.
LEMMA ReleaseSound ==
    ASSUME NEW objs, TreeSound(objs), NEW place \in Places
    PROVE  /\ TreeSound(Release(objs, place)) /\ OnlyAt(place, objs, Release(objs, place))
           /\ place \notin Release(objs, place).owned /\ Sheds(objs, Release(objs, place))
           /\ Last(place) \notin Slots \cup InlineNames => Vacant(Release(objs, place), place)
<1>. DEFINE new == Release(objs, place)
<1>1. TreeSound(new) /\ OnlyAt(place, objs, new) /\ place \notin new.owned /\ Sheds(objs, new)
    <2>1. CASE place \notin objs.owned
        BY <2>1 DEF Release, OnlyAt, Sheds, Holds
    <2>2. CASE place \in objs.owned
        <3>. DEFINE gone == Under(objs, place)
                    blocks == Freed(objs, place)
        <3>1. new = Without(objs, blocks, gone)
            BY <2>2 DEF Release
        <3>2. blocks = DOMAIN objs.memory \cap gone
            BY FreedIs DEF Under, Places
        <3>3. ASSUME NEW p \in Places, NEW q \in DOMAIN objs.memory \cup objs.owned, p \in gone, IsPrefix(p, q)
              PROVE  q \in gone
            <4>1. IsPrefix(place, p) /\ q \in Places
                BY <3>3, SoundSays DEF Under
            <4>2. IsPrefix(place, q)
                BY <3>3, <4>1, PrefixTrans DEF Places
            <4>. QED
                BY <4>2 DEF Under
        <3>4. place \in gone
            BY <2>2, PrefixRefl DEF Under, Places
        <3>5. \A q \in gone : IsPrefix(place, q)
            BY DEF Under
        <3>. HIDE DEF gone, blocks
        <3>6. /\ TreeSound(new) /\ DOMAIN new.memory = DOMAIN objs.memory \ gone /\ new.owned = objs.owned \ gone
              /\ \A q \in DOMAIN objs.memory \ gone : new.memory[q] = objs.memory[q]
              /\ Sheds(objs, new)
            BY <3>1, <3>2, <3>3, PruneSound
        <3>. QED
            BY <3>4, <3>5, <3>6 DEF OnlyAt, Holds
    <2>. QED
        BY <2>1, <2>2
<1>2. ASSUME Last(place) \notin Slots \cup InlineNames, NEW q \in DOMAIN new.memory, IsPrefix(place, q)
      PROVE  FALSE
    <2>1. Reaches(new, place)
        BY <1>1, <1>2, SoundSays
    <2>. QED
        BY <1>1, <1>2, <2>1 DEF Reaches
<1>. QED
    BY <1>1, <1>2 DEF Vacant

\* The table of a class: what TableAssumption says of one member.
LEMMA MemberIs ==
    ASSUME NEW class \in DOMAIN Classes, NEW m \in {Classes[class][i] : i \in DOMAIN Classes[class]}
    PROVE  /\ m.name \in STRING \ Slots /\ IsKind(m.kind)
           /\ m.kind = <<"Object">> <=> m.name \in InlineNames
           /\ m.kind = <<"Object">> => m.class \in DOMAIN Classes \ {"Message"}
<1>1. PICK i \in DOMAIN Classes[class] : m = Classes[class][i]
    OBVIOUS
<1>. QED
    BY <1>1, TableAssumption

\* The first type of a kind; that of an inline object is the only one.
LEMMA HeadOfKind ==
    ASSUME NEW kind, IsKind(kind)
    PROVE  /\ Head(kind) \in CppTypes
           /\ Head(kind) = "Object" <=> kind = <<"Object">>
           /\ kind = <<"ObjectPtr">> => Head(kind) = "ObjectPtr"
<1>1. /\ kind \in Seq(CppTypes) /\ Len(kind) \in Nat \ {0}
      /\ Head(kind) = kind[1] /\ kind[1] \in CppTypes
    BY DEF IsKind
<1>2. Head(kind) = "Object" => Len(kind) = 1
    BY <1>1 DEF IsKind, Last
<1>3. Len(kind) = 1 => kind = <<kind[1]>>
    BY <1>1
<1>. QED
    BY <1>1, <1>2, <1>3

\* The elements of an array are of a kind, and not inline objects.
LEMMA KindOfElement ==
    ASSUME NEW kind, IsKind(kind), Head(kind) = "Array"
    PROVE  IsKind(Tail(kind)) /\ Head(Tail(kind)) # "Object"
<1>. DEFINE rest == Tail(kind)
<1>1. kind \in Seq(CppTypes) /\ kind # <<>> /\ Len(kind) \in Nat \ {0} /\ kind[1] = "Array"
      /\ DOMAIN kind = 1..Len(kind) /\ IsKind(kind)
    BY DEF IsKind
<1>2. 1 < Len(kind)
    BY <1>1 DEF IsKind
<1>3. /\ rest \in Seq(CppTypes) /\ Len(rest) = Len(kind) - 1 /\ DOMAIN rest = 1..(Len(kind) - 1)
      /\ \A i \in 1..Len(rest) : rest[i] = kind[i + 1]
    BY <1>1, HeadTailProperties
<1>. HIDE DEF rest
<1>4. rest # <<>>
    <2>1. Len(rest) # 0
        BY <1>1, <1>2, <1>3
    <2>. QED
        BY <2>1
<1>5. \A i \in 1..Len(rest) : i + 1 \in DOMAIN kind /\ (rest[i] = "Array" <=> i + 1 < Len(kind))
    BY <1>1, <1>3 DEF IsKind
<1>6. Last(rest) = kind[Len(kind)]
    BY <1>1, <1>2, <1>3 DEF Last
<1>7. Last(kind) # "Object"
    BY <1>1, <1>2 DEF IsKind, Last
<1>8. Head(rest) # "Object"
    <2>1. Head(rest) = rest[1] /\ 1 \in 1..Len(rest)
        BY <1>2, <1>3, <1>4, <1>1
    <2>2. CASE Len(rest) = 1
        BY <1>6, <1>7, <2>1, <2>2 DEF Last
    <2>3. CASE Len(rest) # 1
        <3>1. 1 + 1 < Len(kind)
            BY <1>1, <1>2, <1>3, <2>3
        <3>2. rest[1] = "Array"
            BY <1>5, <2>1, <3>1
        <3>. QED
            BY <2>1, <3>2
    <2>. QED
        BY <2>2, <2>3
<1>9. IsKind(rest)
    BY <1>1, <1>3, <1>4, <1>5, <1>6, <1>7 DEF IsKind, Last
<1>. QED
    BY <1>8, <1>9 DEF rest

LEMMA SameMemory ==
    ASSUME NEW objs, IsRecord(objs, {"memory", "owned", "heap", "present"}),
           NEW memory, NEW present, memory = objs.memory
    PROVE  [objs EXCEPT !.memory = memory, !.present = present] = [objs EXCEPT !.present = present]
BY DEF IsRecord

\* The start of read() leaves a sound tree and changes nothing above or beside.
LEMMA ClearedSound ==
    ASSUME NEW objs, TreeSound(objs), NEW place \in Paths, NEW class \in DOMAIN Classes
    PROVE  /\ TreeSound(Cleared(objs, place, class)) /\ OnlyUnder(place, objs, Cleared(objs, place, class))
           /\ Sheds(objs, Cleared(objs, place, class))
<1>. DEFINE at(m) == Append(place, m.name)
            members == {Classes[class][i] : i \in DOMAIN Classes[class]}
            own == {at(m) : m \in members} \cap objs.owned
            reset == {at(m) : m \in {k \in members : k.kind \in {<<"String">>, <<"ObjectPtr">>}}}
            blocks == UNION {Freed(objs, q) : q \in own}
            gone == UNION {Under(objs, q) : q \in own}
            released == Without(objs, blocks, gone)
            there == released.present \ {at(m) : m \in {k \in members : k.optional \/ k.omit = "FalseBool"}}
<1>1. \A m \in members : at(m) \in Places /\ Last(at(m)) = m.name /\ IsPrefix(place, at(m)) /\ at(m) # place
    <2>1. ASSUME NEW m \in members
          PROVE  at(m) \in Places /\ Last(at(m)) = m.name /\ IsPrefix(place, at(m)) /\ at(m) # place
        <3>1. m.name \in STRING
            BY MemberIs
        <3>2. Len(place) \in Nat
            BY DEF Paths
        <3>3. Append(place, m.name) \in Places /\ Last(Append(place, m.name)) = m.name /\ IsPrefix(place, Append(place, m.name))
            BY <3>1, StepDown
        <3>4. Append(place, m.name) # place
            BY <3>1, <3>2, StepDown
        <3>. QED
            BY <3>3, <3>4
    <2>. QED
        BY <2>1
<1>2. /\ own \subseteq Places
      /\ \A q \in own : IsPrefix(place, q) /\ q # place /\ q \in objs.owned
    BY <1>1
<1>3. blocks = DOMAIN objs.memory \cap gone
    <2>1. \A q \in own : Freed(objs, q) = DOMAIN objs.memory \cap Under(objs, q)
        BY <1>2, FreedIs DEF Under, Places
    <2>. HIDE DEF own
    <2>. QED
        BY <2>1
<1>4. ASSUME NEW p \in Places, NEW q \in DOMAIN objs.memory \cup objs.owned, p \in gone, IsPrefix(p, q)
      PROVE  q \in gone
    <2>1. PICK o \in own : p \in Under(objs, o)
        BY <1>4
    <2>2. IsPrefix(o, p) /\ q \in Places /\ o \in Places
        BY <1>2, <2>1, SoundSays DEF Under
    <2>3. IsPrefix(o, q)
        BY <1>4, <2>2, PrefixTrans DEF Places
    <2>. QED
        BY <2>3 DEF Under
<1>5. \A q \in gone : q \in Places => IsPrefix(place, q) /\ q # place
    <2>1. ASSUME NEW q \in gone, q \in Places
          PROVE  IsPrefix(place, q) /\ q # place
        <3>1. PICK o \in own : q \in Under(objs, o)
            OBVIOUS
        <3>2. IsPrefix(o, q) /\ o \in Places /\ IsPrefix(place, o) /\ o # place
            BY <1>2, <3>1 DEF Under
        <3>3. IsPrefix(place, q)
            BY <2>1, <3>2, PrefixTrans DEF Places
        <3>4. CASE q = place
            <4>1. Len(o) <= Len(place) /\ Len(place) <= Len(o)
                BY <3>2, <3>4, PrefixAt DEF Places
            <4>2. place = o
                BY <3>2, <4>1, SameLengthPrefix DEF Places
            <4>. QED
                BY <3>2, <4>2
        <3>. QED
            BY <3>3, <3>4
    <2>. QED
        BY <2>1
<1>6. /\ TreeSound(released) /\ DOMAIN released.memory = DOMAIN objs.memory \ gone
      /\ \A q \in DOMAIN objs.memory \ gone : released.memory[q] = objs.memory[q]
      /\ released.owned = objs.owned \ gone /\ Sheds(objs, released)
    <2>. HIDE DEF blocks, gone
    <2>. QED
        BY <1>3, <1>4, PruneSound
<1>7. ASSUME NEW r \in reset, r \in DOMAIN released.memory
      PROVE  FALSE
    <2>1. PICK m \in members : r = at(m) /\ m.kind \in {<<"String">>, <<"ObjectPtr">>}
        OBVIOUS
    <2>2. r \in Places /\ Last(r) = m.name
        BY <1>1, <2>1
    <2>3. m.name \notin Slots \cup InlineNames
        <3>1. m.kind # <<"Object">>
            BY <2>1
        <3>. QED
            BY <3>1, MemberIs
    <2>4. Reaches(released, r)
        BY <1>6, <1>7, <2>2, PrefixRefl, SoundSays DEF Places
    <2>5. r \in released.owned
        BY <2>2, <2>3, <2>4 DEF Reaches
    <2>6. r \in own /\ r \in objs.owned
        BY <1>6, <2>1, <2>5
    <2>7. r \in Under(objs, r)
        BY <2>2, <2>6, PrefixRefl DEF Under, Places
    <2>8. r \in gone
        BY <2>6, <2>7
    <2>. QED
        BY <1>6, <2>5, <2>8
<1>8. Cleared(objs, place, class) = [released EXCEPT !.present = there]
    <2>1. Cleared(objs, place, class) = [released EXCEPT !.memory = [q \in DOMAIN @ \ reset |-> @[q]], !.present = there]
        BY DEF Cleared
    <2>. HIDE DEF released, reset, there
    <2>2. [q \in DOMAIN released.memory \ reset |-> released.memory[q]] = released.memory
        <3>1. DOMAIN released.memory \ reset = DOMAIN released.memory
            BY <1>7
        <3>. QED
            BY <1>6, <3>1, SoundSays
    <2>3. IsRecord(released, {"memory", "owned", "heap", "present"})
        BY <1>6, SoundSays
    <2>. DEFINE kept == [q \in DOMAIN released.memory \ reset |-> released.memory[q]]
    <2>4. Cleared(objs, place, class) = [released EXCEPT !.memory = kept, !.present = there]
        BY <2>1
    <2>5. kept = released.memory
        BY <2>2
    <2>. HIDE DEF kept
    <2>. QED
        BY <2>3, <2>4, <2>5, SameMemory
<1>. HIDE DEF released, there, gone
<1>9. /\ TreeSound([released EXCEPT !.present = there])
      /\ [released EXCEPT !.present = there].memory = released.memory
      /\ [released EXCEPT !.present = there].owned = released.owned
    BY <1>6, PresentSound
<1>10. OnlyUnder(place, objs, [released EXCEPT !.present = there])
    BY <1>5, <1>6, <1>9 DEF OnlyUnder, Holds
<1>11. Sheds(objs, [released EXCEPT !.present = there])
    BY <1>6, <1>9 DEF Sheds, Holds, Vacant
<1>. QED
    BY <1>8, <1>9, <1>10, <1>11

\* A bit is set when the object of the member is there.
LEMMA OwnSound ==
    ASSUME NEW objs, TreeSound(objs), NEW place \in Places,
           Len(place) = 1 \/ Last(Front(place)) \in InlineNames \/ Holds(objs, Front(place))
    PROVE  /\ TreeSound(Own(objs, place)) /\ OnlyAt(place, objs, Own(objs, place))
           /\ Own(objs, place).memory = objs.memory
           /\ place \in Own(objs, place).owned
<1>. DEFINE new == Own(objs, place)
<1>1. /\ IsRecord(new, {"memory", "owned", "heap", "present"})
      /\ new.memory = objs.memory /\ new.heap = objs.heap /\ new.owned = objs.owned \cup {place}
    BY SoundSays DEF IsRecord, Own
<1>2. \A p : Reaches(objs, p) => Reaches(new, p)
    BY <1>1 DEF Reaches
<1>3. \A q : Holds(objs, q) <=> Holds(new, q)
    BY <1>1 DEF Holds
<1>4. TreeSound(new)
    <2>. HIDE DEF new
    <2>. QED
        BY <1>1, <1>2, <1>3, SoundSays, ThenSound
<1>5. OnlyAt(place, objs, new)
    <2>1. IsPrefix(place, place)
        BY PrefixRefl DEF Places
    <2>. HIDE DEF new
    <2>. QED
        BY <1>1, <1>3, <2>1 DEF OnlyAt
<1>. QED
    BY <1>1, <1>4, <1>5

\* A block is allocated for a free place that can be reached.
LEMMA AllocateSound ==
    ASSUME NEW objs, TreeSound(objs), NEW place \in Places, NEW what,
           ~Holds(objs, place),
           \A p \in Places : IsPrefix(p, place) => Reaches(objs, p)
    PROVE  /\ TreeSound(Allocate(objs, place, what)) /\ OnlyAt(place, objs, Allocate(objs, place, what))
           /\ DOMAIN Allocate(objs, place, what).memory = DOMAIN objs.memory \cup {place}
           /\ Allocate(objs, place, what).memory[place] = what
           /\ Allocate(objs, place, what).owned = objs.owned
<1>. DEFINE new == Allocate(objs, place, what)
<1>1. /\ IsRecord(new, {"memory", "owned", "heap", "present"})
      /\ new.heap = objs.heap (+) SetToBag({place}) /\ new.owned = objs.owned
    BY SoundSays DEF IsRecord, Allocate
<1>2. new.memory = [q \in DOMAIN objs.memory \cup {place} |-> IF q = place THEN what ELSE objs.memory[q]]
    BY SoundSays DEF IsRecord, Allocate
<1>3. new.heap = SetToBag(DOMAIN new.memory)
    <2>1. place \notin DOMAIN objs.memory /\ objs.heap = SetToBag(DOMAIN objs.memory)
        BY SoundSays DEF Holds
    <2>2. SetToBag(DOMAIN objs.memory) (+) SetToBag({place}) = SetToBag(DOMAIN objs.memory \cup {place})
        BY <2>1, NewBlock
    <2>3. DOMAIN new.memory = DOMAIN objs.memory \cup {place}
        BY <1>2
    <2>. HIDE DEF new
    <2>. QED
        BY <1>1, <2>1, <2>2, <2>3
<1>4. ASSUME NEW q \in DOMAIN new.memory, NEW p \in Places, IsPrefix(p, q)
      PROVE  Reaches(new, p)
    <2>1. Reaches(objs, p)
        BY <1>2, <1>4, SoundSays
    <2>. QED
        BY <1>1, <2>1 DEF Reaches
<1>5. \A q : Holds(objs, q) => Holds(new, q)
    BY <1>2 DEF Holds
<1>6. DOMAIN new.memory \subseteq Places
    BY <1>2, SoundSays
<1>7. new.memory = [q \in DOMAIN new.memory |-> new.memory[q]]
    BY <1>2
<1>8. TreeSound(new)
    <2>. HIDE DEF new
    <2>. QED
        BY <1>1, <1>3, <1>4, <1>5, <1>6, <1>7, SoundSays, ThenSound
<1>9. OnlyAt(place, objs, new)
    <2>1. IsPrefix(place, place)
        BY PrefixRefl DEF Places
    <2>. HIDE DEF new
    <2>. QED
        BY <1>1, <1>2, <2>1 DEF OnlyAt, Holds
<1>. QED
    BY <1>1, <1>2, <1>8, <1>9

\* Nulling a pointer that points at nothing changes nothing.
LEMMA SetNullVacant ==
    ASSUME NEW objs, TreeSound(objs), NEW place, ~Holds(objs, place)
    PROVE  SetNull(objs, place) = objs
<1>1. [q \in DOMAIN objs.memory \ {place} |-> objs.memory[q]] = objs.memory
    <2>1. DOMAIN objs.memory \ {place} = DOMAIN objs.memory
        BY DEF Holds
    <2>. QED
        BY <2>1, SoundSays
<1>. DEFINE kept == [q \in DOMAIN objs.memory \ {place} |-> objs.memory[q]]
<1>2. SetNull(objs, place) = [objs EXCEPT !.memory = kept]
    BY DEF SetNull
<1>3. kept = objs.memory
    BY <1>1
<1>. HIDE DEF kept
<1>. QED
    BY <1>2, <1>3, SoundSays DEF IsRecord

\* The bit and the block of a member may be set in either order.
LEMMA OwnAllocate ==
    ASSUME NEW objs, TreeSound(objs), NEW place, NEW what
    PROVE  Own(Allocate(objs, place, what), place) = Allocate(Own(objs, place), place, what)
BY SoundSays DEF IsRecord, Own, Allocate

\* Destroying a sound tree leaves nothing.
LEMMA DestroyedEmpty ==
    ASSUME NEW objs, TreeSound(objs)
    PROVE  /\ objs.heap = SetToBag(Freed(objs, <<>>))
           /\ Destroyed(objs) = EmptyTree
<1>1. <<>> \in Paths
    BY DEF Paths
<1>2. Freed(objs, <<>>) = DOMAIN objs.memory
    <2>1. \A q \in DOMAIN objs.memory : IsPrefix(<<>>, q)
        BY PrefixRefl, SoundSays DEF Places
    <2>. QED
        BY <1>1, <2>1, FreedIs
<1>3. objs.heap = SetToBag(DOMAIN objs.memory)
    BY SoundSays
<1>4. objs.heap (-) SetToBag(DOMAIN objs.memory) = SetToBag({})
    BY <1>3, FreeBlocks
<1>5. SetToBag({}) = EmptyBag
    BY DEF EmptyBag
<1>6. Destroyed(objs) = [EmptyTree EXCEPT !.heap = EmptyBag]
    BY <1>2, <1>3, <1>4, <1>5 DEF Destroyed
<1>. QED
    BY <1>2, <1>3, <1>6 DEF EmptyTree

LEMMA EmptySound == TreeSound(EmptyTree)
<1>1. /\ IsRecord(EmptyTree, {"memory", "owned", "heap", "present"})
      /\ EmptyTree.memory = <<>> /\ EmptyTree.owned = {} /\ EmptyTree.heap = EmptyBag
    BY DEF EmptyTree, IsRecord
<1>2. DOMAIN EmptyTree.memory = {}
    BY <1>1
<1>3. EmptyTree.memory = [q \in DOMAIN EmptyTree.memory |-> EmptyTree.memory[q]]
    BY <1>1
<1>4. EmptyTree.heap = SetToBag(DOMAIN EmptyTree.memory)
    BY <1>1, <1>2 DEF EmptyBag
<1>. QED
    BY <1>1, <1>2, <1>3, <1>4, ThenSound

-----------------------------------------------------------------------------------
(* Reading one value. *)

\* A place that can be read now: what is above it is there and can be reached, and if it
\* is a slot, nothing lies at it yet.
Readable(objs, at) ==
    /\ at.place \in Places /\ IsKind(at.kind) /\ at.depth \in Nat
    /\ \A p \in Places : IsPrefix(p, at.place) /\ p # at.place => Reaches(objs, p)
    /\ at.member \in BOOLEAN
    /\ at.member =>
        /\ Len(at.place) = 1 \/ Last(Front(at.place)) \in InlineNames \/ Holds(objs, Front(at.place))
        /\ Last(at.place) \notin Slots /\ (Last(at.place) \in InlineNames <=> at.kind = <<"Object">>)
        /\ at.kind = <<"Object">> => at.inline \in DOMAIN Classes \ {"Message"}
    /\ ~at.member => Last(at.place) \in Slots /\ Vacant(objs, at.place) /\ Head(at.kind) # "Object"

TokenSound(token) ==
    /\ token.kind = "map" => token.count \in Nat
    /\ token.kind = "array" => token.count \in 0..MaxSlots

\* The frame of a value that was begun.
OpenedObject(objs, at, frame) ==
    \E class \in DOMAIN Classes \ {"Message"}, depth, n \in Nat :
        /\ frame = ObjectFrame(at.place, class, depth, n)
        /\ Last(at.place) \in InlineNames \/ Holds(objs, at.place)

OpenedArray(objs, at, frame) ==
    \E n \in 0..MaxSlots :
        /\ frame = ArrayFrame(at, n) /\ Head(at.kind) = "Array"
        /\ \A q \in DOMAIN objs.memory : IsPrefix(at.place, q) => q = at.place

Opened(objs, at, frame) ==
    /\ OpenedObject(objs, at, frame) \/ OpenedArray(objs, at, frame)
    /\ \A p \in Places : IsPrefix(p, at.place) => Reaches(objs, p)

\* What reading a value may do.
ReadSound(objs, at, r) ==
    /\ TreeSound(r.tree) /\ OnlyAt(at.place, objs, r.tree)
    /\ r.open = <<>> \/ \E frame : r.open = <<frame>> /\ Opened(r.tree, at, frame)

LEMMA DoneSound ==
    ASSUME NEW objs, NEW at, NEW new, TreeSound(new), OnlyAt(at.place, objs, new)
    PROVE  ReadSound(objs, at, Done(new)) /\ ReadSound(objs, at, Failed(new))
BY DEF ReadSound, Done, Failed

LEMMA OpensSound ==
    ASSUME NEW objs, NEW at, NEW new, TreeSound(new), OnlyAt(at.place, objs, new), NEW frame, Opened(new, at, frame)
    PROVE  ReadSound(objs, at, Opens(new, frame))
BY DEF ReadSound, Opens

LEMMA ReadSoundTrans ==
    ASSUME NEW a, NEW b, NEW at, NEW r, OnlyAt(at.place, a, b), ReadSound(b, at, r)
    PROVE  ReadSound(a, at, r)
BY OnlyAtTrans DEF ReadSound

LEMMA OnlyAtRefl ==
    ASSUME NEW objs, NEW place
    PROVE  OnlyAt(place, objs, objs)
BY DEF OnlyAt

\* Changes at a place leave alone what is above it.
LEMMA AboveKept ==
    ASSUME NEW place \in Places, NEW old, NEW new, OnlyAt(place, old, new),
           NEW p \in Places, IsPrefix(p, place), p # place
    PROVE  /\ Reaches(old, p) <=> Reaches(new, p)
           /\ Holds(old, p) <=> Holds(new, p)
<1>1. ~IsPrefix(place, p)
    <2>1. SUFFICES ASSUME IsPrefix(place, p)
                   PROVE  FALSE
        OBVIOUS
    <2>2. Len(place) >= Len(p) /\ Len(p) >= Len(place)
        BY <2>1, PrefixAt DEF Places, Paths
    <2>. QED
        BY <2>2, SameLengthPrefix DEF Places
<1>. QED
    BY <1>1 DEF OnlyAt, Reaches

\* A place stays readable when what changes is at it or under it.
LEMMA ReadableKept ==
    ASSUME NEW old, NEW new, NEW at, Readable(old, at), OnlyAt(at.place, old, new), ~at.member => Vacant(new, at.place)
    PROVE  Readable(new, at)
<1>1. \A p \in Places : IsPrefix(p, at.place) /\ p # at.place => Reaches(new, p)
    BY AboveKept DEF Readable
<1>2. ASSUME Holds(old, Front(at.place)), Len(at.place) # 1
      PROVE  Holds(new, Front(at.place))
    <2>1. at.place \in Places
        BY DEF Readable
    <2>2. /\ Front(at.place) \in Paths /\ IsPrefix(Front(at.place), at.place) /\ Front(at.place) # at.place
          /\ Len(Front(at.place)) = Len(at.place) - 1 /\ Len(at.place) \in Nat \ {0}
        BY <2>1, FrontOfPlace
    <2>3. Front(at.place) # <<>>
        <3>1. Len(Front(at.place)) # 0
            BY <1>2, <2>2
        <3>. QED
            BY <3>1
    <2>. QED
        BY <1>2, <2>1, <2>2, <2>3, AboveKept DEF Places
<1>. QED
    BY <1>1, <1>2 DEF Readable

\* A member is released before it is read, and its place is then free.
LEMMA BeforeReading ==
    ASSUME NEW objs, TreeSound(objs), NEW at, Readable(objs, at),
           NEW before, before = IF at.member THEN Release(objs, at.place) ELSE objs
    PROVE  /\ TreeSound(before) /\ OnlyAt(at.place, objs, before) /\ Readable(before, at)
           /\ at.kind # <<"Object">> => Vacant(before, at.place)
<1>1. CASE at.member
    <2>1. before = Release(objs, at.place) /\ at.place \in Places
        BY <1>1 DEF Readable
    <2>2. TreeSound(before) /\ OnlyAt(at.place, objs, before)
        BY <2>1, ReleaseSound
    <2>3. Readable(before, at)
        BY <1>1, <2>2, ReadableKept
    <2>4. at.kind # <<"Object">> => Vacant(before, at.place)
        BY <1>1, <2>1, ReleaseSound DEF Readable
    <2>. QED
        BY <2>2, <2>3, <2>4
<1>2. CASE ~at.member
    <2>1. before = objs
        BY <1>2
    <2>. QED
        BY <1>2, <2>1, OnlyAtRefl DEF Readable
<1>. QED
    BY <1>1, <1>2 DEF Readable

\* read() of an object whose place is there: it opens a frame or fails.
LEMMA ReadObjectSound ==
    ASSUME NEW objs, TreeSound(objs), NEW at, at.place \in Places, NEW class \in DOMAIN Classes \ {"Message"},
           NEW depth \in Nat, NEW token, TokenSound(token),
           \A p \in Places : IsPrefix(p, at.place) => Reaches(objs, p),
           Last(at.place) \in InlineNames \/ Holds(objs, at.place)
    PROVE  LET r == ReadObject(objs, at.place, class, depth, token)
           IN  /\ ReadSound(objs, at, r)
               /\ Holds(r.tree, at.place) <=> Holds(objs, at.place)
               /\ Holds(objs, at.place) => r.tree.memory[at.place] = objs.memory[at.place]
<1>. DEFINE r == ReadObject(objs, at.place, class, depth, token)
            new == Cleared(objs, at.place, class)
            frame == ObjectFrame(at.place, class, depth, token.count)
<1>1. CASE depth > MaxDepth \/ token.kind # "map"
    <2>1. r = Failed(objs) /\ r.tree = objs
        BY <1>1 DEF ReadObject, Failed
    <2>. QED
        BY <2>1, DoneSound, OnlyAtRefl
<1>2. CASE ~(depth > MaxDepth \/ token.kind # "map")
    <2>1. r = Opens(new, frame) /\ r.tree = new
        BY <1>2 DEF ReadObject, Opens
    <2>2. TreeSound(new) /\ OnlyUnder(at.place, objs, new)
        BY ClearedSound DEF Places
    <2>3. OnlyAt(at.place, objs, new)
        BY <2>2, OnlyUnderAt
    <2>4. /\ Holds(new, at.place) <=> Holds(objs, at.place)
          /\ Holds(objs, at.place) => new.memory[at.place] = objs.memory[at.place]
          /\ at.place \in new.owned <=> at.place \in objs.owned
        BY <2>2 DEF OnlyUnder
    <2>5. \A p \in Places : IsPrefix(p, at.place) => Reaches(new, p)
        <3>1. ASSUME NEW p \in Places, IsPrefix(p, at.place)
              PROVE  Reaches(new, p)
            <4>1. CASE p = at.place
                BY <2>4, <3>1, <4>1 DEF Reaches
            <4>2. CASE p # at.place
                BY <2>3, <3>1, <4>2, AboveKept
            <4>. QED
                BY <4>1, <4>2
        <3>. QED
            BY <3>1
    <2>6. Opened(new, at, frame)
        <3>1. token.count \in Nat
            BY <1>2 DEF TokenSound
        <3>2. OpenedObject(new, at, frame)
            BY <2>4, <3>1 DEF OpenedObject
        <3>. QED
            BY <2>5, <3>2 DEF Opened
    <2>. HIDE DEF r, new, frame
    <2>7. ReadSound(objs, at, r)
        BY <2>1, <2>2, <2>3, <2>6, OpensSound
    <2>. QED
        BY <2>1, <2>4, <2>7 DEF r
<1>. QED
    BY <1>1, <1>2

LEMMA ReadScalarSound ==
    ASSUME NEW objs, TreeSound(objs), NEW at, NEW token
    PROVE  ReadSound(objs, at, ReadScalar(objs, at, token))
<1>1. ASSUME NEW present
      PROVE  ReadSound(objs, at, Done([objs EXCEPT !.present = present]))
    <2>1. OnlyAt(at.place, objs, [objs EXCEPT !.present = present])
        BY PresentSound DEF OnlyAt, Holds
    <2>. QED
        BY <2>1, PresentSound, DoneSound
<1>2. ReadSound(objs, at, Failed(objs))
    BY DoneSound, OnlyAtRefl
<1>. QED
    BY <1>1, <1>2 DEF ReadScalar

LEMMA OwnIfSound ==
    ASSUME NEW objs, TreeSound(objs), NEW at, Readable(objs, at)
    PROVE  LET held == OwnIf(at.member, objs, at.place)
           IN  /\ TreeSound(held) /\ OnlyAt(at.place, objs, held) /\ held.memory = objs.memory
               /\ \A p \in Places : IsPrefix(p, at.place) => Reaches(held, p)
<1>. DEFINE held == OwnIf(at.member, objs, at.place)
<1>1. TreeSound(held) /\ OnlyAt(at.place, objs, held) /\ held.memory = objs.memory /\ (at.member => at.place \in held.owned)
    <2>1. CASE at.member
        BY <2>1, OwnSound DEF Readable, OwnIf
    <2>2. CASE ~at.member
        BY <2>2, OnlyAtRefl DEF OwnIf
    <2>. QED
        BY <2>1, <2>2 DEF Readable
<1>2. ASSUME NEW p \in Places, IsPrefix(p, at.place)
      PROVE  Reaches(held, p)
    <2>1. CASE p # at.place
        BY <1>1, <1>2, <2>1, AboveKept DEF Readable
    <2>2. CASE p = at.place
        BY <1>1, <2>2 DEF Readable, Reaches
    <2>. QED
        BY <2>1, <2>2
<1>. QED
    BY <1>1, <1>2

\* A block for the place, and the bit of its member.
LEMMA MakeSound ==
    ASSUME NEW objs, TreeSound(objs), NEW at, Readable(objs, at), Vacant(objs, at.place), NEW what
    PROVE  LET made == OwnIf(at.member, Allocate(objs, at.place, what), at.place)
               held == OwnIf(at.member, objs, at.place)
           IN  /\ made = Allocate(held, at.place, what)
               /\ TreeSound(made) /\ OnlyAt(at.place, objs, made)
               /\ Holds(made, at.place) /\ made.memory[at.place] = what
               /\ DOMAIN made.memory = DOMAIN objs.memory \cup {at.place}
               /\ \A p \in Places : IsPrefix(p, at.place) => Reaches(made, p)
<1>. DEFINE made == OwnIf(at.member, Allocate(objs, at.place, what), at.place)
            held == OwnIf(at.member, objs, at.place)
<1>1. made = Allocate(held, at.place, what)
    BY OwnAllocate DEF OwnIf
<1>2. /\ TreeSound(held) /\ OnlyAt(at.place, objs, held) /\ held.memory = objs.memory
      /\ \A p \in Places : IsPrefix(p, at.place) => Reaches(held, p)
    BY OwnIfSound
<1>. HIDE DEF held, made
<1>3. at.place \in Places /\ ~Holds(held, at.place)
    BY <1>2, PrefixRefl DEF Readable, Vacant, Holds, Places
<1>4. /\ TreeSound(made) /\ OnlyAt(at.place, held, made)
      /\ DOMAIN made.memory = DOMAIN held.memory \cup {at.place}
      /\ made.memory[at.place] = what
      /\ made.owned = held.owned
    BY <1>1, <1>2, <1>3, AllocateSound
<1>5. \A p \in Places : IsPrefix(p, at.place) => Reaches(made, p)
    BY <1>2, <1>4 DEF Reaches
<1>6. OnlyAt(at.place, objs, made)
    BY <1>2, <1>4, OnlyAtTrans
<1>. QED
    BY <1>1, <1>2, <1>4, <1>5, <1>6 DEF made, held, Holds

LEMMA ReadStringSound ==
    ASSUME NEW objs, TreeSound(objs), NEW at, Readable(objs, at), Vacant(objs, at.place), NEW token
    PROVE  ReadSound(objs, at, ReadString(objs, at, token))
<1>1. SetNull(objs, at.place) = objs
    BY PrefixRefl, SetNullVacant DEF Readable, Vacant, Holds, Places
<1>2. ReadSound(objs, at, Done(OwnIf(at.member, SetNull(objs, at.place), at.place)))
    BY <1>1, OwnIfSound, DoneSound
<1>3. ReadSound(objs, at, Done(OwnIf(at.member, Allocate(objs, at.place, token.text), at.place)))
    BY MakeSound, DoneSound
<1>4. ReadSound(objs, at, Failed(objs))
    BY OnlyAtRefl, DoneSound
<1>. QED
    BY <1>2, <1>3, <1>4 DEF ReadString

\* Whatever happens, an object that was made is of the class that was asked for.
LEMMA ReadPointerSound ==
    ASSUME NEW objs, TreeSound(objs), NEW at, Readable(objs, at), Vacant(objs, at.place),
           NEW class \in (DOMAIN Classes \ {"Message"}) \cup {Null}, NEW token, TokenSound(token)
    PROVE  LET r == ReadPointer(objs, at, class, token)
           IN  /\ ReadSound(objs, at, r)
               /\ Holds(r.tree, at.place) => class # Null /\ r.tree.memory[at.place] = class
<1>. DEFINE r == ReadPointer(objs, at, class, token)
            made == OwnIf(at.member, Allocate(objs, at.place, class), at.place)
            nulled == IF at.member THEN SetNull(objs, at.place) ELSE objs
<1>1. nulled = objs /\ ~Holds(objs, at.place)
    BY PrefixRefl, SetNullVacant DEF Readable, Vacant, Holds, Places
<1>2. CASE token.kind = "nil"
    <2>1. r = Done(nulled) /\ r.tree = nulled
        BY <1>2 DEF ReadPointer, Done
    <2>. QED
        BY <1>1, <2>1, OnlyAtRefl, DoneSound
<1>3. CASE token.kind # "nil" /\ class = Null
    <2>1. r = Failed(objs) /\ r.tree = objs
        BY <1>3 DEF ReadPointer, Failed
    <2>. QED
        BY <1>1, <2>1, OnlyAtRefl, DoneSound
<1>4. CASE token.kind # "nil" /\ class # Null
    <2>1. r = ReadObject(made, at.place, class, at.depth, token)
        BY <1>4 DEF ReadPointer
    <2>2. /\ TreeSound(made) /\ OnlyAt(at.place, objs, made)
          /\ Holds(made, at.place) /\ made.memory[at.place] = class
          /\ \A p \in Places : IsPrefix(p, at.place) => Reaches(made, p)
        BY MakeSound
    <2>3. at.place \in Places /\ class \in DOMAIN Classes \ {"Message"} /\ at.depth \in Nat
        BY <1>4 DEF Readable
    <2>. HIDE DEF r, made
    <2>4. ReadSound(made, at, r) /\ r.tree.memory[at.place] = class
        BY <2>1, <2>2, <2>3, ReadObjectSound
    <2>. QED
        BY <1>4, <2>2, <2>4, ReadSoundTrans DEF r
<1>. QED
    BY <1>2, <1>3, <1>4

LEMMA ReadArraySound ==
    ASSUME NEW objs, TreeSound(objs), NEW at, Readable(objs, at), Vacant(objs, at.place),
           Head(at.kind) = "Array", NEW token, TokenSound(token)
    PROVE  ReadSound(objs, at, ReadArray(objs, at, token))
<1>. DEFINE r == ReadArray(objs, at, token)
            held == OwnIf(at.member, objs, at.place)
            new == IF token.count = 0 THEN SetNull(held, at.place) ELSE Allocate(held, at.place, token.count)
            made == OwnIf(at.member, Allocate(objs, at.place, token.count), at.place)
            frame == ArrayFrame(at, token.count)
<1>1. /\ TreeSound(held) /\ OnlyAt(at.place, objs, held) /\ held.memory = objs.memory
      /\ \A p \in Places : IsPrefix(p, at.place) => Reaches(held, p)
    BY OwnIfSound
<1>. HIDE DEF held
<1>2. SetNull(held, at.place) = held
    BY <1>1, PrefixRefl, SetNullVacant DEF Readable, Vacant, Holds, Places
<1>3. ReadSound(objs, at, Failed(held)) /\ ReadSound(objs, at, Done(SetNull(held, at.place)))
    BY <1>1, <1>2, DoneSound
<1>4. CASE at.depth <= MaxDepth /\ token.kind = "array"
    <2>1. r = Opens(new, frame)
        BY <1>4, LimitAssumption DEF ReadArray, Readable, held
    <2>2. /\ TreeSound(new) /\ OnlyAt(at.place, objs, new)
          /\ DOMAIN new.memory \subseteq DOMAIN objs.memory \cup {at.place}
          /\ \A p \in Places : IsPrefix(p, at.place) => Reaches(new, p)
        <3>1. CASE token.count = 0
            BY <1>1, <1>2, <3>1
        <3>2. CASE token.count # 0
            <4>1. new = made
                BY <3>2, MakeSound DEF held
            <4>2. /\ TreeSound(made) /\ OnlyAt(at.place, objs, made)
                  /\ DOMAIN made.memory = DOMAIN objs.memory \cup {at.place}
                  /\ \A p \in Places : IsPrefix(p, at.place) => Reaches(made, p)
                BY MakeSound
            <4>. HIDE DEF new, made
            <4>. QED
                BY <4>1, <4>2
        <3>. QED
            BY <3>1, <3>2
    <2>. HIDE DEF new
    <2>3. \A q \in DOMAIN new.memory : IsPrefix(at.place, q) => q = at.place
        BY <2>2 DEF Vacant
    <2>4. token.count \in 0..MaxSlots
        BY <1>4 DEF TokenSound
    <2>5. OpenedArray(new, at, frame)
        BY <2>3, <2>4 DEF OpenedArray
    <2>6. Opened(new, at, frame)
        BY <2>2, <2>5 DEF Opened
    <2>. HIDE DEF r, frame
    <2>. QED
        BY <2>1, <2>2, <2>6, OpensSound DEF r
<1>5. CASE ~(at.depth <= MaxDepth /\ token.kind = "array")
    <2>1. r \in {Failed(held), Done(SetNull(held, at.place))}
        BY <1>5, LimitAssumption DEF ReadArray, Readable, held
    <2>. QED
        BY <1>3, <2>1
<1>. QED
    BY <1>4, <1>5

\* Reading a value keeps the tree sound, wherever it fails, and changes nothing that is
\* not at its place or under it.
LEMMA ReadValueSound ==
    ASSUME NEW objs, TreeSound(objs), NEW at, Readable(objs, at),
           NEW class \in (DOMAIN Classes \ {"Message"}) \cup {Null}, NEW token, TokenSound(token)
    PROVE  LET r == ReadValue(objs, at, class, token)
           IN  /\ ReadSound(objs, at, r)
               /\ at.kind = <<"ObjectPtr">> /\ Holds(r.tree, at.place) =>
                    class # Null /\ r.tree.memory[at.place] = class
<1>. DEFINE r == ReadValue(objs, at, class, token)
            before == IF at.member THEN Release(objs, at.place) ELSE objs
<1>1. /\ TreeSound(before) /\ OnlyAt(at.place, objs, before) /\ Readable(before, at)
      /\ at.kind # <<"Object">> => Vacant(before, at.place)
    BY BeforeReading
<1>2. Head(at.kind) \in CppTypes /\ (Head(at.kind) = "Object" => at.kind = <<"Object">> /\ at.member)
      /\ (at.kind = <<"Object">> => Head(at.kind) = "Object")
      /\ (at.kind = <<"ObjectPtr">> => Head(at.kind) = "ObjectPtr")
    BY HeadOfKind DEF Readable
<1>. HIDE DEF before
<1>3. r = CASE Head(at.kind) \in {"Number", "Bool"} -> ReadScalar(before, at, token)
          [] Head(at.kind) = "String" -> ReadString(before, at, token)
          [] Head(at.kind) = "Object" -> IF token.kind = "nil" THEN Done(before)
                                         ELSE ReadObject(before, at.place, at.inline, at.depth, token)
          [] Head(at.kind) = "ObjectPtr" -> ReadPointer(before, at, class, token)
          [] Head(at.kind) = "Array" -> ReadArray(before, at, token)
    BY DEF ReadValue, before
<1>. HIDE DEF r
<1>4. CASE Head(at.kind) \in {"Number", "Bool"}
    <2>1. r = ReadScalar(before, at, token) /\ at.kind # <<"ObjectPtr">>
        BY <1>2, <1>3, <1>4
    <2>. QED
        BY <1>1, <2>1, ReadScalarSound, ReadSoundTrans DEF r
<1>5. CASE Head(at.kind) = "String"
    <2>1. r = ReadString(before, at, token) /\ at.kind # <<"ObjectPtr">> /\ at.kind # <<"Object">>
        BY <1>2, <1>3, <1>5
    <2>. QED
        BY <1>1, <2>1, ReadStringSound, ReadSoundTrans DEF r
<1>6. CASE Head(at.kind) = "Object"
    <2>1. r = IF token.kind = "nil" THEN Done(before) ELSE ReadObject(before, at.place, at.inline, at.depth, token)
        BY <1>3, <1>6
    <2>2. ReadSound(before, at, Done(before))
        BY <1>1, OnlyAtRefl, DoneSound
    <2>3. ReadSound(before, at, ReadObject(before, at.place, at.inline, at.depth, token))
        <3>1. /\ at.place \in Places /\ at.inline \in DOMAIN Classes \ {"Message"} /\ at.depth \in Nat
              /\ Last(at.place) \in InlineNames
            BY <1>2, <1>6 DEF Readable
        <3>2. \A p \in Places : IsPrefix(p, at.place) => Reaches(before, p)
            BY <1>1, <3>1 DEF Readable, Reaches
        <3>. QED
            BY <1>1, <3>1, <3>2, ReadObjectSound
    <2>4. ReadSound(before, at, r) /\ at.kind # <<"ObjectPtr">>
        BY <1>2, <1>6, <2>1, <2>2, <2>3
    <2>. QED
        BY <1>1, <2>4, ReadSoundTrans DEF r
<1>7. CASE Head(at.kind) = "ObjectPtr"
    <2>1. r = ReadPointer(before, at, class, token) /\ at.kind # <<"Object">>
        BY <1>2, <1>3, <1>7
    <2>2. /\ ReadSound(before, at, r)
          /\ Holds(r.tree, at.place) => class # Null /\ r.tree.memory[at.place] = class
        BY <1>1, <2>1, ReadPointerSound
    <2>. QED
        BY <1>1, <2>2, ReadSoundTrans DEF r
<1>8. CASE Head(at.kind) = "Array"
    <2>1. r = ReadArray(before, at, token) /\ at.kind # <<"ObjectPtr">> /\ at.kind # <<"Object">>
        BY <1>2, <1>3, <1>8
    <2>. QED
        BY <1>1, <1>8, <2>1, ReadArraySound, ReadSoundTrans DEF r
<1>. QED
    BY <1>2, <1>4, <1>5, <1>6, <1>7, <1>8 DEF CppTypes

-----------------------------------------------------------------------------------
(* What the tables declare for a place. *)

Root == [kind |-> <<"Object">>, class |-> "Message"]

\* Two trees have the same at a place.
Agree(old, new, p) ==
    (Holds(old, p) <=> Holds(new, p)) /\ (Holds(old, p) => new.memory[p] = old.memory[p])

Declares(f, objs, place) ==
    f = [n \in 0..Len(place) |-> IF n = 0 THEN Root ELSE Below(objs, f[n - 1], SubSeq(place, 1, n - 1), place[n])]

LEMMA DeclaredExists ==
    ASSUME NEW objs, NEW place, Len(place) \in Nat
    PROVE  \E f : Declares(f, objs, place) /\ Declared(objs, place) = f[Len(place)]
<1>. DEFINE F(f, m) == [n \in 0..m |-> IF n = 0 THEN Root ELSE Below(objs, f[n - 1], SubSeq(place, 1, n - 1), place[n])]
            S == {m \in Nat : ~\E f : f = F(f, m)}
<1>1. S = {}
    <2>1. SUFFICES ASSUME S # {}
                   PROVE  FALSE
        OBVIOUS
    <2>2. PICK m \in S : \A i \in S : m <= i
        BY <2>1, LeastNumber
    <2>3. m # 0
        <3>1. [n \in 0..0 |-> Root] = F([n \in 0..0 |-> Root], 0)
            OBVIOUS
        <3>. QED
            BY <3>1
    <2>4. m - 1 \in Nat /\ m - 1 \notin S
        <3>1. m \in Nat
            OBVIOUS
        <3>. HIDE DEF S
        <3>. QED
            BY <2>2, <2>3, <3>1
    <2>5. PICK f : f = F(f, m - 1)
        BY <2>4
    <2>. DEFINE next == [n \in 0..m |-> IF n = 0 THEN Root ELSE Below(objs, f[n - 1], SubSeq(place, 1, n - 1), place[n])]
    <2>6. \A i \in 0..(m - 1) : next[i] = f[i]
        <3>. SUFFICES ASSUME NEW i \in 0..(m - 1)
                      PROVE  next[i] = f[i]
            OBVIOUS
        <3>1. f[i] = IF i = 0 THEN Root ELSE Below(objs, f[i - 1], SubSeq(place, 1, i - 1), place[i])
            BY <2>5
        <3>2. i \in 0..m
            OBVIOUS
        <3>. QED
            BY <3>1, <3>2
    <2>7. next = F(next, m)
        <3>1. \A i \in 0..m : i # 0 => i - 1 \in 0..(m - 1)
            OBVIOUS
        <3>2. \A i \in 0..m : i # 0 => next[i - 1] = f[i - 1]
            <4>. HIDE DEF next
            <4>. QED
                BY <2>6, <3>1
        <3>. QED
            BY <3>2
    <2>. QED
        BY <2>7
<1>2. \E f : Declares(f, objs, place)
    BY <1>1 DEF Declares
<1>. DEFINE f0 == CHOOSE f : Declares(f, objs, place)
<1>3. Declares(f0, objs, place)
    BY <1>2
<1>4. Declared(objs, place) = f0[Len(place)]
    BY DEF Declared, Declares, Root
<1>. QED
    BY <1>3, <1>4

\* f and g declare two paths that agree, with the blocks along them, up to n.
Alike(old, new, p, q, f, g, n) ==
    /\ p \in Paths /\ q \in Paths
    /\ Declares(f, old, p) /\ Declares(g, new, q)
    /\ n \in Nat /\ n <= Len(p) /\ n <= Len(q)
    /\ \A i \in 1..n : p[i] = q[i]
    /\ \A i \in 0..(n - 1) : Agree(old, new, SubSeq(p, 1, i))

\* What is declared depends on the blocks above a place only.
LEMMA DeclaredSame ==
    ASSUME NEW old, NEW new, NEW p, NEW q, NEW f, NEW g, NEW n,
           Alike(old, new, p, q, f, g, n)
    PROVE  f[n] = g[n]
<1>a. /\ p \in Paths /\ q \in Paths
      /\ n \in Nat /\ n <= Len(p) /\ n <= Len(q)
      /\ \A i \in 1..n : p[i] = q[i]
    BY DEF Alike
<1>b. Declares(f, old, p) /\ Declares(g, new, q)
    BY DEF Alike
<1>c. \A i \in 0..(n - 1) : Agree(old, new, SubSeq(p, 1, i))
    BY DEF Alike
<1>. DEFINE S == {i \in 0..n : f[i] # g[i]}
<1>1. SUFFICES ASSUME S # {}
               PROVE  FALSE
    BY <1>a, n \in 0..n
<1>2. PICK i \in S : \A j \in S : i <= j
    <2>1. S \subseteq Nat
        BY <1>a
    <2>. HIDE DEF S
    <2>. QED
        BY <1>1, <2>1, LeastNumber
<1>3. i \in 0..n /\ f[i] # g[i] /\ Len(p) \in Nat /\ Len(q) \in Nat
    BY <1>a DEF Paths
<1>4. i # 0
    BY <1>3, <1>a, <1>b DEF Declares
<1>5. i \in 1..n /\ i - 1 \in 0..(n - 1) /\ i - 1 \in 0..n /\ ~(i <= i - 1) /\ i \in 0..Len(p) /\ i \in 0..Len(q)
    BY <1>3, <1>4, <1>a
<1>6. f[i - 1] = g[i - 1]
    <2>1. i - 1 \notin S
        <3>. HIDE DEF S
        <3>. QED
            BY <1>2, <1>5
    <2>. QED
        BY <1>5, <2>1
<1>7. SubSeq(p, 1, i - 1) = SubSeq(q, 1, i - 1)
    BY <1>5, <1>a DEF Paths
<1>8. /\ f[i] = Below(old, f[i - 1], SubSeq(p, 1, i - 1), p[i])
      /\ g[i] = Below(new, g[i - 1], SubSeq(q, 1, i - 1), q[i])
    BY <1>4, <1>5, <1>b DEF Declares
<1>9. Agree(old, new, SubSeq(p, 1, i - 1)) /\ p[i] = q[i]
    BY <1>5, <1>a, <1>c
<1>10. \A d, r, x : Agree(old, new, r) => Below(old, d, r, x) = Below(new, d, r, x)
    BY DEF Agree, Below, ClassAt
<1>. QED
    BY <1>3, <1>6, <1>7, <1>8, <1>9, <1>10

\* The entry of a table that a name stands for.
LEMMA MemberNamedIs ==
    ASSUME NEW class \in DOMAIN Classes, NEW i \in DOMAIN Classes[class]
    PROVE  MemberNamed(class, Classes[class][i].name) =
             [kind |-> Classes[class][i].kind, class |-> Classes[class][i].class]
<1>. DEFINE name == Classes[class][i].name
            j == CHOOSE k \in DOMAIN Classes[class] : Classes[class][k].name = name
<1>1. j \in DOMAIN Classes[class] /\ Classes[class][j].name = name
    OBVIOUS
<1>2. j = i
    BY <1>1, TableAssumption
<1>3. MemberNamed(class, name) = [kind |-> Classes[class][j].kind, class |-> Classes[class][j].class]
    BY DEF MemberNamed
<1>. QED
    BY <1>2, <1>3

LEMMA AgreeRefl ==
    ASSUME NEW objs, NEW p
    PROVE  Agree(objs, objs, p)
BY DEF Agree

LEMMA DeclaredRoot ==
    ASSUME NEW objs
    PROVE  Declared(objs, <<>>) = Root
<1>1. Len(<<>>) = 0
    OBVIOUS
<1>2. PICK f : Declares(f, objs, <<>>) /\ Declared(objs, <<>>) = f[Len(<<>>)]
    BY <1>1, DeclaredExists
<1>. QED
    BY <1>1, <1>2 DEF Declares

LEMMA DeclaredBelow ==
    ASSUME NEW objs, NEW p \in Paths, NEW x \in STRING
    PROVE  Declared(objs, Append(p, x)) = Below(objs, Declared(objs, p), p, x)
<1>. DEFINE q == Append(p, x)
            n == Len(p)
<1>1. /\ q \in Paths /\ n \in Nat /\ Len(q) = n + 1 /\ q[n + 1] = x
      /\ \A i \in 1..n : q[i] = p[i]
    <2>1. Len(p) \in Nat
        BY DEF Paths
    <2>2. /\ q \in Places /\ Len(q) = n + 1 /\ q[n + 1] = x
          /\ \A i \in 1..n : q[i] = p[i]
        BY StepDown
    <2>. QED
        BY <2>1, <2>2 DEF Places
<1>2. SubSeq(q, 1, n) = p
    BY <1>1 DEF Paths
<1>. HIDE DEF q, n
<1>3. PICK f : Declares(f, objs, q) /\ Declared(objs, q) = f[n + 1]
    BY <1>1, DeclaredExists
<1>4. PICK g : Declares(g, objs, p) /\ Declared(objs, p) = g[n]
    BY <1>1, DeclaredExists DEF n
<1>5. f[n] = g[n]
    <2>1. n <= Len(p) /\ n <= Len(q)
        BY <1>1 DEF n
    <2>2. \A i \in 0..(n - 1) : Agree(objs, objs, SubSeq(q, 1, i))
        BY AgreeRefl
    <2>3. q \in Paths /\ p \in Paths /\ n \in Nat
        BY <1>1
    <2>4. Declares(f, objs, q) /\ Declares(g, objs, p)
        BY <1>3, <1>4
    <2>5. \A i \in 1..n : q[i] = p[i]
        BY <1>1
    <2>6. Alike(objs, objs, q, p, f, g, n)
        BY ONLY <2>1, <2>2, <2>3, <2>4, <2>5 DEF Alike
    <2>. QED
        BY ONLY <2>6, DeclaredSame
<1>6. f[n + 1] = Below(objs, f[n], SubSeq(q, 1, n), q[n + 1])
    <2>1. n + 1 \in 0..Len(q) /\ n + 1 # 0 /\ (n + 1) - 1 = n
        BY <1>1
    <2>2. f[n + 1] = Below(objs, f[(n + 1) - 1], SubSeq(q, 1, (n + 1) - 1), q[n + 1])
        BY <1>3, <2>1 DEF Declares
    <2>. QED
        BY <2>1, <2>2
<1>. QED
    BY <1>1, <1>2, <1>3, <1>4, <1>5, <1>6 DEF q

LEMMA DeclaredKept ==
    ASSUME NEW old, TreeSound(old), NEW new, TreeSound(new), NEW p \in Paths,
           \A r \in Places : IsPrefix(r, p) /\ r # p => Agree(old, new, r)
    PROVE  Declared(new, p) = Declared(old, p)
<1>1. Len(p) \in Nat
    BY DEF Paths
<1>2. PICK f : Declares(f, old, p) /\ Declared(old, p) = f[Len(p)]
    BY <1>1, DeclaredExists
<1>3. PICK g : Declares(g, new, p) /\ Declared(new, p) = g[Len(p)]
    BY <1>1, DeclaredExists
<1>4. ASSUME NEW i \in 0..(Len(p) - 1)
      PROVE  Agree(old, new, SubSeq(p, 1, i))
    <2>. DEFINE r == SubSeq(p, 1, i)
    <2>1. r \in Paths /\ Len(r) = i /\ \A j \in 1..i : r[j] = p[j]
        BY <1>1 DEF Paths
    <2>. HIDE DEF r
    <2>2. IsPrefix(r, p) /\ r # p
        <3>1. Len(r) <= Len(p) /\ Len(r) # Len(p)
            BY <1>1, <2>1
        <3>. QED
            BY <2>1, <3>1, PrefixAt
    <2>3. CASE r \in Places
        BY <2>2, <2>3 DEF r
    <2>4. CASE r = <<>>
        <3>1. ~Holds(old, <<>>) /\ ~Holds(new, <<>>)
            BY SoundSays DEF Holds, Places
        <3>. QED
            BY <2>4, <3>1 DEF r, Agree
    <2>. QED
        BY <2>1, <2>3, <2>4 DEF r, Places
<1>5. Len(p) <= Len(p) /\ \A i \in 1..Len(p) : p[i] = p[i]
    BY <1>1
<1>6. \A i \in 0..(Len(p) - 1) : Agree(old, new, SubSeq(p, 1, i))
    BY <1>4
<1>7. Declares(f, old, p) /\ Declares(g, new, p)
    BY <1>2, <1>3
<1>8. f[Len(p)] = g[Len(p)]
    <2>. DEFINE n == Len(p)
    <2>1. n \in Nat /\ n <= Len(p) /\ \A i \in 1..n : p[i] = p[i]
        BY <1>1
    <2>2. \A i \in 0..(n - 1) : Agree(old, new, SubSeq(p, 1, i))
        BY <1>6
    <2>. HIDE DEF n
    <2>3. Alike(old, new, p, p, f, g, n)
        BY <1>7, <2>1, <2>2 DEF Alike
    <2>4. f[n] = g[n]
        BY ONLY <2>3, DeclaredSame
    <2>. QED
        BY <2>4 DEF n
<1>. QED
    BY <1>2, <1>3, <1>8

-----------------------------------------------------------------------------------
(* Reading one value keeps to what is declared. *)

\* Changes at a place leave what is declared for it and for every place beside it.
LEMMA DeclaredBeside ==
    ASSUME NEW old, TreeSound(old), NEW new, TreeSound(new), NEW place \in Places, OnlyAt(place, old, new),
           NEW q \in Paths, ~IsPrefix(place, q) \/ q = place
    PROVE  Declared(new, q) = Declared(old, q)
<1>1. ASSUME NEW r \in Places, IsPrefix(r, q), r # q
      PROVE  Agree(old, new, r)
    <2>1. ASSUME IsPrefix(place, r)
          PROVE  FALSE
        <3>1. IsPrefix(place, q)
            BY <1>1, <2>1, PrefixTrans DEF Places
        <3>2. Len(r) <= Len(q) /\ Len(q) <= Len(r)
            BY <1>1, <2>1, <3>1, PrefixAt DEF Places
        <3>. QED
            BY <1>1, <3>2, SameLengthPrefix DEF Places, Paths
    <2>. QED
        BY <2>1 DEF OnlyAt, Agree
<1>. QED
    BY <1>1, DeclaredKept

\* What is left when blocks go is declared as it was.
LEMMA ShedTyped ==
    ASSUME NEW old, TreeSound(old), NEW new, TreeSound(new), WellTyped(old), Sheds(old, new)
    PROVE  WellTyped(new)
<1>. SUFFICES ASSUME NEW q \in DOMAIN new.memory
              PROVE  BlockTyped(Declared(new, q), new.memory[q])
    BY DEF WellTyped
<1>1. q \in Paths /\ q \in DOMAIN old.memory /\ new.memory[q] = old.memory[q]
    BY SoundSays DEF Sheds, Holds, Places
<1>2. ASSUME NEW r \in Places, IsPrefix(r, q)
      PROVE  Agree(old, new, r)
    <2>1. ~Vacant(new, r)
        BY <1>2 DEF Vacant
    <2>. QED
        BY <2>1 DEF Sheds, Agree, Holds
<1>3. Declared(new, q) = Declared(old, q)
    BY <1>1, <1>2, DeclaredKept
<1>. QED
    BY <1>1, <1>3 DEF WellTyped

\* A block of the declared type may come where nothing was.
LEMMA PlacedTyped ==
    ASSUME NEW old, TreeSound(old), NEW new, TreeSound(new), WellTyped(old),
           NEW place \in Places, OnlyAt(place, old, new),
           \A q \in DOMAIN new.memory :
              IsPrefix(place, q) => q = place /\ BlockTyped(Declared(old, place), new.memory[place])
    PROVE  WellTyped(new)
<1>. SUFFICES ASSUME NEW q \in DOMAIN new.memory
              PROVE  BlockTyped(Declared(new, q), new.memory[q])
    BY DEF WellTyped
<1>1. q \in Paths /\ q \in Places
    BY SoundSays DEF Places
<1>2. ~IsPrefix(place, q) \/ q = place
    OBVIOUS
<1>3. Declared(new, q) = Declared(old, q)
    BY <1>1, <1>2, DeclaredBeside
<1>4. CASE IsPrefix(place, q)
    BY <1>3, <1>4
<1>5. CASE ~IsPrefix(place, q)
    <2>1. q \in DOMAIN old.memory /\ new.memory[q] = old.memory[q]
        BY <1>1, <1>5 DEF OnlyAt, Holds
    <2>. QED
        BY <1>3, <2>1 DEF WellTyped
<1>. QED
    BY <1>4, <1>5

\* A place is read as what it is declared to be.
Fits(objs, at) ==
    LET declared == Declared(objs, at.place)
    IN  declared.kind = at.kind /\ (at.kind = <<"Object">> => declared.class = at.inline)

ReadTyped(r) == WellTyped(r.tree) /\ \A i \in DOMAIN r.open : FrameTyped(r.open[i], r.tree)

LEMMA DoneTyped ==
    ASSUME NEW new, WellTyped(new)
    PROVE  ReadTyped(Done(new)) /\ ReadTyped(Failed(new))
BY DEF ReadTyped, Done, Failed

LEMMA OpensTyped ==
    ASSUME NEW new, WellTyped(new), NEW frame, FrameTyped(frame, new)
    PROVE  ReadTyped(Opens(new, frame))
BY DEF ReadTyped, Opens

\* The object that read() opens is of the class that its place says.
LEMMA ReadObjectTyped ==
    ASSUME NEW objs, TreeSound(objs), WellTyped(objs), NEW place \in Places, NEW class \in DOMAIN Classes,
           NEW depth, NEW token,
           Head(Declared(objs, place).kind) \in {"Object", "ObjectPtr"},
           ClassAt(objs, Declared(objs, place), place) = class
    PROVE  ReadTyped(ReadObject(objs, place, class, depth, token))
<1>. DEFINE new == Cleared(objs, place, class)
            frame == ObjectFrame(place, class, depth, token.count)
<1>1. TreeSound(new) /\ OnlyUnder(place, objs, new) /\ Sheds(objs, new)
    BY ClearedSound DEF Places
<1>. HIDE DEF new
<1>2. WellTyped(new)
    BY <1>1, ShedTyped
<1>3. Declared(new, place) = Declared(objs, place)
    BY <1>1, OnlyUnderAt, DeclaredBeside DEF Places
<1>4. Agree(objs, new, place)
    BY <1>1 DEF OnlyUnder, Agree
<1>5. ClassAt(new, Declared(new, place), place) = class
    BY <1>3, <1>4 DEF ClassAt, Agree
<1>6. FrameTyped(frame, new)
    BY <1>3, <1>5 DEF FrameTyped, ObjectFrame
<1>. HIDE DEF frame
<1>7. ReadTyped(Opens(new, frame)) /\ ReadTyped(Failed(objs))
    BY <1>2, <1>6, OpensTyped, DoneTyped
<1>. QED
    BY <1>7 DEF ReadObject, new, frame

LEMMA SameTyped ==
    ASSUME NEW old, TreeSound(old), NEW new, TreeSound(new), WellTyped(old), new.memory = old.memory
    PROVE  WellTyped(new)
BY ShedTyped DEF Sheds, Holds

LEMMA MadeTyped ==
    ASSUME NEW objs, TreeSound(objs), WellTyped(objs), NEW at, Readable(objs, at), Vacant(objs, at.place),
           NEW what, BlockTyped(Declared(objs, at.place), what)
    PROVE  WellTyped(OwnIf(at.member, Allocate(objs, at.place, what), at.place))
<1>. DEFINE made == OwnIf(at.member, Allocate(objs, at.place, what), at.place)
<1>1. /\ TreeSound(made) /\ OnlyAt(at.place, objs, made) /\ made.memory[at.place] = what
      /\ DOMAIN made.memory = DOMAIN objs.memory \cup {at.place} /\ at.place \in Places
    BY MakeSound DEF Readable
<1>. HIDE DEF made
<1>2. \A q \in DOMAIN made.memory : IsPrefix(at.place, q) => q = at.place
    BY <1>1 DEF Vacant
<1>3. WellTyped(made)
    BY <1>1, <1>2, PlacedTyped
<1>. QED
    BY <1>3 DEF made

LEMMA ReadScalarTyped ==
    ASSUME NEW objs, TreeSound(objs), WellTyped(objs), NEW at, NEW token
    PROVE  ReadTyped(ReadScalar(objs, at, token))
<1>1. ASSUME NEW present
      PROVE  ReadTyped(Done([objs EXCEPT !.present = present]))
    BY PresentSound, SameTyped, DoneTyped
<1>2. ReadTyped(Failed(objs))
    BY DoneTyped
<1>. QED
    BY <1>1, <1>2 DEF ReadScalar

LEMMA ReadStringTyped ==
    ASSUME NEW objs, TreeSound(objs), WellTyped(objs), NEW at, Readable(objs, at), Vacant(objs, at.place),
           Fits(objs, at), Head(at.kind) = "String", NEW token
    PROVE  ReadTyped(ReadString(objs, at, token))
<1>1. SetNull(objs, at.place) = objs
    BY PrefixRefl, SetNullVacant DEF Readable, Vacant, Holds, Places
<1>2. WellTyped(OwnIf(at.member, objs, at.place))
    BY OwnIfSound, SameTyped
<1>3. \A what : BlockTyped(Declared(objs, at.place), what)
    BY DEF Fits, BlockTyped
<1>4. WellTyped(OwnIf(at.member, Allocate(objs, at.place, token.text), at.place))
    BY <1>3, MadeTyped
<1>. QED
    BY <1>1, <1>2, <1>4, DoneTyped DEF ReadString

LEMMA ReadPointerTyped ==
    ASSUME NEW objs, TreeSound(objs), WellTyped(objs), NEW at, Readable(objs, at), Vacant(objs, at.place),
           Fits(objs, at), Head(at.kind) = "ObjectPtr",
           NEW class \in (DOMAIN Classes \ {"Message"}) \cup {Null}, NEW token
    PROVE  ReadTyped(ReadPointer(objs, at, class, token))
<1>. DEFINE r == ReadPointer(objs, at, class, token)
            made == OwnIf(at.member, Allocate(objs, at.place, class), at.place)
            nulled == IF at.member THEN SetNull(objs, at.place) ELSE objs
<1>1. nulled = objs
    BY PrefixRefl, SetNullVacant DEF Readable, Vacant, Holds, Places
<1>2. CASE token.kind = "nil"
    <2>1. r = Done(nulled)
        BY <1>2 DEF ReadPointer
    <2>. QED
        BY <1>1, <2>1, DoneTyped
<1>3. CASE token.kind # "nil" /\ class = Null
    <2>1. r = Failed(objs)
        BY <1>3 DEF ReadPointer
    <2>. QED
        BY <2>1, DoneTyped
<1>4. CASE token.kind # "nil" /\ class # Null
    <2>1. r = ReadObject(made, at.place, class, at.depth, token)
        BY <1>4 DEF ReadPointer
    <2>2. /\ TreeSound(made) /\ OnlyAt(at.place, objs, made)
          /\ Holds(made, at.place) /\ made.memory[at.place] = class
        BY MakeSound
    <2>3. at.place \in Places /\ class \in DOMAIN Classes
        BY <1>4 DEF Readable
    <2>4. WellTyped(made)
        <3>1. BlockTyped(Declared(objs, at.place), class)
            BY <2>3 DEF Fits, BlockTyped
        <3>. QED
            BY <3>1, MadeTyped
    <2>. HIDE DEF r, made
    <2>5. Declared(made, at.place) = Declared(objs, at.place)
        BY <2>2, <2>3, DeclaredBeside DEF Places
    <2>6. /\ Head(Declared(made, at.place).kind) = "ObjectPtr"
          /\ ClassAt(made, Declared(made, at.place), at.place) = class
        BY <2>2, <2>5 DEF Fits, ClassAt
    <2>7. ReadTyped(r)
        BY <2>1, <2>2, <2>3, <2>4, <2>6, ReadObjectTyped
    <2>. QED
        BY <2>7 DEF r
<1>. QED
    BY <1>2, <1>3, <1>4

LEMMA ReadArrayTyped ==
    ASSUME NEW objs, TreeSound(objs), WellTyped(objs), NEW at, Readable(objs, at), Vacant(objs, at.place),
           Fits(objs, at), Head(at.kind) = "Array", NEW token, TokenSound(token)
    PROVE  ReadTyped(ReadArray(objs, at, token))
<1>. DEFINE r == ReadArray(objs, at, token)
            held == OwnIf(at.member, objs, at.place)
            new == IF token.count = 0 THEN SetNull(held, at.place) ELSE Allocate(held, at.place, token.count)
            made == OwnIf(at.member, Allocate(objs, at.place, token.count), at.place)
            frame == ArrayFrame(at, token.count)
<1>1. TreeSound(held) /\ OnlyAt(at.place, objs, held) /\ held.memory = objs.memory
    BY OwnIfSound
<1>. HIDE DEF held
<1>2. SetNull(held, at.place) = held
    BY <1>1, PrefixRefl, SetNullVacant DEF Readable, Vacant, Holds, Places
<1>3. WellTyped(held)
    BY <1>1, SameTyped
<1>4. CASE at.depth <= MaxDepth /\ token.kind = "array"
    <2>1. r = Opens(new, frame)
        BY <1>4, LimitAssumption DEF ReadArray, Readable, held
    <2>2. TreeSound(new) /\ OnlyAt(at.place, objs, new) /\ WellTyped(new)
        <3>1. CASE token.count = 0
            BY <1>1, <1>2, <1>3, <3>1
        <3>2. CASE token.count # 0
            <4>1. new = made
                BY <3>2, MakeSound DEF held
            <4>2. TreeSound(made) /\ OnlyAt(at.place, objs, made)
                BY MakeSound
            <4>3. BlockTyped(Declared(objs, at.place), token.count)
                BY <1>4 DEF TokenSound, Fits, BlockTyped
            <4>4. WellTyped(made)
                BY <4>3, MadeTyped
            <4>. HIDE DEF new, made
            <4>. QED
                BY <4>1, <4>2, <4>4
        <3>. QED
            BY <3>1, <3>2
    <2>. HIDE DEF new
    <2>3. at.place \in Places
        BY DEF Readable
    <2>4. Declared(new, at.place) = Declared(objs, at.place)
        BY <2>2, <2>3, DeclaredBeside DEF Places
    <2>5. FrameTyped(frame, new)
        BY <2>4 DEF FrameTyped, ArrayFrame, Fits
    <2>. HIDE DEF r, frame
    <2>. QED
        BY <2>1, <2>2, <2>5, OpensTyped DEF r
<1>5. CASE ~(at.depth <= MaxDepth /\ token.kind = "array")
    <2>1. r \in {Failed(held), Done(SetNull(held, at.place))}
        BY <1>5, LimitAssumption DEF ReadArray, Readable, held
    <2>. QED
        BY <1>2, <1>3, <2>1, DoneTyped
<1>. QED
    BY <1>4, <1>5

\* Whatever is read, every block is of the type that is declared for it.
LEMMA ReadValueTyped ==
    ASSUME NEW objs, TreeSound(objs), WellTyped(objs), NEW at, Readable(objs, at), Fits(objs, at),
           NEW class \in (DOMAIN Classes \ {"Message"}) \cup {Null}, NEW token, TokenSound(token)
    PROVE  ReadTyped(ReadValue(objs, at, class, token))
<1>. DEFINE r == ReadValue(objs, at, class, token)
            before == IF at.member THEN Release(objs, at.place) ELSE objs
<1>1. /\ TreeSound(before) /\ OnlyAt(at.place, objs, before) /\ Readable(before, at)
      /\ at.kind # <<"Object">> => Vacant(before, at.place)
    BY BeforeReading
<1>2. WellTyped(before)
    <2>1. Sheds(objs, Release(objs, at.place)) /\ TreeSound(Release(objs, at.place))
        BY ReleaseSound DEF Readable
    <2>2. WellTyped(Release(objs, at.place))
        BY <2>1, ShedTyped
    <2>. QED
        BY <2>2
<1>3. at.place \in Places /\ IsKind(at.kind)
    BY DEF Readable
<1>4. /\ Head(at.kind) \in CppTypes
      /\ Head(at.kind) = "Object" => at.kind = <<"Object">>
      /\ at.kind = <<"Object">> => Head(at.kind) = "Object"
    BY <1>3, HeadOfKind
<1>. HIDE DEF before
<1>5. Declared(before, at.place) = Declared(objs, at.place)
    BY <1>1, <1>3, DeclaredBeside DEF Places
<1>6. Fits(before, at)
    BY <1>5 DEF Fits
<1>7. r = CASE Head(at.kind) \in {"Number", "Bool"} -> ReadScalar(before, at, token)
          [] Head(at.kind) = "String" -> ReadString(before, at, token)
          [] Head(at.kind) = "Object" -> IF token.kind = "nil" THEN Done(before)
                                         ELSE ReadObject(before, at.place, at.inline, at.depth, token)
          [] Head(at.kind) = "ObjectPtr" -> ReadPointer(before, at, class, token)
          [] Head(at.kind) = "Array" -> ReadArray(before, at, token)
    BY DEF ReadValue, before
<1>. HIDE DEF r
<1>8. CASE Head(at.kind) \in {"Number", "Bool"}
    BY <1>1, <1>2, <1>7, <1>8, ReadScalarTyped DEF r
<1>9. CASE Head(at.kind) = "String"
    <2>1. r = ReadString(before, at, token) /\ at.kind # <<"Object">>
        BY <1>4, <1>7, <1>9
    <2>. QED
        BY <1>1, <1>2, <1>6, <1>9, <2>1, ReadStringTyped DEF r
<1>10. CASE Head(at.kind) = "Object"
    <2>1. r = IF token.kind = "nil" THEN Done(before) ELSE ReadObject(before, at.place, at.inline, at.depth, token)
        BY <1>7, <1>10
    <2>2. at.inline \in DOMAIN Classes
        BY <1>4, <1>10 DEF Readable
    <2>3. /\ Head(Declared(before, at.place).kind) = "Object"
          /\ ClassAt(before, Declared(before, at.place), at.place) = at.inline
        BY <1>4, <1>6, <1>10 DEF Fits, ClassAt
    <2>4. ReadTyped(ReadObject(before, at.place, at.inline, at.depth, token))
        BY <1>1, <1>2, <1>3, <2>2, <2>3, ReadObjectTyped
    <2>. QED
        BY <1>2, <2>1, <2>4, DoneTyped DEF r
<1>11. CASE Head(at.kind) = "ObjectPtr"
    <2>1. r = ReadPointer(before, at, class, token) /\ at.kind # <<"Object">>
        BY <1>4, <1>7, <1>11
    <2>. QED
        BY <1>1, <1>2, <1>6, <1>11, <2>1, ReadPointerTyped DEF r
<1>12. CASE Head(at.kind) = "Array"
    <2>1. r = ReadArray(before, at, token) /\ at.kind # <<"Object">>
        BY <1>4, <1>7, <1>12
    <2>. QED
        BY <1>1, <1>2, <1>6, <1>12, <2>1, ReadArrayTyped DEF r
<1>. QED
    BY <1>4, <1>8, <1>9, <1>10, <1>11, <1>12 DEF CppTypes

-----------------------------------------------------------------------------------
(* Writing. *)

\* A token that stands for the value of a place of some depth.
Awaits(objs, depth, token) ==
    /\ token.place \in Places /\ Len(token.place) = depth /\ depth <= MaxDepth + 1
    /\ Declared(objs, token.place) = [kind |-> token.as, class |-> token.class]
    /\ IsKind(token.as) /\ (token.as = <<"Object">> => token.class \in DOMAIN Classes)

Written(objs, depth, token) ==
    /\ token.kind \in {"map", "array", "key", "scalar", "error", "pending"}
    /\ token.kind = "error" => token = TooBig
    /\ token.kind = "pending" => Awaits(objs, depth, token)

\* One value, but for what it still awaits at a depth.
OneWritten(objs, depth, tokens) ==
    Run(tokens, 1, 0) /\ \A i \in 1..Len(tokens) : Written(objs, depth, tokens[i])

LEMMA LeafWritten ==
    ASSUME NEW objs, NEW depth, NEW token, token.kind \in {"scalar", "error"}, token.kind = "error" => token = TooBig
    PROVE  OneWritten(objs, depth, <<token>>)
<1>1. Needs(token) = 0
    BY DEF Needs
<1>2. Run(<<token>>, 0 + 1, 0 + Needs(token))
    BY <1>1, OneToken
<1>. QED
    BY <1>1, <1>2 DEF OneWritten, Written

\* The counting pass of write() and the writing pass ask the same of every member.
LEMMA ObjectWritten ==
    ASSUME NEW objs, NEW place \in Paths, NEW class \in DOMAIN Classes,
           Head(Declared(objs, place).kind) # "Array", ClassAt(objs, Declared(objs, place), place) = class
    PROVE  OneWritten(objs, Len(place) + 1, WriteObject(objs, place, class))
<1>. DEFINE N == Len(Classes[class])
            at(i) == Append(place, Classes[class][i].name)
            W == {i \in 1..N : ShouldWrite(objs, at(i), Classes[class][i])}
            pending(i) == Pending(at(i), Classes[class][i].kind, Classes[class][i].class)
            part(i) == When(i \in W, Pair(Classes[class][i].name, <<pending(i)>>))
            parts == [i \in 1..N |-> part(i)]
            rank == [i \in 0..N |-> Ahead(W, i)]
            due == [i \in 0..N |-> 2 * rank[i]]
            count == Cardinality(W)
            tokens == <<Map(count)>> \o FlattenSeq(parts)
<1>1. N \in Nat /\ DOMAIN Classes[class] = 1..N /\ Len(place) \in Nat
    BY TableAssumption DEF Paths
<1>2. CASE Len(place) > MaxDepth
    <2>1. WriteObject(objs, place, class) = <<TooBig>> /\ TooBig.kind = "error"
        BY <1>2 DEF WriteObject, TooBig
    <2>. QED
        BY <2>1, LeafWritten
<1>3. CASE Len(place) <= MaxDepth
    <2>1. WriteObject(objs, place, class) = tokens
        <3>1. MemberCount(objs, place, class) = count
            BY <1>1 DEF MemberCount
        <3>2. [i \in DOMAIN Classes[class] |->
                 LET m == Classes[class][i]
                     q == Append(place, m.name)
                 IN  When(ShouldWrite(objs, q, m), Pair(m.name, <<Pending(q, m.kind, m.class)>>))] = parts
            BY <1>1 DEF When
        <3>3. ~(Len(place) > MaxDepth)
            BY <1>1, <1>3, LimitAssumption
        <3>. HIDE DEF parts, count
        <3>. QED
            BY <3>1, <3>2, <3>3 DEF WriteObject
    <2>2. /\ rank \in [0..N -> Nat] /\ rank[0] = count /\ rank[N] = 0
          /\ \A i \in 1..N : rank[i - 1] = IF i \in W THEN rank[i] + 1 ELSE rank[i]
        <3>1. W \subseteq 1..N
            OBVIOUS
        <3>. HIDE DEF W
        <3>2. /\ \A i \in 0..N : Ahead(W, i) \in Nat
              /\ Ahead(W, 0) = count /\ Ahead(W, N) = 0
              /\ \A i \in 1..N : Ahead(W, i - 1) = IF i \in W THEN Ahead(W, i) + 1 ELSE Ahead(W, i)
            <4>1. N \in Nat
                BY <1>1
            <4>. HIDE DEF N, rank, due, part, parts, pending, at
            <4>. QED
                BY <3>1, <4>1, StillToCome
        <3>3. 0 \in 0..N /\ N \in 0..N /\ \A i \in 1..N : i \in 0..N /\ i - 1 \in 0..N
            BY <1>1
        <3>. QED
            BY <3>2, <3>3
    <2>3. ASSUME NEW i \in 1..N
          PROVE  Written(objs, Len(place) + 1, pending(i)) /\ pending(i).kind = "pending" /\ at(i) \in Places
        <3>. DEFINE m == Classes[class][i]
        <3>1. i \in DOMAIN Classes[class] /\ m \in {Classes[class][j] : j \in DOMAIN Classes[class]}
            BY <1>1
        <3>2. m.name \in STRING /\ IsKind(m.kind) /\ (m.kind = <<"Object">> => m.class \in DOMAIN Classes)
            BY <3>1, MemberIs
        <3>3. at(i) \in Places /\ Len(at(i)) = Len(place) + 1
            BY <3>2, StepDown
        <3>4. Declared(objs, at(i)) = Below(objs, Declared(objs, place), place, m.name)
            BY <3>2, DeclaredBelow
        <3>5. Below(objs, Declared(objs, place), place, m.name) = [kind |-> m.kind, class |-> m.class]
            BY <3>1, MemberNamedIs DEF Below
        <3>6. /\ pending(i).kind = "pending" /\ pending(i).place = at(i)
              /\ pending(i).as = m.kind /\ pending(i).class = m.class
            BY DEF Pending
        <3>7. Len(place) + 1 <= MaxDepth + 1
            BY <1>1, <1>3, LimitAssumption
        <3>. HIDE DEF at, m, pending
        <3>. QED
            BY <3>2, <3>3, <3>4, <3>5, <3>6, <3>7 DEF Written, Awaits
    <2>4. ASSUME NEW i \in 1..N
          PROVE  Run(part(i), due[i - 1], due[i])
        <3>1. /\ due[i - 1] = 2 * rank[i - 1] /\ due[i] = 2 * rank[i] /\ rank[i] \in Nat
            <4>1. i \in 0..N /\ i - 1 \in 0..N
                BY <1>1
            <4>. HIDE DEF rank
            <4>. QED
                BY <2>2, <4>1
        <3>2. CASE i \in W
            <4>1. due[i - 1] = 2 + due[i] /\ due[i] \in Nat
                <5>1. rank[i - 1] = rank[i] + 1
                    BY <2>2, <3>2
                <5>. HIDE DEF due, rank
                <5>. QED
                    BY <3>1, <5>1
            <4>2. Run(<<pending(i)>>, 0 + 1, 0 + Needs(pending(i))) /\ Needs(pending(i)) = 0
                <5>1. Needs(pending(i)) = 0
                    BY <2>3 DEF Needs
                <5>. HIDE DEF pending
                <5>. QED
                    BY <5>1, OneToken
            <4>3. part(i) = Pair(Classes[class][i].name, <<pending(i)>>)
                BY <3>2 DEF When
            <4>. HIDE DEF pending, due, part
            <4>4. Run(part(i), 2, 0)
                BY <4>2, <4>3, PairRun
            <4>5. Run(part(i), 2 + due[i], 0 + due[i])
                BY <4>1, <4>4, MoreDue
            <4>. QED
                BY <4>1, <4>5
        <3>3. CASE i \notin W
            <4>1. due[i - 1] = due[i] /\ due[i] \in Nat
                <5>1. rank[i - 1] = rank[i]
                    BY <2>2, <3>3
                <5>. HIDE DEF due, rank
                <5>. QED
                    BY <3>1, <5>1
            <4>2. part(i) = <<>>
                BY <3>3 DEF When
            <4>. HIDE DEF due, part
            <4>. QED
                BY <4>1, <4>2, NoTokens
        <3>. QED
            BY <3>2, <3>3
    <2>5. Len(parts) = N /\ IsSeq(parts) /\ \A i \in 1..N : parts[i] = part(i)
        <3>1. parts \in [1..N -> {part(i) : i \in 1..N}]
            OBVIOUS
        <3>2. parts \in Seq({part(i) : i \in 1..N}) /\ Len(parts) = N
            <4>. HIDE DEF parts, part
            <4>. QED
                BY <1>1, <3>1
        <3>. QED
            BY <3>2 DEF IsSeq
    <2>6. due \in [0..N -> Nat] /\ due[0] = 2 * count /\ due[N] = 0
        <3>1. 0 \in 0..N /\ N \in 0..N
            BY <1>1
        <3>. HIDE DEF rank, count
        <3>2. \A i \in 0..N : 2 * rank[i] \in Nat
            BY <2>2
        <3>. QED
            BY <2>2, <3>1, <3>2
    <2>7. Run(FlattenSeq(parts), 2 * count, 0)
        <3>. HIDE DEF parts, due, part, count
        <3>1. \A i \in 1..Len(parts) : Run(parts[i], due[i - 1], due[i])
            BY <2>4, <2>5
        <3>2. Run(FlattenSeq(parts), due[0], due[Len(parts)])
            BY <2>5, <2>6, <3>1, FlattenRuns
        <3>. QED
            BY <2>5, <2>6, <3>2
    <2>8. Run(tokens, 1, 0)
        <3>1. count \in Nat
            <4>1. 0 \in 0..N
                BY <1>1
            <4>. HIDE DEF rank, count
            <4>. QED
                BY <2>2, <4>1
        <3>. HIDE DEF count
        <3>2. Needs(Map(count)) = 2 * count /\ 2 * count \in Nat
            BY <3>1 DEF Needs, Map
        <3>. HIDE DEF parts
        <3>. QED
            BY <2>7, <3>2, HeadedRun
    <2>9. \A i \in 1..Len(tokens) : Written(objs, Len(place) + 1, tokens[i])
        <3>. DEFINE S == {Key(Classes[class][i].name) : i \in 1..N} \cup {pending(i) : i \in 1..N}
        <3>1. ASSUME NEW i \in 1..N
              PROVE  part(i) \in Seq(S)
            <4>1. Key(Classes[class][i].name) \in S /\ pending(i) \in S
                OBVIOUS
            <4>. HIDE DEF S, pending
            <4>2. <<Key(Classes[class][i].name)>> \in Seq(S) /\ <<pending(i)>> \in Seq(S) /\ <<>> \in Seq(S)
                BY <4>1
            <4>3. Pair(Classes[class][i].name, <<pending(i)>>) \in Seq(S)
                BY <4>2, ConcatProperties DEF Pair
            <4>. QED
                BY <4>2, <4>3 DEF When
        <3>2. FlattenSeq(parts) \in Seq(S)
            <4>. HIDE DEF S, parts, part
            <4>. QED
                BY <2>5, <3>1, FlattenIn
        <3>3. \A t \in S \cup {Map(count)} : Written(objs, Len(place) + 1, t)
            BY <2>3 DEF Written, Key, Map
        <3>. HIDE DEF S
        <3>4. tokens \in Seq(S \cup {Map(count)})
            <4>1. <<Map(count)>> \in Seq(S \cup {Map(count)})
                OBVIOUS
            <4>. HIDE DEF parts, count
            <4>2. FlattenSeq(parts) \in Seq(S \cup {Map(count)})
                <5>. DEFINE flat == FlattenSeq(parts)
                <5>. HIDE DEF flat
                <5>1. flat \in Seq(S)
                    BY <3>2 DEF flat
                <5>2. flat \in Seq(S \cup {Map(count)})
                    BY <5>1
                <5>. QED
                    BY <5>2 DEF flat
            <4>. QED
                BY <4>1, <4>2, ConcatProperties
        <3>. HIDE DEF tokens, count
        <3>. QED
            BY <3>3, <3>4
    <2>. HIDE DEF tokens
    <2>. QED
        BY <2>1, <2>8, <2>9 DEF OneWritten
<1>. QED
    BY <1>1, <1>2, <1>3, LimitAssumption

LEMMA ArrayWritten ==
    ASSUME NEW objs, WellTyped(objs), NEW place \in Places, NEW kind, IsKind(kind), Head(kind) = "Array", NEW class,
           Declared(objs, place) = [kind |-> kind, class |-> class]
    PROVE  OneWritten(objs, Len(place) + 1, WriteArray(objs, place, Tail(kind), class))
<1>. DEFINE n == objs.memory[place]
            pending(i) == Pending(Append(place, Slot(i)), Tail(kind), class)
            elements == [i \in 1..n |-> pending(i)]
            tokens == <<Array(n)>> \o elements
<1>1. Len(place) \in Nat /\ place \in Paths
    BY DEF Places, Paths
<1>2. CASE Len(place) > MaxDepth
    <2>1. WriteArray(objs, place, Tail(kind), class) = <<TooBig>> /\ TooBig.kind = "error"
        BY <1>2 DEF WriteArray, TooBig
    <2>. QED
        BY <2>1, LeafWritten
<1>3. CASE ~(Len(place) > MaxDepth) /\ ~Holds(objs, place)
    <2>1. WriteArray(objs, place, Tail(kind), class) = <<Nil>> /\ Nil.kind = "scalar"
        BY <1>3 DEF WriteArray, Nil, Scalar
    <2>. QED
        BY <2>1, LeafWritten
<1>4. CASE ~(Len(place) > MaxDepth) /\ Holds(objs, place)
    <2>1. WriteArray(objs, place, Tail(kind), class) = tokens
        BY <1>4 DEF WriteArray
    <2>2. n \in 0..MaxSlots
        BY <1>4 DEF WellTyped, BlockTyped, Holds
    <2>. HIDE DEF n
    <2>3. n \in Nat /\ \A i \in 1..n : i \in 1..MaxSlots
        BY <2>2, LimitAssumption
    <2>4. ASSUME NEW i \in 1..n
          PROVE  Written(objs, Len(place) + 1, pending(i)) /\ Needs(pending(i)) = 0
        <3>. DEFINE q == Append(place, Slot(i))
        <3>1. Slot(i) \in STRING
            BY <2>3, SlotAssumption
        <3>2. q \in Places /\ Len(q) = Len(place) + 1
            BY <1>1, <3>1, StepDown
        <3>3. Declared(objs, q) = Below(objs, Declared(objs, place), place, Slot(i))
            BY <1>1, <3>1, DeclaredBelow
        <3>4. Below(objs, Declared(objs, place), place, Slot(i)) = [kind |-> Tail(kind), class |-> class]
            BY DEF Below
        <3>5. IsKind(Tail(kind)) /\ Tail(kind) # <<"Object">>
            BY KindOfElement, HeadOfKind
        <3>6. /\ pending(i).kind = "pending" /\ pending(i).place = q
              /\ pending(i).as = Tail(kind) /\ pending(i).class = class
            BY DEF Pending
        <3>7. Len(place) + 1 <= MaxDepth + 1
            BY <1>1, <1>4, LimitAssumption
        <3>. HIDE DEF q, pending
        <3>. QED
            BY <3>2, <3>3, <3>4, <3>5, <3>6, <3>7 DEF Written, Awaits, Needs
    <2>5. /\ elements \in Seq({pending(i) : i \in 1..n}) /\ Len(elements) = n
          /\ \A i \in 1..n : elements[i] = pending(i)
        <3>1. elements \in [1..n -> {pending(i) : i \in 1..n}] /\ \A i \in 1..n : elements[i] = pending(i)
            OBVIOUS
        <3>. HIDE DEF elements, pending
        <3>. QED
            BY <2>3, <3>1
    <2>6. Run(elements, n, 0)
        <3>1. IsSeq(elements)
            BY <2>5 DEF IsSeq
        <3>. HIDE DEF elements, pending
        <3>2. \A i \in 1..Len(elements) : Needs(elements[i]) = 0
            BY <2>4, <2>5
        <3>. QED
            BY <2>5, <3>1, <3>2, Leaves
    <2>7. Run(tokens, 1, 0)
        <3>1. Needs(Array(n)) = n
            BY DEF Needs, Array
        <3>. HIDE DEF elements
        <3>. QED
            BY <2>3, <2>6, <3>1, HeadedRun
    <2>8. \A i \in 1..Len(tokens) : Written(objs, Len(place) + 1, tokens[i])
        <3>. DEFINE S == {pending(i) : i \in 1..n} \cup {Array(n)}
        <3>1. \A t \in S : Written(objs, Len(place) + 1, t)
            BY <2>4 DEF Written, Array
        <3>2. <<Array(n)>> \in Seq(S)
            OBVIOUS
        <3>. HIDE DEF elements
        <3>3. elements \in Seq(S)
            BY <2>5
        <3>. HIDE DEF S
        <3>4. tokens \in Seq(S)
            BY <3>2, <3>3, ConcatProperties
        <3>. HIDE DEF tokens
        <3>. QED
            BY <3>1, <3>4
    <2>. HIDE DEF tokens
    <2>. QED
        BY <2>1, <2>7, <2>8 DEF OneWritten
<1>. QED
    BY <1>2, <1>3, <1>4

LEMMA ValueWritten ==
    ASSUME NEW objs, WellTyped(objs), NEW place \in Places, NEW kind, IsKind(kind), NEW class,
           kind = <<"Object">> => class \in DOMAIN Classes,
           Declared(objs, place) = [kind |-> kind, class |-> class]
    PROVE  OneWritten(objs, Len(place) + 1, WriteValue(objs, place, kind, class))
<1>. DEFINE tokens == WriteValue(objs, place, kind, class)
            declared == Declared(objs, place)
            depth == Len(place) + 1
<1>1. /\ Head(kind) \in CppTypes /\ (Head(kind) = "Object" => class \in DOMAIN Classes)
      /\ declared.kind = kind /\ declared.class = class /\ place \in Paths
    BY HeadOfKind DEF Places
<1>2. \A name, v : OneWritten(objs, depth, <<Scalar(name, v)>>)
    BY LeafWritten DEF Scalar
<1>3. OneWritten(objs, depth, <<Nil>>)
    BY <1>2 DEF Nil
<1>. HIDE DEF depth
<1>4. CASE Head(kind) \in {"Number", "Bool"}
    <2>1. tokens = <<Scalar(Last(place), place \in objs.present)>>
        BY <1>4 DEF WriteValue
    <2>. HIDE DEF tokens
    <2>2. OneWritten(objs, depth, tokens)
        BY <1>2, <2>1
    <2>. QED
        BY <2>2 DEF tokens, depth
<1>5. CASE Head(kind) = "String"
    <2>1. tokens = IF Holds(objs, place) THEN <<Scalar(Last(place), objs.memory[place])>> ELSE <<Nil>>
        BY <1>5 DEF WriteValue
    <2>. HIDE DEF tokens
    <2>2. OneWritten(objs, depth, tokens)
        BY <1>2, <1>3, <2>1
    <2>. QED
        BY <2>2 DEF tokens, depth
<1>6. CASE Head(kind) = "Object"
    <2>1. tokens = WriteObject(objs, place, class)
        BY <1>6 DEF WriteValue
    <2>2. Head(declared.kind) # "Array" /\ ClassAt(objs, declared, place) = class
        BY <1>1, <1>6 DEF ClassAt
    <2>. QED
        BY <1>1, <1>6, <2>1, <2>2, ObjectWritten DEF depth
<1>7. CASE Head(kind) = "ObjectPtr"
    <2>1. tokens = IF Holds(objs, place) THEN WriteObject(objs, place, objs.memory[place]) ELSE <<Nil>>
        BY <1>7 DEF WriteValue
    <2>2. ASSUME Holds(objs, place)
          PROVE  OneWritten(objs, depth, WriteObject(objs, place, objs.memory[place]))
        <3>1. objs.memory[place] \in DOMAIN Classes
            BY <1>1, <1>7, <2>2 DEF WellTyped, BlockTyped, Holds
        <3>2. Head(declared.kind) # "Array" /\ ClassAt(objs, declared, place) = objs.memory[place]
            BY <1>1, <1>7, <2>2 DEF ClassAt
        <3>. QED
            BY <1>1, <3>1, <3>2, ObjectWritten DEF depth
    <2>. QED
        BY <1>3, <2>1, <2>2 DEF depth
<1>8. CASE Head(kind) = "Array"
    <2>1. tokens = WriteArray(objs, place, Tail(kind), class)
        BY <1>8 DEF WriteValue
    <2>. QED
        BY <1>8, <2>1, ArrayWritten DEF depth
<1>9. Head(kind) \in {"Number", "Bool"} \/ Head(kind) = "String" \/ Head(kind) = "Object"
         \/ Head(kind) = "ObjectPtr" \/ Head(kind) = "Array"
    BY <1>1 DEF CppTypes
<1>. QED
    BY <1>4, <1>5, <1>6, <1>7, <1>8, <1>9

\* What is awaited at a depth written, and what lies below is awaited one deeper.
LEMMA DeeperWritten ==
    ASSUME NEW objs, WellTyped(objs), NEW depth, NEW tokens, OneWritten(objs, depth, tokens)
    PROVE  OneWritten(objs, depth + 1, Deeper(objs, tokens))
<1>. DEFINE N == Len(tokens)
            part(i) == IF tokens[i].kind = "pending"
                       THEN WriteValue(objs, tokens[i].place, tokens[i].as, tokens[i].class)
                       ELSE <<tokens[i]>>
            parts == [i \in 1..N |-> part(i)]
            S == UNION {ToSet(part(i)) : i \in 1..N}
<1>1. Run(tokens, 1, 0) /\ N \in Nat /\ DOMAIN tokens = 1..N /\ \A i \in 1..N : Needs(tokens[i]) \in Nat
    <2>1. Run(tokens, 1, 0)
        BY DEF OneWritten
    <2>2. N \in Nat /\ DOMAIN tokens = 1..N
        BY <2>1 DEF Run, IsSeq
    <2>. QED
        BY <2>1, <2>2 DEF Run, Counts
<1>2. Deeper(objs, tokens) = FlattenSeq(parts)
    BY <1>1 DEF Deeper
<1>3. ASSUME NEW i \in 1..N
      PROVE  /\ Run(part(i), 1, Needs(tokens[i]))
             /\ \A j \in 1..Len(part(i)) : Written(objs, depth + 1, part(i)[j])
    <2>. DEFINE token == tokens[i]
    <2>1. Written(objs, depth, token)
        BY DEF OneWritten
    <2>2. CASE token.kind = "pending"
        <3>1. Awaits(objs, depth, token) /\ Needs(token) = 0
            BY <2>1, <2>2 DEF Written, Needs
        <3>2. part(i) = WriteValue(objs, token.place, token.as, token.class)
            BY <2>2
        <3>. HIDE DEF token, part
        <3>3. OneWritten(objs, depth + 1, part(i))
            BY <3>1, <3>2, ValueWritten DEF Awaits
        <3>. QED
            BY <3>1, <3>3 DEF OneWritten, token
    <2>3. CASE token.kind # "pending"
        <3>1. part(i) = <<token>> /\ Needs(token) \in Nat
            BY <1>1, <2>3
        <3>2. Written(objs, depth + 1, token)
            BY <2>1, <2>3 DEF Written
        <3>. HIDE DEF token, part
        <3>3. Run(<<token>>, 0 + 1, 0 + Needs(token))
            BY <3>1, OneToken
        <3>4. Len(<<token>>) = 1 /\ <<token>>[1] = token
            OBVIOUS
        <3>5. 0 + Needs(token) = Needs(token) /\ 0 + 1 = 1
            BY <3>1
        <3>6. Run(part(i), 1, Needs(token))
            BY <3>1, <3>3, <3>5
        <3>7. \A j \in 1..Len(part(i)) : Written(objs, depth + 1, part(i)[j])
            BY <3>1, <3>2, <3>4
        <3>. QED
            BY <3>6, <3>7 DEF token
    <2>. QED
        BY <2>2, <2>3
<1>. HIDE DEF part
<1>4. Len(parts) = N /\ IsSeq(parts) /\ \A i \in 1..N : parts[i] = part(i)
    <2>1. parts \in [1..N -> {part(i) : i \in 1..N}] /\ \A i \in 1..N : parts[i] = part(i)
        OBVIOUS
    <2>2. parts \in Seq({part(i) : i \in 1..N}) /\ Len(parts) = N
        <3>. HIDE DEF parts
        <3>. QED
            BY <1>1, <2>1
    <2>. QED
        BY <2>1, <2>2 DEF IsSeq
<1>. HIDE DEF parts
<1>5. Run(FlattenSeq(parts), 1, 0)
    <2>1. \A i \in 1..Len(tokens) : Run(parts[i], 1, Needs(tokens[i]))
        BY <1>3, <1>4
    <2>. QED
        BY <1>1, <1>4, <2>1, ReplacedRun
<1>6. FlattenSeq(parts) \in Seq(S)
    <2>1. ASSUME NEW i \in 1..N
          PROVE  part(i) \in Seq(S)
        <3>1. PICK A : part(i) \in Seq(A)
            BY <1>3 DEF Run, IsSeq
        <3>2. \A j \in 1..Len(part(i)) : part(i)[j] \in S
            BY <3>1 DEF ToSet
        <3>. HIDE DEF S
        <3>. QED
            BY <3>1, <3>2
    <2>. HIDE DEF S
    <2>2. \A i \in 1..Len(parts) : parts[i] \in Seq(S)
        BY <1>4, <2>1
    <2>. QED
        BY <1>4, <2>2, FlattenIn
<1>7. \A t \in S : Written(objs, depth + 1, t)
    <2>1. ASSUME NEW i \in 1..N, NEW t \in ToSet(part(i))
          PROVE  Written(objs, depth + 1, t)
        <3>1. PICK A : part(i) \in Seq(A)
            BY <1>3 DEF Run, IsSeq
        <3>2. PICK j \in 1..Len(part(i)) : t = part(i)[j]
            BY <2>1, <3>1 DEF ToSet
        <3>. QED
            BY <1>3, <3>2
    <2>. QED
        BY <2>1
<1>. HIDE DEF S
<1>8. \A i \in 1..Len(FlattenSeq(parts)) : Written(objs, depth + 1, FlattenSeq(parts)[i])
    BY <1>6, <1>7
<1>. QED
    BY <1>2, <1>5, <1>8 DEF OneWritten

\* The recursive function of WriteMessage exists.
LEMMA DepthsExist ==
    ASSUME NEW objs, NEW n \in Nat
    PROVE  \E f : f = [d \in 0..n |-> IF d = 0 THEN WriteObject(objs, <<>>, "Message") ELSE Deeper(objs, f[d - 1])]
<1>. DEFINE F(f, m) == [d \in 0..m |-> IF d = 0 THEN WriteObject(objs, <<>>, "Message") ELSE Deeper(objs, f[d - 1])]
            S == {m \in Nat : ~\E f : f = F(f, m)}
<1>1. SUFFICES ASSUME S # {}
               PROVE  FALSE
    OBVIOUS
<1>2. PICK m \in S : \A i \in S : m <= i
    BY <1>1, LeastNumber
<1>3. m # 0
    <2>1. [d \in 0..0 |-> WriteObject(objs, <<>>, "Message")] = F([d \in 0..0 |-> WriteObject(objs, <<>>, "Message")], 0)
        OBVIOUS
    <2>. QED
        BY <2>1
<1>4. m - 1 \in Nat /\ m - 1 \notin S
    <2>1. m \in Nat
        OBVIOUS
    <2>. HIDE DEF S
    <2>. QED
        BY <1>2, <1>3, <2>1
<1>5. PICK f : f = F(f, m - 1)
    BY <1>4
<1>. DEFINE next == [d \in 0..m |-> IF d = 0 THEN WriteObject(objs, <<>>, "Message") ELSE Deeper(objs, f[d - 1])]
<1>6. \A i \in 0..(m - 1) : next[i] = f[i]
    <2>. SUFFICES ASSUME NEW i \in 0..(m - 1)
                  PROVE  next[i] = f[i]
        OBVIOUS
    <2>1. f[i] = IF i = 0 THEN WriteObject(objs, <<>>, "Message") ELSE Deeper(objs, f[i - 1])
        BY <1>5
    <2>2. i \in 0..m
        OBVIOUS
    <2>. QED
        BY <2>1, <2>2
<1>7. next = F(next, m)
    <2>1. \A i \in 0..m : i # 0 => i - 1 \in 0..(m - 1)
        OBVIOUS
    <2>2. \A i \in 0..m : i # 0 => next[i - 1] = f[i - 1]
        <3>. HIDE DEF next
        <3>. QED
            BY <1>6, <2>1
    <2>. QED
        BY <2>2
<1>. QED
    BY <1>7

\* A message that is not too deep is written as one value.
LEMMA MessageWritten ==
    ASSUME NEW objs, WellTyped(objs), TooBig \notin ToSet(WriteMessage(objs))
    PROVE  OneValue(WriteMessage(objs))
<1>. DEFINE F(f) == [d \in 0..MaxDepth + 1 |->
                        IF d = 0 THEN WriteObject(objs, <<>>, "Message") ELSE Deeper(objs, f[d - 1])]
            upTo == CHOOSE f : f = F(f)
            bad == {d \in 0..MaxDepth + 1 : ~OneWritten(objs, d + 1, upTo[d])}
            tokens == WriteMessage(objs)
<1>1. MaxDepth \in Nat /\ MaxDepth + 1 \in Nat
    BY LimitAssumption
<1>2. tokens = upTo[MaxDepth + 1]
    BY DEF WriteMessage
<1>3. upTo = F(upTo)
    <2>1. \E f : f = F(f)
        BY <1>1, DepthsExist
    <2>. QED
        BY <2>1
<1>. HIDE DEF upTo
<1>4. \A d \in 0..MaxDepth + 1 :
        upTo[d] = IF d = 0 THEN WriteObject(objs, <<>>, "Message") ELSE Deeper(objs, upTo[d - 1])
    BY <1>3
<1>5. OneWritten(objs, 0 + 1, WriteObject(objs, <<>>, "Message"))
    <2>1. Declared(objs, <<>>) = Root /\ <<>> \in Paths /\ "Message" \in DOMAIN Classes /\ Len(<<>>) = 0
        BY DeclaredRoot DEF Paths, Classes
    <2>2. /\ Head(Declared(objs, <<>>).kind) # "Array"
          /\ ClassAt(objs, Declared(objs, <<>>), <<>>) = "Message"
        BY <2>1 DEF Root, ClassAt
    <2>3. OneWritten(objs, Len(<<>>) + 1, WriteObject(objs, <<>>, "Message"))
        BY <2>1, <2>2, ObjectWritten
    <2>. QED
        BY <2>1, <2>3
<1>6. bad = {}
    <2>1. SUFFICES ASSUME bad # {}
                   PROVE  FALSE
        OBVIOUS
    <2>2. bad \subseteq Nat
        BY <1>1
    <2>3. PICK d \in bad : \A e \in bad : d <= e
        BY <2>1, <2>2, LeastNumber
    <2>4. d \in 0..MaxDepth + 1 /\ ~OneWritten(objs, d + 1, upTo[d])
        OBVIOUS
    <2>5. CASE d = 0
        BY <1>4, <1>5, <2>4, <2>5
    <2>6. CASE d # 0
        <3>1. d - 1 \in 0..MaxDepth + 1 /\ ~(d <= d - 1) /\ (d - 1) + 1 = d
            BY <1>1, <2>4, <2>6
        <3>2. d - 1 \notin bad
            <4>. HIDE DEF bad
            <4>. QED
                BY <2>3, <3>1
        <3>3. OneWritten(objs, (d - 1) + 1, upTo[d - 1])
            BY <3>1, <3>2
        <3>4. OneWritten(objs, d, upTo[d - 1])
            BY <3>1, <3>3
        <3>5. OneWritten(objs, d + 1, Deeper(objs, upTo[d - 1]))
            BY <3>4, DeeperWritten
        <3>. QED
            BY <1>4, <2>4, <2>6, <3>5
    <2>. QED
        BY <2>5, <2>6
<1>7. OneWritten(objs, (MaxDepth + 1) + 1, tokens)
    <2>1. MaxDepth + 1 \in 0..MaxDepth + 1
        BY <1>1
    <2>. HIDE DEF tokens
    <2>. QED
        BY <1>2, <1>6, <2>1
<1>. HIDE DEF tokens
<1>8. ASSUME NEW i \in 1..Len(tokens)
      PROVE  tokens[i].kind \in {"map", "array", "key", "scalar"}
    <2>1. Written(objs, (MaxDepth + 1) + 1, tokens[i])
        BY <1>7 DEF OneWritten
    <2>2. tokens[i].kind # "pending"
        BY <1>1, <2>1 DEF Written, Awaits
    <2>3. tokens[i] \in ToSet(tokens)
        BY <1>7 DEF OneWritten, Run, IsSeq, ToSet
    <2>4. tokens[i].kind # "error"
        BY <2>1, <2>3 DEF Written, tokens
    <2>. QED
        BY <2>1, <2>2, <2>4 DEF Written
<1>9. OneValue(tokens)
    BY <1>7, <1>8, RunIsOneValue DEF OneWritten
<1>. QED
    BY <1>9 DEF tokens

-----------------------------------------------------------------------------------
(* The registry. *)

RealClasses == DOMAIN Classes \ {"Message"}

LEMMA DefaultClasses ==
    ASSUME NEW e \in Payloads \cup ToSet(DefaultTypes)
    PROVE  e.class \in RealClasses
<1>1. CASE e \in Payloads
    BY <1>1, PayloadAssumption DEF RealClasses
<1>2. CASE e \in ToSet(DefaultTypes)
    <2>1. e.class \in {"Device", "WriteSettings", "WriteSettingsResult"}
        BY <1>2 DEF ToSet, DefaultTypes, Entry
    <2>. QED
        BY <2>1 DEF RealClasses, Classes
<1>. QED
    BY <1>1, <1>2

\* One table is another with more entries behind it.
Extends(old, new) ==
    DOMAIN old \subseteq DOMAIN new /\ \A i \in DOMAIN old : new[i] = old[i]

LEMMA RegisteredSound ==
    ASSUME NEW table, TableSound(table), NEW e \in Payloads \cup ToSet(DefaultTypes)
    PROVE  TableSound(Registered(table, e)) /\ Extends(table, Registered(table, e))
<1>. DEFINE E == Payloads \cup ToSet(DefaultTypes)
            new == Append(table, e)
<1>. HIDE DEF E
<1>1. table \in Seq(E) /\ e \in E /\ Len(table) \in Nat /\ DOMAIN table = 1..Len(table) /\ Len(table) <= MaxEntries
    BY DEF TableSound, E
<1>2. CASE Bound(table, e.msgType, e.opCode) # {} \/ Refuses(table, e)
    BY <1>2 DEF Registered, Extends
<1>3. CASE ~(Bound(table, e.msgType, e.opCode) # {} \/ Refuses(table, e))
    <2>1. Registered(table, e) = new
        BY <1>3 DEF Registered
    <2>2. /\ new \in Seq(E) /\ Len(new) = Len(table) + 1 /\ DOMAIN new = 1..(Len(table) + 1)
          /\ \A i \in 1..Len(table) : new[i] = table[i]
        BY <1>1, AppendProperties
    <2>3. new[Len(table) + 1] = e
        BY <1>1, AppendProperties
    <2>4. Len(new) <= MaxEntries
        <3>1. Len(table) # MaxEntries
            BY <1>3 DEF Refuses
        <3>2. MaxEntries \in Nat
            BY CapacityAssumption
        <3>3. Len(table) \in Nat /\ Len(table) <= MaxEntries
            BY <1>1
        <3>4. Len(table) + 1 <= MaxEntries
            BY <3>1, <3>2, <3>3
        <3>. QED
            BY <2>2, <3>4
    <2>5. \A i \in 1..Len(table) : ~(table[i].msgType = e.msgType /\ table[i].opCode = e.opCode)
        BY <1>1, <1>3 DEF Bound
    <2>6. \A i, j \in 1..Len(table) :
            table[i].msgType = table[j].msgType /\ table[i].opCode = table[j].opCode => i = j
        BY <1>1 DEF TableSound
    <2>. HIDE DEF new
    <2>7. ASSUME NEW i \in DOMAIN new, NEW j \in DOMAIN new,
                 new[i].msgType = new[j].msgType, new[i].opCode = new[j].opCode
          PROVE  i = j
        <3>1. i \in 1..Len(table) \/ i = Len(table) + 1
            BY <1>1, <2>2
        <3>2. j \in 1..Len(table) \/ j = Len(table) + 1
            BY <1>1, <2>2
        <3>3. CASE i \in 1..Len(table) /\ j \in 1..Len(table)
            BY <2>2, <2>6, <2>7, <3>3
        <3>4. CASE i \in 1..Len(table) /\ j = Len(table) + 1
            BY <2>2, <2>3, <2>5, <2>7, <3>4
        <3>5. CASE i = Len(table) + 1 /\ j \in 1..Len(table)
            BY <2>2, <2>3, <2>5, <2>7, <3>5
        <3>. QED
            BY <3>1, <3>2, <3>3, <3>4, <3>5
    <2>8. Extends(table, new)
        BY <1>1, <2>2 DEF Extends
    <2>. QED
        BY <2>1, <2>2, <2>4, <2>7, <2>8 DEF TableSound, E
<1>. QED
    BY <1>2, <1>3

LEMMA ExtendsTrans ==
    ASSUME NEW a, NEW b, NEW c, Extends(a, b), Extends(b, c)
    PROVE  Extends(a, c)
BY DEF Extends

LEMMA WithDefaultsSound ==
    ASSUME NEW table, TableSound(table)
    PROVE  TableSound(WithDefaults(table)) /\ Extends(table, WithDefaults(table))
<1>1. \A i \in {1, 2, 3} : DefaultTypes[i] \in Payloads \cup ToSet(DefaultTypes)
    BY DEF DefaultTypes, ToSet
<1>. DEFINE a == Registered(table, DefaultTypes[1])
            b == Registered(a, DefaultTypes[2])
            c == Registered(b, DefaultTypes[3])
<1>2. TableSound(a) /\ Extends(table, a)
    BY <1>1, RegisteredSound
<1>. HIDE DEF a
<1>3. TableSound(b) /\ Extends(a, b)
    BY <1>1, <1>2, RegisteredSound
<1>. HIDE DEF b
<1>4. TableSound(c) /\ Extends(b, c)
    BY <1>1, <1>3, RegisteredSound
<1>5. WithDefaults(table) = c
    BY DEF WithDefaults, a, b
<1>. HIDE DEF c
<1>. QED
    BY <1>2, <1>3, <1>4, <1>5, ExtendsTrans

\* An entry that is there is the one that create() finds.
LEMMA BoundClass ==
    ASSUME NEW table, TableSound(table), NEW i \in DOMAIN table
    PROVE  PayloadClass(table, table[i].msgType, table[i].opCode, Null) = table[i].class
<1>. DEFINE bound == Bound(table, table[i].msgType, table[i].opCode)
<1>1. bound = {i}
    BY DEF TableSound, Bound
<1>. HIDE DEF bound
<1>2. i <= i
    BY DEF TableSound
<1>3. (CHOOSE k \in bound : \A j \in bound : k <= j) = i
    BY <1>1, <1>2
<1>4. PayloadClass(table, table[i].msgType, table[i].opCode, Null) =
        IF bound = {} THEN Null ELSE table[CHOOSE k \in bound : \A j \in bound : k <= j].class
    BY DEF PayloadClass, bound
<1>. QED
    BY <1>1, <1>3, <1>4

LEMMA PayloadClassIs ==
    ASSUME NEW table, TableSound(table), NEW msgType, NEW opCode
    PROVE  PayloadClass(table, msgType, opCode, Null) \in RealClasses \cup {Null}
<1>1. CASE Bound(table, msgType, opCode) = {}
    BY <1>1 DEF PayloadClass
<1>2. CASE Bound(table, msgType, opCode) # {}
    <2>1. PICK i \in DOMAIN table : table[i].msgType = msgType /\ table[i].opCode = opCode
        BY <1>2 DEF Bound
    <2>2. PayloadClass(table, msgType, opCode, Null) = table[i].class
        BY <2>1, BoundClass
    <2>3. table[i] \in Payloads \cup ToSet(DefaultTypes)
        BY DEF TableSound
    <2>. QED
        BY <2>2, <2>3, DefaultClasses
<1>. QED
    BY <1>1, <1>2

\* A registration that is there already keeps its class in every table that extends it.
LEMMA StaysBound ==
    ASSUME NEW old, TableSound(old), NEW new, TableSound(new), Extends(old, new),
           NEW e, Accepted(old, e), Bound(old, e.msgType, e.opCode) # {}
    PROVE  PayloadClass(new, e.msgType, e.opCode, Null) = e.class
<1>1. PICK i \in DOMAIN old : old[i] = e
    BY DEF Accepted, Registered, ToSet
<1>2. i \in DOMAIN new /\ new[i] = e
    BY <1>1 DEF Extends
<1>. QED
    BY <1>2, BoundClass

-----------------------------------------------------------------------------------
(* What may come, and what is made of it. *)

LEMMA TokensSound ==
    ASSUME NEW name, NEW kind, NEW token \in Tokens(name, kind)
    PROVE  TokenSound(token)
<1>1. \A n \in 0..MaxMembers : TokenSound(Map(n))
    BY BoundAssumption DEF TokenSound, Map
<1>2. \A n \in 0..MaxSlots : TokenSound(Array(n))
    BY DEF TokenSound, Array
<1>3. TokenSound([kind |-> "nil"]) /\ TokenSound(Wrong)
    BY DEF TokenSound, Wrong
<1>4. \A b : TokenSound([kind |-> "number", fits |-> b]) /\ TokenSound([kind |-> "bool", value |-> b])
    BY DEF TokenSound
<1>5. \A t : TokenSound([kind |-> "str", text |-> t])
    BY DEF TokenSound
<1>6. \/ token \in {[kind |-> "nil"], Wrong}
      \/ \E b : token \in {[kind |-> "number", fits |-> b], [kind |-> "bool", value |-> b], [kind |-> "str", text |-> b]}
      \/ \E n \in 0..MaxSlots : token = Array(n)
      \/ \E n \in 0..MaxMembers : token = Map(n)
    BY DEF Tokens, MapTokens
<1>. QED
    BY <1>1, <1>2, <1>3, <1>4, <1>5, <1>6

LEMMA CreateIs ==
    ASSUME NEW class, NEW name, NEW type
    PROVE  Create(class, name, type) \in RealClasses \cup {Null}
<1>1. {"BoolSetting", "NumberSetting", "WriteSetting", "WriteSettingsResultValue", "Setting", "Group", "DeviceInfo",
       "Module", "BoolOption", "NumberOption"} \subseteq RealClasses
    BY DEF RealClasses, Classes
<1>2. SettingValueClass(type) \in {"BoolSetting", "NumberSetting", Null}
    BY DEF SettingValueClass
<1>3. Create(class, name, type) \in
        {"BoolSetting", "NumberSetting", "WriteSetting", "WriteSettingsResultValue", "Setting", "Group", "DeviceInfo",
         "Module", "BoolOption", "NumberOption", Null}
    BY <1>2 DEF Create
<1>. QED
    BY <1>1, <1>3

LEMMA ClassForIs ==
    ASSUME TableSound(types), NEW at
    PROVE  ClassFor(at) \in RealClasses \cup {Null}
BY PayloadClassIs, CreateIs DEF ClassFor

\* The members of the envelope: it has no array.
LEMMA EnvelopeMembers ==
    ASSUME NEW m \in {Classes["Message"][i] : i \in DOMAIN Classes["Message"]}
    PROVE  /\ m.name \in {"msgType", "opCode", "payload"}
           /\ m.kind = IF m.name = "payload" THEN <<"ObjectPtr">> ELSE <<"String">>
<1>1. Classes["Message"] = <<Member("msgType", <<"String">>), Member("opCode", <<"String">>), Member("payload", <<"ObjectPtr">>)>>
    BY DEF Classes
<1>2. m \in {Member("msgType", <<"String">>), Member("opCode", <<"String">>), Member("payload", <<"ObjectPtr">>)}
    BY <1>1
<1>3. \A name, kind : Member(name, kind).name = name /\ Member(name, kind).kind = kind
    BY DEF Member
<1>. QED
    BY <1>2, <1>3

LEMMA EnvelopeNames ==
    "msgType" \in STRING /\ "opCode" \in STRING /\ "payload" \in STRING
<1>1. /\ "Message" \in DOMAIN Classes /\ DOMAIN Classes["Message"] = 1..3
      /\ Classes["Message"][1].name = "msgType" /\ Classes["Message"][2].name = "opCode"
      /\ Classes["Message"][3].name = "payload"
    <2>1. /\ "Message" \in DOMAIN Classes
          /\ Classes["Message"] = <<Member("msgType", <<"String">>), Member("opCode", <<"String">>), Member("payload", <<"ObjectPtr">>)>>
        BY DEF Classes
    <2>2. \A name, kind : Member(name, kind).name = name
        BY DEF Member
    <2>. QED
        BY <2>1, <2>2
<1>2. 1 \in 1..3 /\ 2 \in 1..3 /\ 3 \in 1..3
    OBVIOUS
<1>3. \A i \in 1..3 : Classes["Message"][i].name \in STRING
    BY <1>1, TableAssumption
<1>. QED
    BY <1>1, <1>2, <1>3

-----------------------------------------------------------------------------------
(* The stack of open containers. *)

\* The innermost frame replaced, and one more above it.
LEMMA ReplaceTop ==
    ASSUME NEW frames, frames \in Seq(ToSet(frames)), frames # <<>>, NEW top
    PROVE  LET new == Append(Front(frames), top)
           IN  /\ new \in Seq(ToSet(new)) /\ Len(new) = Len(frames) /\ DOMAIN new = 1..Len(frames)
               /\ new[Len(frames)] = top
               /\ \A k \in 1..(Len(frames) - 1) : new[k] = frames[k]
               /\ new # <<>>
<1>. DEFINE S == ToSet(frames) \cup {top}
            front == Front(frames)
            new == Append(front, top)
<1>1. frames \in Seq(S) /\ top \in S /\ Len(frames) \in Nat \ {0}
    BY DEF ToSet
<1>. HIDE DEF S
<1>2. /\ front \in Seq(S) /\ Len(front) = Len(frames) - 1
      /\ \A k \in 1..(Len(frames) - 1) : front[k] = frames[k]
    <2>1. front = SubSeq(frames, 1, Len(frames) - 1)
        BY DEF Front
    <2>2. Len(frames) - 1 \in Int /\ \A k \in 1..(Len(frames) - 1) : frames[k] \in S
        BY <1>1
    <2>3. /\ SubSeq(frames, 1, Len(frames) - 1) \in Seq(S)
          /\ Len(SubSeq(frames, 1, Len(frames) - 1)) = Len(frames) - 1
        <3>1. ASSUME NEW n \in 0..Len(frames)
              PROVE  SubSeq(frames, 1, n) \in Seq(S) /\ Len(SubSeq(frames, 1, n)) = n
            BY <1>1
        <3>2. Len(frames) - 1 \in 0..Len(frames)
            BY <1>1
        <3>. QED
            BY <3>1, <3>2
    <2>4. \A k \in 1..(Len(frames) - 1) : SubSeq(frames, 1, Len(frames) - 1)[k] = frames[k]
        BY <1>1, <2>2
    <2>. QED
        BY <2>1, <2>3, <2>4
<1>. HIDE DEF front
<1>3. /\ new \in Seq(S) /\ Len(new) = Len(frames) /\ new # <<>>
      /\ \A k \in 1..Len(front) : new[k] = front[k]
    BY <1>1, <1>2, AppendProperties
<1>4. new[Len(front) + 1] = top
    BY <1>1, <1>2, AppendProperties
<1>. HIDE DEF new
<1>5. DOMAIN new = 1..Len(frames)
    BY <1>3
<1>6. new \in Seq(ToSet(new))
    BY <1>3 DEF ToSet
<1>. QED
    BY <1>1, <1>2, <1>3, <1>4, <1>5, <1>6 DEF new, front

LEMMA PushFrame ==
    ASSUME NEW frames, frames \in Seq(ToSet(frames)), NEW frame
    PROVE  LET new == frames \o <<frame>>
           IN  /\ new \in Seq(ToSet(new)) /\ Len(new) = Len(frames) + 1 /\ DOMAIN new = 1..(Len(frames) + 1)
               /\ new[Len(frames) + 1] = frame
               /\ \A k \in 1..Len(frames) : new[k] = frames[k]
<1>. DEFINE S == ToSet(frames) \cup {frame}
            new == frames \o <<frame>>
<1>1. frames \in Seq(S) /\ <<frame>> \in Seq(S) /\ Len(frames) \in Nat /\ Len(<<frame>>) = 1 /\ <<frame>>[1] = frame
    BY DEF ToSet
<1>. HIDE DEF S
<1>2. /\ new \in Seq(S) /\ Len(new) = Len(frames) + 1
      /\ \A k \in 1..(Len(frames) + 1) : new[k] = IF k <= Len(frames) THEN frames[k] ELSE <<frame>>[k - Len(frames)]
    BY <1>1, ConcatProperties
<1>. HIDE DEF new
<1>3. new \in Seq(ToSet(new)) /\ DOMAIN new = 1..(Len(frames) + 1)
    BY <1>2 DEF ToSet
<1>4. new[Len(frames) + 1] = frame /\ \A k \in 1..Len(frames) : new[k] = frames[k]
    BY <1>1, <1>2
<1>. QED
    BY <1>2, <1>3, <1>4 DEF new

\* What is in a slot that was read stays there when one goes further down.
LEMMA BehindDown ==
    ASSUME NEW frame, frame.place \in Paths, NEW p \in Paths, NEW q \in Paths,
           Behind(frame, p), IsPrefix(p, q), Len(frame.place) < Len(p)
    PROVE  Behind(frame, q)
<1>1. Len(frame.place) + 1 \in 1..Len(p)
    BY DEF Paths
<1>2. p[Len(frame.place) + 1] = q[Len(frame.place) + 1]
    BY <1>1, PrefixAt
<1>. QED
    BY <1>2 DEF Behind

\* A frame stays sound when what changes lies in what it reads.
LEMMA FrameKept ==
    ASSUME NEW old, TreeSound(old), NEW new, TreeSound(new), NEW place \in Places, OnlyAt(place, old, new),
           NEW frame, FrameSound(frame, old), IsPrefix(frame.place, place), frame.place # place,
           ~frame.object => Behind(frame, place)
    PROVE  FrameSound(frame, new)
<1>1. frame.place \in Paths
    BY DEF FrameSound, Paths
<1>2. ASSUME NEW p \in Prefixes(frame.place) \ {<<>>}
      PROVE  Reaches(new, p)
    <2>1. p \in Places /\ IsPrefix(p, frame.place) /\ Reaches(old, p)
        BY <1>1, PrefixesAre DEF FrameSound
    <2>2. IsPrefix(p, place)
        BY <1>1, <2>1, PrefixTrans DEF Places
    <2>3. p # place
        <3>1. ASSUME p = place
              PROVE  FALSE
            <4>1. Len(place) <= Len(frame.place) /\ Len(frame.place) <= Len(place)
                BY <1>1, <2>1, <3>1, PrefixAt DEF Places
            <4>. QED
                BY <1>1, <4>1, SameLengthPrefix DEF Places, Paths
        <3>. QED
            BY <3>1
    <2>. QED
        BY <2>1, <2>2, <2>3, AboveKept
<1>3. ASSUME frame.place # <<>>, Holds(old, frame.place)
      PROVE  Holds(new, frame.place)
    BY <1>1, <1>3, AboveKept DEF Places
<1>4. ASSUME ~frame.object, NEW q \in DOMAIN new.memory, IsPrefix(frame.place, q), q # frame.place,
             \A o \in DOMAIN old.memory : IsPrefix(frame.place, o) /\ o # frame.place => Behind(frame, o)
      PROVE  Behind(frame, q)
    <2>1. q \in Places
        BY SoundSays
    <2>2. CASE IsPrefix(place, q)
        <3>1. Len(frame.place) < Len(place)
            <4>1. Len(frame.place) <= Len(place) /\ Len(frame.place) \in Nat /\ Len(place) \in Nat
                BY <1>1, PrefixAt DEF Places, Paths
            <4>2. ~(Len(frame.place) >= Len(place))
                BY <1>1, SameLengthPrefix DEF Places
            <4>. QED
                BY <4>1, <4>2
        <3>. QED
            BY <1>1, <1>4, <2>1, <2>2, <3>1, BehindDown DEF Places
    <2>3. CASE ~IsPrefix(place, q)
        <3>1. q \in DOMAIN old.memory
            BY <2>1, <2>3 DEF OnlyAt, Holds
        <3>. QED
            BY <1>4, <3>1
    <2>. QED
        BY <2>2, <2>3
<1>. QED
    BY <1>2, <1>3, <1>4 DEF FrameSound

\* What a read opens is a sound frame.
LEMMA OpenedSound ==
    ASSUME NEW message, TreeSound(message), NEW at, at.place \in Places, IsKind(at.kind), at.depth \in Nat,
           Head(at.kind) = "Array" => at.owner \in RealClasses,
           NEW frame, Opened(message, at, frame)
    PROVE  FrameSound(frame, message) /\ frame.place = at.place /\ frame.class \in RealClasses
<1>1. \A p \in Prefixes(at.place) \ {<<>>} : Reaches(message, p)
    BY PrefixesAre DEF Opened, Places
<1>2. CASE OpenedObject(message, at, frame)
    <2>1. PICK class \in RealClasses, depth \in Nat, n \in Nat :
            frame = ObjectFrame(at.place, class, depth, n) /\ (Last(at.place) \in InlineNames \/ Holds(message, at.place))
        BY <1>2 DEF OpenedObject, RealClasses
    <2>2. /\ frame.place = at.place /\ frame.class = class /\ frame.left = n /\ frame.depth = depth /\ frame.object
          /\ IsRecord(frame, {"object", "place", "class", "depth", "left"})
        BY <2>1 DEF ObjectFrame, IsRecord
    <2>. QED
        BY <1>1, <2>1, <2>2 DEF FrameSound, Places, Paths, RealClasses
<1>3. CASE OpenedArray(message, at, frame)
    <2>1. PICK n \in 0..MaxSlots : frame = ArrayFrame(at, n) /\ Head(at.kind) = "Array"
        BY <1>3 DEF OpenedArray
    <2>2. /\ frame.place = at.place /\ frame.class = at.owner /\ frame.left = n /\ frame.depth = at.depth /\ ~frame.object
          /\ frame.kind = Tail(at.kind) /\ frame.slot = 1
          /\ IsRecord(frame, {"object", "place", "class", "above", "name", "kind", "depth", "left", "slot"})
        BY <2>1 DEF ArrayFrame, IsRecord
    <2>3. IsKind(Tail(at.kind)) /\ Head(Tail(at.kind)) # "Object"
        BY <2>1, KindOfElement
    <2>4. \A q \in DOMAIN message.memory : ~(IsPrefix(frame.place, q) /\ q # frame.place)
        BY <1>3, <2>2 DEF OpenedArray
    <2>5. n \in Nat /\ 1 + n <= MaxSlots + 1
        BY LimitAssumption
    <2>6. frame.slot \in Nat \ {0} /\ frame.slot + frame.left <= MaxSlots + 1 /\ frame.left \in Nat
        BY <2>2, <2>5
    <2>7. frame.class \in RealClasses /\ frame.class \in DOMAIN Classes
        BY <2>1, <2>2 DEF RealClasses
    <2>8. frame.place \in Seq(STRING) /\ frame.depth \in Nat
        BY <2>2 DEF Places, Paths
    <2>9. IsKind(frame.kind) /\ Head(frame.kind) # "Object"
        BY <2>2, <2>3
    <2>10. \A p \in Prefixes(frame.place) \ {<<>>} : Reaches(message, p)
        BY <1>1, <2>2
    <2>11. FrameSound(frame, message)
        BY <2>2, <2>4, <2>6, <2>7, <2>8, <2>9, <2>10 DEF FrameSound
    <2>. QED
        BY <2>2, <2>7, <2>11
<1>. QED
    BY <1>2, <1>3 DEF Opened

\* The innermost frame with one value less to read.
LessOne(frame) ==
    IF frame.object THEN [frame EXCEPT !.left = @ - 1] ELSE [frame EXCEPT !.left = @ - 1, !.slot = @ + 1]

LEMMA LessOneSound ==
    ASSUME NEW message, NEW frame, FrameSound(frame, message), frame.left > 0
    PROVE  LET less == LessOne(frame)
           IN  /\ FrameSound(less, message)
               /\ less.place = frame.place /\ less.class = frame.class /\ (less.object <=> frame.object)
               /\ ~frame.object => less.slot = frame.slot + 1
<1>. DEFINE less == LessOne(frame)
<1>0. frame.left \in Nat /\ frame.left - 1 \in Nat
    BY DEF FrameSound
<1>1. CASE frame.object
    <2>1. IsRecord(frame, {"object", "place", "class", "depth", "left"})
        BY <1>1 DEF FrameSound
    <2>2. less = [frame EXCEPT !.left = @ - 1]
        BY <1>1 DEF LessOne
    <2>3. /\ IsRecord(less, {"object", "place", "class", "depth", "left"})
          /\ less.place = frame.place /\ less.class = frame.class /\ less.object = frame.object
          /\ less.depth = frame.depth /\ less.left = frame.left - 1
        BY <2>1, <2>2 DEF IsRecord
    <2>. HIDE DEF less
    <2>4. FrameSound(less, message)
        BY <1>0, <1>1, <2>3 DEF FrameSound
    <2>. QED
        BY <1>1, <2>3, <2>4 DEF less
<1>2. CASE ~frame.object
    <2>1. /\ IsRecord(frame, {"object", "place", "class", "above", "name", "kind", "depth", "left", "slot"})
          /\ frame.slot \in Nat \ {0} /\ frame.slot + frame.left <= MaxSlots + 1
        BY <1>2 DEF FrameSound
    <2>2. less = [frame EXCEPT !.left = @ - 1, !.slot = @ + 1]
        BY <1>2 DEF LessOne
    <2>3. /\ IsRecord(less, {"object", "place", "class", "above", "name", "kind", "depth", "left", "slot"})
          /\ less.place = frame.place /\ less.class = frame.class /\ less.object = frame.object /\ less.kind = frame.kind
          /\ less.depth = frame.depth /\ less.left = frame.left - 1 /\ less.slot = frame.slot + 1
        BY <2>1, <2>2 DEF IsRecord
    <2>. HIDE DEF less
    <2>4. \A q : Behind(frame, q) => Behind(less, q)
        <3>1. 1..(frame.slot - 1) \subseteq 1..(less.slot - 1)
            BY <2>1, <2>3
        <3>. QED
            BY <2>3, <3>1 DEF Behind
    <2>5. \A q \in DOMAIN message.memory : IsPrefix(less.place, q) /\ q # less.place => Behind(less, q)
        BY <1>2, <2>3, <2>4 DEF FrameSound
    <2>6. less.slot \in Nat \ {0} /\ less.slot + less.left <= MaxSlots + 1
        BY <1>0, <2>1, <2>3, LimitAssumption
    <2>7. FrameSound(less, message)
        BY <1>0, <1>2, <2>3, <2>5, <2>6 DEF FrameSound
    <2>. QED
        BY <1>2, <2>3, <2>7 DEF less
<1>. QED
    BY <1>1, <1>2

LEMMA LastFrame ==
    ASSUME NEW frames, NEW message, StackSound(frames, message), frames # <<>>
    PROVE  /\ Len(frames) \in Nat \ {0} /\ DOMAIN frames = 1..Len(frames)
           /\ Last(frames) = frames[Len(frames)]
           /\ FrameSound(Last(frames), message) /\ Len(Last(frames).place) = Len(frames) - 1
           /\ ~Last(frames).object => Last(frames).class \in RealClasses
           /\ frames[1].class = "Message" /\ frames[1].object /\ frames[1].place = <<>>
<1>1. frames \in Seq(ToSet(frames))
    BY DEF StackSound
<1>2. Len(frames) \in Nat \ {0} /\ DOMAIN frames = 1..Len(frames)
    BY <1>1
<1>3. Last(frames) = frames[Len(frames)] /\ Len(frames) \in DOMAIN frames /\ 1 \in DOMAIN frames
    BY <1>2 DEF Last
<1>4. FrameSound(Last(frames), message) /\ Len(Last(frames).place) = Len(frames) - 1
    BY <1>3 DEF StackSound
<1>5. frames[1].class = "Message" /\ frames[1].object
    BY DEF StackSound
<1>6. frames[1].place = <<>>
    <2>1. frames[1].place \in Seq(STRING) /\ Len(frames[1].place) = 0
        BY <1>3 DEF StackSound, FrameSound
    <2>. QED
        BY <2>1
<1>7. ASSUME ~Last(frames).object
      PROVE  Last(frames).class \in RealClasses
    <2>1. Len(frames) # 1
        BY <1>3, <1>5, <1>7
    <2>2. 1 < Len(frames)
        BY <1>2, <2>1
    <2>3. Last(frames).class # "Message"
        BY <1>3, <2>2 DEF StackSound
    <2>. QED
        BY <1>4, <2>3 DEF FrameSound, RealClasses
<1>. QED
    BY <1>2, <1>3, <1>4, <1>5, <1>6, <1>7

\* A value taken off the innermost frame.
LEMMA StackAdvanced ==
    ASSUME NEW frames, NEW message, StackSound(frames, message), frames # <<>>, Last(frames).left > 0
    PROVE  LET new == Append(Front(frames), LessOne(Last(frames)))
           IN  /\ StackSound(new, message) /\ new # <<>> /\ Last(new) = LessOne(Last(frames))
               /\ Len(new) = Len(frames)
<1>. DEFINE top == Last(frames)
            less == LessOne(top)
            new == Append(Front(frames), less)
            n == Len(frames)
<1>1. /\ n \in Nat \ {0} /\ DOMAIN frames = 1..n /\ top = frames[n] /\ FrameSound(top, message)
      /\ Len(top.place) = n - 1
    BY LastFrame
<1>. HIDE DEF n
<1>2. /\ FrameSound(less, message)
      /\ less.place = top.place /\ less.class = top.class /\ (less.object <=> top.object)
    BY <1>1, LessOneSound
<1>. HIDE DEF less
<1>3. /\ new \in Seq(ToSet(new)) /\ Len(new) = n /\ DOMAIN new = 1..n
      /\ new[n] = less /\ new # <<>>
      /\ \A k \in 1..(n - 1) : new[k] = frames[k]
    <2>1. frames \in Seq(ToSet(frames))
        BY DEF StackSound
    <2>. QED
        BY <2>1, ReplaceTop DEF n
<1>. HIDE DEF new
<1>4. \A k \in 1..n : k = n \/ k \in 1..(n - 1)
    BY <1>1
<1>5. \A k \in DOMAIN new : FrameSound(new[k], message) /\ Len(new[k].place) = k - 1
    BY <1>1, <1>2, <1>3, <1>4 DEF StackSound
<1>6. \A k \in DOMAIN new : new[k].place = frames[k].place /\ new[k].class = frames[k].class /\ (new[k].object <=> frames[k].object)
    BY <1>1, <1>2, <1>3, <1>4
<1>7. new[1].class = "Message" /\ new[1].object
    <2>1. 1 \in DOMAIN new
        BY <1>1, <1>3
    <2>. QED
        BY <1>6, <2>1, LastFrame
<1>8. ASSUME NEW k \in DOMAIN new, NEW l \in DOMAIN new, k < l
      PROVE  /\ IsPrefix(new[k].place, new[l].place)
             /\ new[l].class # "Message"
             /\ ~new[k].object => Behind(new[k], new[l].place)
    <2>1. k \in 1..(n - 1) /\ k \in DOMAIN frames /\ l \in DOMAIN frames
        <3>1. k \in 1..n /\ l \in 1..n
            BY <1>3
        <3>2. k \in 1..(n - 1)
            BY <1>1, <1>8, <3>1
        <3>. QED
            BY <1>1, <3>1, <3>2
    <2>2. new[k] = frames[k] /\ new[l].place = frames[l].place /\ new[l].class = frames[l].class
        BY <1>3, <1>6, <2>1
    <2>. QED
        BY <1>8, <2>1, <2>2 DEF StackSound
<1>9. StackSound(new, message)
    BY <1>3, <1>5, <1>7, <1>8 DEF StackSound
<1>10. Last(new) = less
    BY <1>3 DEF Last
<1>. QED
    BY <1>3, <1>9, <1>10 DEF new, less, n

\* A value read in the innermost frame, with the frame that it opens.
LEMMA StackRead ==
    ASSUME NEW frames, NEW old, TreeSound(old), StackSound(frames, old), frames # <<>>,
           NEW at, NEW r, ReadSound(old, at, r), at.place \in Places, IsKind(at.kind), at.depth \in Nat,
           Head(at.kind) = "Array" => at.owner \in RealClasses,
           IsPrefix(Last(frames).place, at.place), Len(at.place) = Len(frames),
           ~Last(frames).object => Behind(Last(frames), at.place)
    PROVE  StackSound(frames \o r.open, r.tree)
<1>. DEFINE n == Len(frames)
            message == r.tree
<1>1. /\ n \in Nat \ {0} /\ DOMAIN frames = 1..n /\ Last(frames) = frames[n] /\ n \in DOMAIN frames
      /\ Len(Last(frames).place) = n - 1 /\ Len(at.place) = n
    BY LastFrame
<1>. HIDE DEF n
<1>2. TreeSound(message) /\ OnlyAt(at.place, old, message)
    BY DEF ReadSound
<1>3. ASSUME NEW k \in DOMAIN frames
      PROVE  /\ frames[k].place \in Paths /\ Len(frames[k].place) = k - 1
             /\ IsPrefix(frames[k].place, at.place) /\ frames[k].place # at.place
             /\ ~frames[k].object => Behind(frames[k], at.place)
    <2>1. frames[k].place \in Paths /\ Len(frames[k].place) = k - 1 /\ frames[n].place \in Paths
        BY <1>1 DEF StackSound, FrameSound, Paths
    <2>5. k \in 1..n
        BY <1>1
    <2>2. frames[k].place # at.place
        <3>1. k - 1 # n
            BY <1>1, <2>5
        <3>. QED
            BY <1>1, <2>1, <3>1
    <2>3. CASE k = n
        BY <1>1, <2>1, <2>2, <2>3
    <2>4. CASE k # n
        <3>1. k < n
            BY <1>1, <2>5, <2>4
        <3>2. IsPrefix(frames[k].place, frames[n].place) /\ (~frames[k].object => Behind(frames[k], frames[n].place))
            BY <1>1, <3>1 DEF StackSound
        <3>3. IsPrefix(frames[k].place, at.place)
            BY <1>1, <2>1, <3>2, PrefixTrans DEF Places
        <3>4. Len(frames[k].place) < Len(frames[n].place)
            BY <1>1, <2>5, <2>1, <3>1
        <3>5. ~frames[k].object => Behind(frames[k], at.place)
            BY <1>1, <2>1, <3>2, <3>4, BehindDown DEF Places
        <3>. QED
            BY <2>1, <2>2, <3>3, <3>5
    <2>. QED
        BY <2>3, <2>4
<1>4. \A k \in DOMAIN frames : FrameSound(frames[k], message)
    BY <1>2, <1>3, FrameKept DEF StackSound
<1>5. StackSound(frames, message)
    BY <1>4 DEF StackSound
<1>6. CASE r.open = <<>>
    <2>1. frames \o r.open = frames
        BY <1>6, ConcatEmptySeq DEF StackSound
    <2>. QED
        BY <1>5, <2>1
<1>7. ASSUME NEW frame, r.open = <<frame>>, Opened(message, at, frame)
      PROVE  StackSound(frames \o r.open, message)
    <2>. DEFINE new == frames \o <<frame>>
    <2>1. FrameSound(frame, message) /\ frame.place = at.place /\ frame.class \in RealClasses
        BY <1>2, <1>7, OpenedSound
    <2>2. /\ new \in Seq(ToSet(new)) /\ Len(new) = n + 1 /\ DOMAIN new = 1..(n + 1)
          /\ new[n + 1] = frame
          /\ \A k \in 1..n : new[k] = frames[k]
        BY PushFrame DEF StackSound, n
    <2>. HIDE DEF new
    <2>3. \A k \in DOMAIN new : k = n + 1 \/ (k \in 1..n /\ k \in DOMAIN frames)
        <3>1. \A k \in 1..(n + 1) : k = n + 1 \/ k \in 1..n
            BY <1>1
        <3>. QED
            BY <1>1, <2>2, <3>1
    <2>4. \A k \in DOMAIN new : FrameSound(new[k], message) /\ Len(new[k].place) = k - 1
        <3>1. Len(at.place) = (n + 1) - 1
            BY <1>1
        <3>. QED
            BY <1>3, <1>4, <2>1, <2>2, <2>3, <3>1
    <2>5. new[1].class = "Message" /\ new[1].object
        <3>1. 1 \in 1..n
            BY <1>1
        <3>. QED
            BY <2>2, <3>1, LastFrame
    <2>6. ASSUME NEW k \in DOMAIN new, NEW l \in DOMAIN new, k < l
          PROVE  /\ IsPrefix(new[k].place, new[l].place)
                 /\ new[l].class # "Message"
                 /\ ~new[k].object => Behind(new[k], new[l].place)
        <3>1. k \in 1..n /\ new[k] = frames[k]
            <4>1. k \in 1..(n + 1) /\ l \in 1..(n + 1)
                BY <2>2
            <4>2. k \in 1..n
                BY <1>1, <2>6, <4>1
            <4>. QED
                BY <2>2, <4>2
        <3>2. CASE l = n + 1
            BY <1>1, <1>3, <2>1, <2>2, <3>1, <3>2 DEF RealClasses
        <3>3. CASE l \in 1..n
            BY <1>1, <2>2, <2>6, <3>1, <3>3 DEF StackSound
        <3>. QED
            BY <2>3, <3>2, <3>3
    <2>7. StackSound(new, message)
        BY <2>2, <2>4, <2>5, <2>6 DEF StackSound
    <2>. QED
        BY <1>7, <2>7 DEF new
<1>. QED
    BY <1>6, <1>7 DEF ReadSound

-----------------------------------------------------------------------------------
(* The next value of the innermost container. *)

\* A place can be read as the next of the innermost frame.
IsNext(at) ==
    /\ Readable(tree, at) /\ (Head(at.kind) = "Array" => at.owner \in RealClasses)
    /\ IsPrefix(Top.place, at.place) /\ Len(at.place) = Len(stack)
    /\ ~Top.object => Behind(LessOne(Top), at.place)

LEMMA TopIs ==
    ASSUME StackSound(stack, tree), stack # <<>>
    PROVE  /\ FrameSound(Top, tree) /\ Top.place \in Paths /\ Len(stack) \in Nat \ {0} /\ Len(Top.place) = Len(stack) - 1
           /\ ~Top.object => Top.class \in RealClasses
           /\ Len(stack) = 1 => Top.class = "Message" /\ Top.object /\ Top.place = <<>>
           /\ Top.class = "Message" => Len(stack) = 1
<1>1. /\ FrameSound(Top, tree) /\ Len(stack) \in Nat \ {0} /\ Len(Top.place) = Len(stack) - 1
      /\ Top = stack[Len(stack)] /\ DOMAIN stack = 1..Len(stack)
      /\ ~Top.object => Top.class \in RealClasses
      /\ stack[1].class = "Message" /\ stack[1].object /\ stack[1].place = <<>>
    BY LastFrame DEF Top
<1>2. ASSUME Len(stack) # 1
      PROVE  Top.class # "Message"
    <2>1. 1 < Len(stack) /\ 1 \in DOMAIN stack /\ Len(stack) \in DOMAIN stack
        <3>1. Len(stack) \in Nat /\ 1 < Len(stack)
            <4>1. Len(stack) \in Nat \ {0}
                BY <1>1
            <4>2. \A n \in Nat \ {0} : n # 1 => n \in Nat /\ 1 < n
                OBVIOUS
            <4>. QED
                BY <1>2, <4>1, <4>2
        <3>2. 1 \in 1..Len(stack) /\ Len(stack) \in 1..Len(stack)
            BY <3>1
        <3>. QED
            BY <1>1, <3>1, <3>2
    <2>. QED
        BY <1>1, <2>1 DEF StackSound
<1>. QED
    BY <1>1, <1>2 DEF FrameSound, Paths

\* The places above the one below the innermost frame can be reached.
LEMMA AboveReached ==
    ASSUME StackSound(stack, tree), stack # <<>>, NEW x \in STRING,
           NEW p \in Places, IsPrefix(p, Append(Top.place, x)), p # Append(Top.place, x)
    PROVE  Reaches(tree, p)
<1>1. Top.place \in Paths /\ FrameSound(Top, tree)
    BY TopIs
<1>2. IsPrefix(p, Top.place)
    BY <1>1, PrefixOfStep DEF Places
<1>3. p \in Prefixes(Top.place) \ {<<>>}
    BY <1>1, <1>2, PrefixesAre
<1>. QED
    BY <1>1, <1>3 DEF FrameSound

LEMMA MemberIsNext ==
    ASSUME StackSound(stack, tree), stack # <<>>, Top.object, NEW m \in Members
    PROVE  IsNext(MemberAt(Top, m))
<1>. DEFINE at == MemberAt(Top, m)
<1>1. /\ at.place = Append(Top.place, m.name) /\ at.kind = m.kind /\ at.owner = Top.class /\ at.depth = Top.depth + 1
      /\ at.member = TRUE /\ at.inline = m.class
    BY DEF MemberAt
<1>2. Top.class \in DOMAIN Classes /\ m \in {Classes[Top.class][i] : i \in DOMAIN Classes[Top.class]}
    BY TopIs DEF FrameSound, Members
<1>3. /\ m.name \in STRING \ Slots /\ IsKind(m.kind)
      /\ m.kind = <<"Object">> <=> m.name \in InlineNames
      /\ m.kind = <<"Object">> => m.class \in DOMAIN Classes \ {"Message"}
    BY <1>2, MemberIs
<1>. HIDE DEF at
<1>4. /\ at.place \in Places /\ Len(at.place) = Len(Top.place) + 1 /\ Last(at.place) = m.name
      /\ Front(at.place) = Top.place /\ IsPrefix(Top.place, at.place)
    <2>1. Top.place \in Paths /\ m.name \in STRING
        BY <1>3, TopIs
    <2>2. /\ Append(Top.place, m.name) \in Places /\ Len(Append(Top.place, m.name)) = Len(Top.place) + 1
          /\ Last(Append(Top.place, m.name)) = m.name /\ Front(Append(Top.place, m.name)) = Top.place
          /\ IsPrefix(Top.place, Append(Top.place, m.name))
        BY <2>1, StepDown
    <2>. QED
        BY <1>1, <2>2
<1>5. \A p \in Places : IsPrefix(p, at.place) /\ p # at.place => Reaches(tree, p)
    BY <1>1, <1>3, AboveReached
<1>6. Len(at.place) = 1 \/ Last(Front(at.place)) \in InlineNames \/ Holds(tree, Front(at.place))
    <2>1. Top.place = <<>> \/ Last(Top.place) \in InlineNames \/ Holds(tree, Top.place)
        BY TopIs DEF FrameSound
    <2>2. Top.place = <<>> => Len(at.place) = 1
        BY <1>4
    <2>. QED
        BY <1>4, <2>1, <2>2
<1>7. Readable(tree, at)
    <2>1. at.depth \in Nat
        BY <1>1, TopIs DEF FrameSound
    <2>. QED
        BY <1>1, <1>3, <1>4, <1>5, <1>6, <2>1 DEF Readable
<1>8. Head(at.kind) = "Array" => at.owner \in RealClasses
    <2>1. ASSUME Top.class = "Message"
          PROVE  Head(at.kind) # "Array"
        <3>1. at.kind = <<"ObjectPtr">> \/ at.kind = <<"String">>
            BY <1>1, <1>2, <2>1, EnvelopeMembers
        <3>2. Head(<<"ObjectPtr">>) = "ObjectPtr" /\ Head(<<"String">>) = "String"
            OBVIOUS
        <3>. QED
            BY <3>1, <3>2
    <2>. QED
        BY <1>1, <1>2, <2>1 DEF RealClasses
<1>9. Len(at.place) = Len(stack)
    BY <1>4, TopIs
<1>. QED
    BY <1>4, <1>7, <1>8, <1>9 DEF IsNext, at

LEMMA SlotIsNext ==
    ASSUME TreeSound(tree), StackSound(stack, tree), stack # <<>>, ~Top.object, Top.left > 0
    PROVE  IsNext(SlotAt(Top))
<1>. DEFINE at == SlotAt(Top)
            x == Slot(Top.slot)
            n == Len(Top.place)
<1>1. /\ at.place = Append(Top.place, x) /\ at.kind = Top.kind /\ at.owner = Top.class /\ at.depth = Top.depth + 1
      /\ at.member = FALSE
    BY DEF SlotAt
<1>2. /\ Top.class \in RealClasses /\ Top.slot \in Nat \ {0} /\ Top.left \in Nat /\ Top.slot + Top.left <= MaxSlots + 1
      /\ IsKind(Top.kind) /\ Head(Top.kind) # "Object" /\ Top.depth \in Nat
      /\ \A q \in DOMAIN tree.memory : IsPrefix(Top.place, q) /\ q # Top.place => Behind(Top, q)
      /\ Top.place \in Paths /\ n \in Nat
    BY TopIs DEF FrameSound, Paths
<1>3. Top.slot \in 1..MaxSlots
    BY <1>2, LimitAssumption
<1>4. x \in STRING /\ x \in Slots
    BY <1>3, SlotAssumption DEF Slots
<1>. HIDE DEF at, x
<1>5. /\ at.place \in Places /\ Len(at.place) = n + 1 /\ Last(at.place) = x
      /\ IsPrefix(Top.place, at.place) /\ at.place[n + 1] = x
    BY <1>1, <1>2, <1>4, StepDown
<1>6. \A p \in Places : IsPrefix(p, at.place) /\ p # at.place => Reaches(tree, p)
    BY <1>1, <1>4, AboveReached
<1>7. ASSUME NEW q \in DOMAIN tree.memory, IsPrefix(at.place, q)
      PROVE  FALSE
    <2>1. q \in Paths
        BY SoundSays DEF Places
    <2>2. IsPrefix(Top.place, q)
        BY <1>2, <1>5, <1>7, <2>1, PrefixTrans DEF Places
    <2>3. Len(at.place) <= Len(q) /\ \A i \in 1..Len(at.place) : at.place[i] = q[i]
        BY <1>5, <1>7, <2>1, PrefixAt DEF Places
    <2>4. q # Top.place
        BY <1>2, <1>5, <2>3
    <2>5. q[n + 1] = x
        <3>1. n + 1 \in 1..Len(at.place)
            BY <1>2, <1>5
        <3>. QED
            BY <1>5, <2>3, <3>1
    <2>6. PICK j \in 1..(Top.slot - 1) : q[n + 1] = Slot(j)
        BY <1>2, <2>2, <2>4 DEF Behind
    <2>7. j \in 1..MaxSlots /\ j # Top.slot
        <3>1. Top.slot \in Nat /\ MaxSlots \in Nat /\ Top.slot <= MaxSlots
            BY <1>3, LimitAssumption
        <3>. QED
            BY <2>6, <3>1
    <2>. QED
        BY <1>3, <2>5, <2>6, <2>7, SlotAssumption DEF x
<1>8. Readable(tree, at)
    <2>1. at.depth \in Nat
        BY <1>1, <1>2
    <2>. QED
        BY <1>1, <1>2, <1>4, <1>5, <1>6, <1>7, <2>1 DEF Readable, Vacant
<1>9. Behind(LessOne(Top), at.place)
    <2>1. LessOne(Top).place = Top.place /\ LessOne(Top).slot = Top.slot + 1
        BY TopIs, LessOneSound
    <2>2. Top.slot \in 1..(LessOne(Top).slot - 1)
        BY <1>2, <2>1
    <2>. QED
        BY <1>5, <2>1, <2>2 DEF Behind, x
<1>10. Len(at.place) = Len(stack)
    BY <1>5, TopIs
<1>. QED
    BY <1>1, <1>2, <1>5, <1>8, <1>9, <1>10 DEF IsNext, at

LEMMA EmptyStackSound ==
    ASSUME NEW message
    PROVE  StackSound(<<>>, message)
<1>1. <<>> \in Seq(ToSet(<<>>)) /\ DOMAIN <<>> = {}
    OBVIOUS
<1>. QED
    BY <1>1 DEF StackSound

\* Reading a value: what Takes leaves.
LEMMA TakesSound ==
    ASSUME TreeSound(tree), StackSound(stack, tree), TableSound(types), stack # <<>>, Top.left > 0,
           NEW at, IsNext(at), NEW token, TokenSound(token), Takes(at, token)
    PROVE  /\ TreeSound(tree') /\ StackSound(stack', tree') /\ OnlyAt(at.place, tree, tree')
           /\ phase' \in {"reading", "failed"} /\ (stack' # <<>> <=> phase' = "reading")
           /\ at.kind = <<"ObjectPtr">> /\ Holds(tree', at.place) =>
                ClassFor(at) # Null /\ tree'.memory[at.place] = ClassFor(at)
<1>. DEFINE r == ReadValue(tree, at, ClassFor(at), token)
            frames == Append(Front(stack), LessOne(Top))
<1>1. ClassFor(at) \in (DOMAIN Classes \ {"Message"}) \cup {Null}
    BY ClassForIs DEF RealClasses
<1>2. /\ ReadSound(tree, at, r)
      /\ at.kind = <<"ObjectPtr">> /\ Holds(r.tree, at.place) =>
            ClassFor(at) # Null /\ r.tree.memory[at.place] = ClassFor(at)
    BY <1>1, ReadValueSound DEF IsNext
<1>3. /\ tree' = r.tree
      /\ stack' = IF r.ok THEN frames \o r.open ELSE <<>>
      /\ phase' = IF r.ok THEN "reading" ELSE "failed"
    BY DEF Takes, Advanced, LessOne
<1>4. StackSound(frames, tree) /\ frames # <<>> /\ Last(frames) = LessOne(Top) /\ Len(frames) = Len(stack)
    BY StackAdvanced DEF Top
<1>. HIDE DEF r, frames
<1>5. StackSound(frames \o r.open, r.tree)
    <2>1. /\ FrameSound(Top, tree)
          /\ Last(frames).place = Top.place /\ (Last(frames).object <=> Top.object)
        <3>1. FrameSound(Top, tree)
            BY TopIs
        <3>. QED
            BY <1>4, <3>1, LessOneSound
    <2>2. ~Last(frames).object => Behind(Last(frames), at.place)
        BY <1>4, <2>1 DEF IsNext
    <2>3. IsPrefix(Last(frames).place, at.place) /\ Len(at.place) = Len(frames)
        BY <1>4, <2>1 DEF IsNext
    <2>4. at.place \in Places /\ IsKind(at.kind) /\ at.depth \in Nat /\ (Head(at.kind) = "Array" => at.owner \in RealClasses)
        BY DEF IsNext, Readable
    <2>. QED
        BY <1>2, <1>4, <2>2, <2>3, <2>4, StackRead
<1>6. frames \o r.open # <<>>
    <2>1. frames \in Seq(ToSet(frames))
        BY <1>4 DEF StackSound
    <2>2. CASE r.open = <<>>
        BY <1>4, <2>1, <2>2, ConcatEmptySeq
    <2>3. ASSUME NEW frame, r.open = <<frame>>
          PROVE  frames \o r.open # <<>>
        <3>1. (frames \o <<frame>>)[Len(frames) + 1] = frame /\ DOMAIN (frames \o <<frame>>) = 1..(Len(frames) + 1)
            BY <2>1, PushFrame
        <3>2. Len(frames) + 1 \in 1..(Len(frames) + 1)
            BY <2>1
        <3>3. DOMAIN <<>> = {}
            OBVIOUS
        <3>. QED
            BY <2>3, <3>1, <3>2, <3>3
    <2>. QED
        BY <1>2, <2>2, <2>3 DEF ReadSound
<1>7. StackSound(stack', tree') /\ (stack' # <<>> <=> phase' = "reading")
    BY <1>3, <1>5, <1>6, EmptyStackSound
<1>. QED
    BY <1>2, <1>3, <1>7 DEF ReadSound

\* The three members of the envelope are places beside each other.
LEMMA EnvelopePlaces ==
    ASSUME NEW a \in STRING
    PROVE  /\ <<a>> \in Places /\ Len(<<a>>) = 1 /\ Append(<<>>, a) = <<a>> /\ Last(<<a>>) = a
           /\ \A p \in Places : IsPrefix(p, <<a>>) => p = <<a>>
<1>1. <<a>> \in Paths /\ Len(<<a>>) = 1 /\ <<a>> # <<>> /\ Last(<<a>>) = a
    <2>1. <<a>> \in Paths
        <3>1. <<>> \in Paths /\ Append(<<>>, a) = <<a>>
            BY DEF Paths
        <3>. QED
            BY <3>1, StepDown DEF Places
    <2>2. Len(<<a>>) = 1 /\ <<a>>[1] = a
        OBVIOUS
    <2>3. <<a>> # <<>>
        OBVIOUS
    <2>4. Last(<<a>>) = a
        BY <2>2 DEF Last
    <2>. QED
        BY <2>1, <2>2, <2>3, <2>4
<1>2. Append(<<>>, a) = <<a>>
    OBVIOUS
<1>3. ASSUME NEW p \in Places, IsPrefix(p, <<a>>)
      PROVE  p = <<a>>
    <2>1. Len(p) \in Nat \ {0} /\ p \in Paths
        BY FrontOfPlace DEF Places
    <2>2. Len(p) >= 1
        BY <2>1
    <2>. QED
        BY <1>1, <1>3, <2>1, <2>2, SameLengthPrefix
<1>. QED
    BY <1>1, <1>2, <1>3 DEF Places

Envelope == {<<"msgType">>, <<"opCode">>, <<"payload">>}

\* The payload stays right while the envelope and the registry stay as they are.
LEMMA PayloadKept ==
    ASSUME PayloadSound, types' = types, phase' \notin {"off", "idle"}, repeated => repeated',
           \A q \in Envelope : (Holds(tree', q) <=> Holds(tree, q)) /\ (Holds(tree, q) => tree'.memory[q] = tree.memory[q])
    PROVE  PayloadSound'
<1>1. ASSUME NEW q \in Envelope
      PROVE  TextAt(q)' = TextAt(q)
    BY <1>1 DEF TextAt
<1>2. TextAt(<<"opCode">>)' = TextAt(<<"opCode">>) /\ MsgType' = MsgType
    BY <1>1 DEF Envelope, MsgType
<1>. QED
    BY <1>2 DEF PayloadSound, Envelope

\* What a read under a member of the message cannot touch.
LEMMA EnvelopeKept ==
    ASSUME NEW at, at.place \in Places, OnlyAt(at.place, tree, tree'), NEW q \in Envelope, q # at.place
    PROVE  (Holds(tree', q) <=> Holds(tree, q)) /\ (Holds(tree, q) => tree'.memory[q] = tree.memory[q])
<1>1. \A a \in STRING : <<a>> # at.place => <<a>> \in Places /\ ~IsPrefix(at.place, <<a>>)
    BY EnvelopePlaces
<1>2. q \in Places /\ ~IsPrefix(at.place, q)
    <2>1. "msgType" \in STRING /\ "opCode" \in STRING /\ "payload" \in STRING
        BY EnvelopeNames
    <2>2. q = <<"msgType">> \/ q = <<"opCode">> \/ q = <<"payload">>
        BY DEF Envelope
    <2>. QED
        BY <1>1, <2>1, <2>2
<1>. QED
    BY <1>2 DEF OnlyAt

\* The payload after a member of any object was read.
LEMMA PayloadAfterMember ==
    ASSUME TreeSound(tree), StackSound(stack, tree), TableSound(types), stack # <<>>, PayloadSound, types' = types,
           phase' \notin {"off", "idle"}, Top.object,
           NEW m \in Members, OnlyAt(Append(Top.place, m.name), tree, tree'),
           repeated' = (repeated \/ Append(Top.place, m.name) \in tree.owned),
           m.kind = <<"ObjectPtr">> /\ Holds(tree', Append(Top.place, m.name)) =>
                /\ ClassFor(MemberAt(Top, m)) # Null
                /\ tree'.memory[Append(Top.place, m.name)] = ClassFor(MemberAt(Top, m))
    PROVE  PayloadSound'
<1>. DEFINE at == MemberAt(Top, m)
            place == Append(Top.place, m.name)
<1>1. at.place = place /\ at.owner = Top.class /\ IsNext(at) /\ at.place \in Places /\ Len(at.place) = Len(stack)
      /\ m \in {Classes[Top.class][i] : i \in DOMAIN Classes[Top.class]}
    BY MemberIsNext DEF MemberAt, IsNext, Readable, Members
<1>. HIDE DEF at
<1>2. \A q \in Envelope : q # place =>
        (Holds(tree', q) <=> Holds(tree, q)) /\ (Holds(tree, q) => tree'.memory[q] = tree.memory[q])
    BY <1>1, EnvelopeKept
<1>3. CASE place \notin Envelope
    BY <1>2, <1>3, PayloadKept
<1>4. CASE place \in Envelope
    <2>1. Len(stack) = 1 /\ Top.class = "Message" /\ Top.place = <<>>
        <3>1. Len(place) = 1
            BY <1>4, EnvelopePlaces DEF Envelope
        <3>. QED
            BY <1>1, <3>1, TopIs
    <2>2. m.name \in {"msgType", "opCode", "payload"} /\ m.kind = IF m.name = "payload" THEN <<"ObjectPtr">> ELSE <<"String">>
        BY <1>1, <2>1, EnvelopeMembers
    <2>3. place = <<m.name>>
        BY <2>1, <2>2, EnvelopePlaces
    <2>4. <<"msgType">> # <<"payload">> /\ <<"opCode">> # <<"payload">> /\ <<"msgType">> # <<"opCode">>
        OBVIOUS
    <2>5. SUFFICES ASSUME ~repeated', Holds(tree', <<"payload">>)
                   PROVE  /\ Holds(tree', <<"msgType">>) /\ Holds(tree', <<"opCode">>)
                          /\ tree'.memory[<<"payload">>] = PayloadClass(types', MsgType', TextAt(<<"opCode">>)', Null)
        BY DEF PayloadSound
    <2>6. ~repeated /\ place \notin tree.owned
        BY <2>5
    <2>7. CASE m.name = "payload"
        <3>1. /\ ClassFor(at) # Null /\ tree'.memory[<<"payload">>] = ClassFor(at)
            BY <2>2, <2>3, <2>5, <2>7 DEF at
        <3>2. ClassFor(at) = IF TextAt(<<"opCode">>) = Null \/ MsgType = "Unknown" THEN Null
                             ELSE PayloadClass(types, MsgType, TextAt(<<"opCode">>), Null)
            BY <1>1, <2>1 DEF ClassFor
        <3>3. TextAt(<<"opCode">>) # Null /\ MsgType # "Unknown" /\ ClassFor(at) = PayloadClass(types, MsgType, TextAt(<<"opCode">>), Null)
            BY <3>1, <3>2
        <3>4. Holds(tree, <<"opCode">>)
            BY <3>3 DEF TextAt
        <3>5. Holds(tree, <<"msgType">>)
            BY <3>3 DEF MsgType, TextAt, Null
        <3>6. \A q \in {<<"msgType">>, <<"opCode">>} : TextAt(q)' = TextAt(q) /\ (Holds(tree', q) <=> Holds(tree, q))
            BY <1>2, <2>3, <2>4, <2>7 DEF Envelope, TextAt
        <3>7. MsgType' = MsgType /\ TextAt(<<"opCode">>)' = TextAt(<<"opCode">>)
            BY <3>6 DEF MsgType
        <3>. QED
            BY <3>1, <3>3, <3>4, <3>5, <3>6, <3>7
    <2>8. CASE m.name # "payload"
        <3>1. Holds(tree, <<"payload">>)
            BY <1>2, <2>2, <2>3, <2>4, <2>5, <2>8 DEF Envelope
        <3>2. Holds(tree, <<"msgType">>) /\ Holds(tree, <<"opCode">>)
            BY <2>6, <3>1 DEF PayloadSound
        <3>3. Holds(tree, place)
            BY <2>2, <2>3, <2>8, <3>2
        <3>4. Reaches(tree, place)
            <4>1. place \in Places /\ IsPrefix(place, place)
                BY <1>1, PrefixRefl DEF Places
            <4>. QED
                BY <3>3, <4>1, SoundSays DEF Holds
        <3>5. Last(place) = m.name /\ m.name \notin Slots \cup InlineNames
            <4>1. m.kind = <<"String">> /\ <<"String">> # <<"Object">>
                BY <2>2, <2>8
            <4>2. Top.class \in DOMAIN Classes
                BY TopIs DEF FrameSound
            <4>. QED
                BY <1>1, <2>2, <2>3, <4>1, <4>2, EnvelopePlaces, MemberIs
        <3>. QED
            BY <2>6, <3>4, <3>5 DEF Reaches
    <2>. QED
        BY <2>7, <2>8
<1>. QED
    BY <1>3, <1>4

-----------------------------------------------------------------------------------
(* The invariant holds at first and after every action. *)

LEMMA InitSound == Init => MessageSound
<1>. SUFFICES ASSUME Init
              PROVE  MessageSound
    OBVIOUS
<1>1. TreeSound(tree) /\ DOMAIN tree.memory = {} /\ tree.owned = {}
    BY EmptySound DEF Init, EmptyTree
<1>2. StackSound(stack, tree)
    BY EmptyStackSound DEF Init
<1>3. TableSound(types)
    <2>1. <<>> \in Seq(Payloads \cup ToSet(DefaultTypes)) /\ Len(<<>>) = 0 /\ DOMAIN <<>> = {}
        OBVIOUS
    <2>. QED
        BY <2>1, CapacityAssumption DEF Init, TableSound
<1>4. PayloadSound
    BY <1>1 DEF Init, PayloadSound, Holds
<1>5. TypeOK
    <2>1. Len(types) <= MaxEntries
        BY <1>3 DEF TableSound
    <2>2. keys \in 0..MaxKeys
        BY BoundAssumption DEF Init
    <2>. QED
        BY <1>1, <2>1, <2>2 DEF Init, TypeOK
<1>. QED
    BY <1>1, <1>2, <1>3, <1>4, <1>5 DEF MessageSound

\* What TypeOK adds to the other parts.
LEMMA ThenTypeOK ==
    ASSUME TreeSound(tree'), TableSound(types'),
           phase' \in {"off", "idle", "reading", "failed", "decoded", "received", "done"},
           stack' # <<>> <=> phase' = "reading",
           keys' \in 0..MaxKeys, late' \subseteq {"msgType", "opCode"}
    PROVE  TypeOK'
<1>1. tree'.owned \subseteq Seq(STRING)
    BY SoundSays DEF Places, Paths
<1>2. Len(types') <= MaxEntries
    BY DEF TableSound
<1>. QED
    BY <1>1, <1>2 DEF TypeOK

\* Actions that only move the phase.
LEMMA QuietStep ==
    ASSUME MessageSound, UNCHANGED <<stack, tree, keys, late, repeated, types>>, phase # "reading",
           phase' \in {"idle", "decoded", "received", "done", "off"},
           phase' \in {"off", "idle"} => phase \in {"off", "idle"}
    PROVE  MessageSound'
<1>1. TreeSound(tree') /\ StackSound(stack', tree') /\ TableSound(types')
    BY DEF MessageSound
<1>2. TypeOK'
    BY <1>1, ThenTypeOK DEF MessageSound, TypeOK
<1>3. PayloadSound'
    BY DEF MessageSound, PayloadSound, TextAt, MsgType, Holds
<1>. QED
    BY <1>1, <1>2, <1>3 DEF MessageSound

LEMMA RegistryStep ==
    ASSUME MessageSound, UNCHANGED <<phase, stack, tree, keys, late, repeated>>, phase \in {"off", "idle"}, TableSound(types')
    PROVE  MessageSound'
<1>1. TreeSound(tree') /\ StackSound(stack', tree') /\ TableSound(types')
    BY DEF MessageSound
<1>2. TypeOK'
    BY <1>1, ThenTypeOK DEF MessageSound, TypeOK
<1>3. PayloadSound'
    BY DEF MessageSound, PayloadSound, Holds
<1>. QED
    BY <1>1, <1>2, <1>3 DEF MessageSound

LEMMA ReceiveStep ==
    ASSUME MessageSound, Receive
    PROVE  MessageSound'
<1>1. PICK token \in MapTokens \cup {Wrong} :
        LET r == ReadObject(EmptyTree, <<>>, "Message", 0, token)
        IN  phase' = (IF r.ok THEN "reading" ELSE "failed") /\ stack' = r.open
    BY DEF Receive
<1>. DEFINE r == ReadObject(EmptyTree, <<>>, "Message", 0, token)
            frame == ObjectFrame(<<>>, "Message", 0, token.count)
<1>2. \/ ~r.ok /\ r.open = <<>>
      \/ r.ok /\ r.open = <<frame>> /\ token.kind = "map"
    BY DEF ReadObject, Failed, Opens
<1>3. phase' = (IF r.ok THEN "reading" ELSE "failed") /\ stack' = r.open
    BY <1>1
<1>. HIDE DEF r
<1>4. token.kind = "map" => token.count \in Nat
    BY BoundAssumption DEF MapTokens, Map, Wrong
<1>. HIDE DEF frame
<1>5. stack' # <<>> <=> phase' = "reading"
    BY <1>2, <1>3
<1>6. StackSound(stack', tree)
    <2>1. CASE stack' = <<>>
        BY <2>1, EmptyStackSound
    <2>2. CASE stack' = <<frame>> /\ token.kind = "map"
        <3>1. /\ IsRecord(frame, {"object", "place", "class", "depth", "left"})
              /\ frame.object = TRUE /\ frame.place = <<>> /\ frame.class = "Message" /\ frame.depth = 0
              /\ frame.left = token.count
            BY DEF frame, ObjectFrame, IsRecord
        <3>2. "Message" \in DOMAIN Classes
            BY DEF Classes
        <3>3. Prefixes(<<>>) \ {<<>>} = {} /\ <<>> \in Seq(STRING) /\ Len(<<>>) = 0
            <4>1. Len(<<>>) = 0 /\ <<>> \in Paths
                BY DEF Paths
            <4>2. \A p \in Prefixes(<<>>) \ {<<>>} : p \in Paths /\ IsPrefix(p, <<>>) /\ p # <<>>
                <5>1. \A q \in Paths : \A p \in Prefixes(q) \ {<<>>} : p \in Places /\ IsPrefix(p, q)
                    BY PrefixesAre
                <5>. QED
                    BY <4>1, <5>1 DEF Places
            <4>3. \A p \in Paths : Len(p) >= 0
                BY DEF Paths
            <4>4. \A p \in Paths : IsPrefix(p, <<>>) => p = <<>>
                BY <4>1, <4>3, SameLengthPrefix
            <4>. QED
                BY <4>1, <4>2, <4>4 DEF Paths
        <3>4. FrameSound(frame, tree)
            BY <1>4, <2>2, <3>1, <3>2, <3>3 DEF FrameSound
        <3>. DEFINE new == <<frame>>
        <3>5. new \in Seq(ToSet(new)) /\ DOMAIN new = {1} /\ new[1] = frame
            BY DEF ToSet
        <3>. HIDE DEF new
        <3>6. StackSound(new, tree)
            BY <3>1, <3>3, <3>4, <3>5 DEF StackSound
        <3>. QED
            BY <2>2, <3>6 DEF new
    <2>. QED
        BY <1>2, <1>3, <2>1, <2>2
<1>7. UNCHANGED <<tree, keys, late, repeated, types>> /\ phase = "idle"
    BY DEF Receive
<1>8. TypeOK'
    BY <1>3, <1>5, <1>7, ThenTypeOK DEF MessageSound, TypeOK
<1>9. PayloadSound'
    BY <1>3, <1>7 DEF MessageSound, PayloadSound, Holds
<1>. QED
    BY <1>6, <1>7, <1>8, <1>9 DEF MessageSound

\* The innermost frame is taken off.
LEMMA StackPopped ==
    ASSUME NEW frames, NEW message, StackSound(frames, message), frames # <<>>
    PROVE  /\ StackSound(Front(frames), message) /\ (Front(frames) = <<>> <=> Len(frames) = 1)
           /\ \A k \in DOMAIN Front(frames) : k \in DOMAIN frames /\ Front(frames)[k] = frames[k]
<1>. DEFINE S == ToSet(frames)
            front == Front(frames)
            n == Len(frames)
<1>1. frames \in Seq(S) /\ n \in Nat \ {0} /\ DOMAIN frames = 1..n
    BY LastFrame DEF StackSound
<1>2. n - 1 \in 0..n
    BY <1>1
<1>3. \A k \in 0..n : /\ SubSeq(frames, 1, k) \in Seq(S) /\ Len(SubSeq(frames, 1, k)) = k
                      /\ \A i \in 1..k : SubSeq(frames, 1, k)[i] = frames[i]
    <2>. HIDE DEF S
    <2>. QED
        BY <1>1
<1>. HIDE DEF S, n
<1>4. /\ front \in Seq(S) /\ Len(front) = n - 1
      /\ \A i \in 1..(n - 1) : front[i] = frames[i]
    BY <1>2, <1>3 DEF Front, n
<1>. HIDE DEF front
<1>5. DOMAIN front = 1..(n - 1) /\ front \in Seq(ToSet(front))
    BY <1>4 DEF ToSet
<1>6. \A k \in DOMAIN front : k \in DOMAIN frames /\ front[k] = frames[k]
    <2>1. \A k \in 1..(n - 1) : k \in 1..n
        BY <1>1
    <2>. QED
        BY <1>1, <1>4, <1>5, <2>1
<1>7. front # <<>> => front[1].class = "Message" /\ front[1].object
    <2>1. SUFFICES ASSUME front # <<>>
                   PROVE  1 \in DOMAIN front
        BY <1>6 DEF StackSound
    <2>. QED
        BY <1>4, <2>1
<1>8. StackSound(front, message)
    BY <1>5, <1>6, <1>7 DEF StackSound
<1>9. front = <<>> <=> n = 1
    <2>1. front = <<>> <=> Len(front) = 0
        BY <1>4, EmptySeq
    <2>2. n - 1 = 0 <=> n = 1
        BY <1>1
    <2>. QED
        BY <1>4, <2>1, <2>2
<1>. QED
    BY <1>6, <1>8, <1>9 DEF front, n

LEMMA CloseStep ==
    ASSUME MessageSound, Close
    PROVE  MessageSound'
<1>1. /\ TreeSound(tree) /\ StackSound(stack, tree) /\ TableSound(types) /\ PayloadSound /\ stack # <<>>
      /\ keys \in 0..MaxKeys /\ late \subseteq {"msgType", "opCode"}
    BY DEF MessageSound, Close, TypeOK
<1>2. UNCHANGED <<tree, keys, late, repeated, types>> /\ stack' = Front(stack)
    BY DEF Close
<1>3. StackSound(stack', tree') /\ (stack' = <<>> <=> Len(stack) = 1)
    BY <1>1, <1>2, StackPopped
<1>4. phase' = IF Len(stack) = 1 THEN "decoded" ELSE "reading"
    BY DEF Close
<1>5. TypeOK'
    BY <1>1, <1>2, <1>3, <1>4, ThenTypeOK
<1>6. PayloadSound'
    BY <1>1, <1>2, <1>4, PayloadKept DEF Holds
<1>. QED
    BY <1>1, <1>2, <1>3, <1>5, <1>6 DEF MessageSound

LEMMA DestroyStep ==
    ASSUME MessageSound, Destroy
    PROVE  MessageSound'
<1>1. TreeSound(tree) /\ stack = <<>> /\ TableSound(types)
    BY DEF MessageSound, TypeOK, Destroy
<1>2. tree' = EmptyTree /\ stack' = <<>> /\ types' = types /\ phase' = "idle" /\ keys' = 0 /\ late' = {}
    BY <1>1, DestroyedEmpty DEF Destroy
<1>3. TreeSound(tree') /\ DOMAIN tree'.memory = {}
    BY <1>2, EmptySound DEF EmptyTree
<1>4. StackSound(stack', tree')
    BY <1>2, EmptyStackSound
<1>5. TypeOK'
    <2>1. keys' \in 0..MaxKeys
        BY <1>2, BoundAssumption
    <2>. QED
        BY <1>1, <1>2, <1>3, <2>1, ThenTypeOK
<1>6. PayloadSound'
    BY <1>3 DEF PayloadSound, Holds
<1>. QED
    BY <1>1, <1>2, <1>3, <1>4, <1>5, <1>6 DEF MessageSound

LEMMA ReadMemberStep ==
    ASSUME MessageSound, phase = "reading", Top.left > 0, Top.object, keys < MaxKeys, UNCHANGED types,
           NEW m \in Members, NEW token \in Tokens(m.name, Head(m.kind)), ReadMember(m, token)
    PROVE  MessageSound'
<1>. DEFINE at == MemberAt(Top, m)
<1>1. /\ TreeSound(tree) /\ StackSound(stack, tree) /\ TableSound(types) /\ PayloadSound /\ stack # <<>>
      /\ keys \in 0..MaxKeys /\ late \subseteq {"msgType", "opCode"}
    BY DEF MessageSound, TypeOK
<1>2. IsNext(at) /\ at.place = Append(Top.place, m.name) /\ at.kind = m.kind
    BY <1>1, MemberIsNext DEF MemberAt
<1>3. TokenSound(token) /\ Takes(at, token)
    BY TokensSound DEF ReadMember
<1>. HIDE DEF at
<1>4. /\ TreeSound(tree') /\ StackSound(stack', tree') /\ OnlyAt(at.place, tree, tree')
      /\ phase' \in {"reading", "failed"} /\ (stack' # <<>> <=> phase' = "reading")
      /\ at.kind = <<"ObjectPtr">> /\ Holds(tree', at.place) =>
           ClassFor(at) # Null /\ tree'.memory[at.place] = ClassFor(at)
    BY <1>1, <1>2, <1>3, TakesSound
<1>5. TableSound(types')
    BY <1>1
<1>6. keys' \in 0..MaxKeys
    <2>1. keys' = keys + 1
        BY DEF ReadMember
    <2>. QED
        BY <1>1, <2>1, BoundAssumption
<1>7. late' \subseteq {"msgType", "opCode"}
    <2>1. \/ late' = late
          \/ Top.class = "Message" /\ m.name # "payload" /\ late' = late \cup {m.name}
        BY DEF ReadMember
    <2>2. Top.class = "Message" => m.name \in {"msgType", "opCode", "payload"}
        BY EnvelopeMembers DEF Members
    <2>. QED
        BY <1>1, <2>1, <2>2
<1>8. TypeOK'
    BY <1>4, <1>5, <1>6, <1>7, ThenTypeOK
<1>9. PayloadSound'
    <2>1. repeated' = (repeated \/ Append(Top.place, m.name) \in tree.owned)
        BY DEF ReadMember
    <2>. QED
        BY <1>1, <1>2, <1>4, <2>1, PayloadAfterMember DEF at
<1>. QED
    BY <1>4, <1>5, <1>8, <1>9 DEF MessageSound

LEMMA ReadSlotStep ==
    ASSUME MessageSound, phase = "reading", Top.left > 0, ~Top.object, UNCHANGED <<keys, late, repeated, types>>,
           NEW token \in Tokens(Top.name, Head(Top.kind)), Takes(SlotAt(Top), token)
    PROVE  MessageSound'
<1>. DEFINE at == SlotAt(Top)
<1>1. /\ TreeSound(tree) /\ StackSound(stack, tree) /\ TableSound(types) /\ PayloadSound /\ stack # <<>>
      /\ keys \in 0..MaxKeys /\ late \subseteq {"msgType", "opCode"}
    BY DEF MessageSound, TypeOK
<1>2. IsNext(at) /\ at.place \in Places /\ Len(at.place) = Len(stack)
    BY <1>1, SlotIsNext DEF IsNext, Readable
<1>3. TokenSound(token) /\ Takes(at, token)
    BY TokensSound
<1>. HIDE DEF at
<1>4. /\ TreeSound(tree') /\ StackSound(stack', tree') /\ OnlyAt(at.place, tree, tree')
      /\ phase' \in {"reading", "failed"} /\ (stack' # <<>> <=> phase' = "reading")
    BY <1>1, <1>2, <1>3, TakesSound
<1>5. TypeOK'
    BY <1>1, <1>4, ThenTypeOK
<1>6. PayloadSound'
    <2>1. Len(at.place) # 1
        BY <1>1, <1>2, TopIs
    <2>2. at.place \notin Envelope
        BY <2>1 DEF Envelope
    <2>3. \A q \in Envelope :
            (Holds(tree', q) <=> Holds(tree, q)) /\ (Holds(tree, q) => tree'.memory[q] = tree.memory[q])
        BY <1>2, <1>4, <2>2, EnvelopeKept
    <2>. QED
        BY <1>1, <1>4, <2>3, PayloadKept
<1>. QED
    BY <1>1, <1>4, <1>5, <1>6 DEF MessageSound

\* A value that is discarded, or an input that breaks off: the tree stays.
LEMMA ReadUnknownStep ==
    ASSUME MessageSound, phase = "reading", Top.left > 0, keys < MaxKeys, UNCHANGED types, NEW broken \in BOOLEAN, ReadUnknown(broken)
    PROVE  MessageSound'
<1>1. /\ TreeSound(tree) /\ StackSound(stack, tree) /\ TableSound(types) /\ PayloadSound /\ stack # <<>>
      /\ keys \in 0..MaxKeys /\ late \subseteq {"msgType", "opCode"}
    BY DEF MessageSound, TypeOK
<1>2. UNCHANGED <<tree, late, repeated, types>> /\ keys' = keys + 1 /\ phase' \in {"reading", "failed"}
    BY DEF ReadUnknown
<1>3. StackSound(stack', tree') /\ (stack' # <<>> <=> phase' = "reading")
    <2>1. StackSound(Advanced, tree) /\ Advanced # <<>>
        BY <1>1, StackAdvanced DEF Advanced, LessOne, Top
    <2>. QED
        BY <1>2, <2>1, EmptyStackSound DEF ReadUnknown
<1>4. TypeOK'
    <2>1. keys' \in 0..MaxKeys
        BY <1>1, <1>2, BoundAssumption
    <2>. QED
        BY <1>1, <1>2, <1>3, <2>1, ThenTypeOK
<1>5. PayloadSound'
    BY <1>1, <1>2, PayloadKept DEF Holds
<1>. QED
    BY <1>1, <1>2, <1>3, <1>4, <1>5 DEF MessageSound

LEMMA BadKeyStep ==
    ASSUME MessageSound, BadKey, UNCHANGED types, phase = "reading"
    PROVE  MessageSound'
<1>1. UNCHANGED <<tree, keys, late, repeated, types>> /\ phase' = "failed" /\ stack' = <<>>
    BY DEF BadKey
<1>2. TreeSound(tree') /\ StackSound(stack', tree') /\ TableSound(types')
    BY <1>1, EmptyStackSound DEF MessageSound
<1>3. TypeOK'
    BY <1>1, <1>2, ThenTypeOK DEF MessageSound, TypeOK
<1>4. PayloadSound'
    BY <1>1, PayloadKept DEF MessageSound, Holds
<1>. QED
    BY <1>2, <1>3, <1>4 DEF MessageSound

LEMMA ReadNextStep ==
    ASSUME MessageSound, ReadNext
    PROVE  MessageSound'
<1>1. phase = "reading" /\ Top.left > 0 /\ UNCHANGED types
    BY DEF ReadNext
<1>2. ASSUME Top.object, keys < MaxKeys, NEW m \in Members, NEW token \in Tokens(m.name, Head(m.kind)), ReadMember(m, token)
      PROVE  MessageSound'
    BY <1>1, <1>2, ReadMemberStep
<1>3. ASSUME Top.object, keys < MaxKeys, NEW broken \in BOOLEAN, ReadUnknown(broken)
      PROVE  MessageSound'
    BY <1>1, <1>3, ReadUnknownStep
<1>4. CASE Top.object /\ BadKey
    BY <1>1, <1>4, BadKeyStep
<1>5. ASSUME ~Top.object, NEW token \in Tokens(Top.name, Head(Top.kind)), Takes(SlotAt(Top), token),
             UNCHANGED <<keys, late, repeated>>
      PROVE  MessageSound'
    BY <1>1, <1>5, ReadSlotStep
<1>. QED
    BY <1>2, <1>3, <1>4, <1>5 DEF ReadNext

LEMMA NextSound == MessageSound /\ [Next]_vars => MessageSound'
<1>. SUFFICES ASSUME MessageSound, [Next]_vars
              PROVE  MessageSound'
    OBVIOUS
<1>1. CASE InitController
    BY <1>1, QuietStep DEF InitController
<1>2. ASSUME NEW set \in BOOLEAN, SetOnReceived(set)
      PROVE  MessageSound'
    BY <1>2, QuietStep DEF SetOnReceived
<1>3. CASE RegisterDefaults
    <2>1. TableSound(types')
        BY <1>3, WithDefaultsSound DEF RegisterDefaults, MessageSound
    <2>. QED
        BY <1>3, <2>1, RegistryStep DEF RegisterDefaults
<1>4. ASSUME NEW e \in Payloads, RegisterPayload(e)
      PROVE  MessageSound'
    <2>1. TableSound(types')
        BY <1>4, RegisteredSound DEF RegisterPayload, MessageSound
    <2>. QED
        BY <1>4, <2>1, RegistryStep DEF RegisterPayload
<1>5. CASE Receive
    BY <1>5, ReceiveStep
<1>6. CASE ReadNext
    BY <1>6, ReadNextStep
<1>7. CASE Close
    BY <1>7, CloseStep
<1>8. CASE Deliver
    BY <1>8, QuietStep DEF Deliver
<1>9. CASE Write
    <2>1. UNCHANGED <<stack, tree, keys, late, repeated, types>> /\ phase = "received" /\ phase' = "done"
        BY <1>9 DEF Write
    <2>. QED
        BY <2>1, QuietStep
<1>10. CASE Return
    BY <1>10, QuietStep DEF Return
<1>11. CASE Destroy
    BY <1>11, DestroyStep
<1>12. CASE UNCHANGED vars
    <2>1. UNCHANGED <<phase, stack, tree, keys, late, repeated, types>>
        BY <1>12 DEF vars
    <2>2. TypeOK' /\ PayloadSound'
        BY <2>1 DEF MessageSound, TypeOK, PayloadSound, TextAt, MsgType
    <2>. QED
        BY <2>1, <2>2 DEF MessageSound
<1>. QED
    BY <1>1, <1>2, <1>3, <1>4, <1>5, <1>6, <1>7, <1>8, <1>9, <1>10, <1>11, <1>12 DEF Next, Loop

-----------------------------------------------------------------------------------
(* The message is of the declared types. *)

FramesTyped(frames, message) == \A k \in DOMAIN frames : FrameTyped(frames[k], message)

\* What is read next is what is declared there.
LEMMA MemberFits ==
    ASSUME StackSound(stack, tree), stack # <<>>, FrameTyped(Top, tree), Top.object, NEW m \in Members
    PROVE  Fits(tree, MemberAt(Top, m))
<1>. DEFINE at == MemberAt(Top, m)
            declared == Declared(tree, Top.place)
<1>1. at.place = Append(Top.place, m.name) /\ at.kind = m.kind /\ at.inline = m.class
    BY DEF MemberAt
<1>2. Top.class \in DOMAIN Classes /\ Top.place \in Paths
    BY TopIs DEF FrameSound
<1>3. PICK i \in DOMAIN Classes[Top.class] : m = Classes[Top.class][i]
    BY DEF Members
<1>4. m.name \in STRING
    BY <1>2, <1>3, MemberIs
<1>5. Declared(tree, at.place) = Below(tree, declared, Top.place, m.name)
    BY <1>1, <1>2, <1>4, DeclaredBelow
<1>6. Head(declared.kind) # "Array" /\ ClassAt(tree, declared, Top.place) = Top.class
    BY DEF FrameTyped
<1>. HIDE DEF at, declared
<1>7. Below(tree, declared, Top.place, m.name) = [kind |-> m.kind, class |-> m.class]
    BY <1>2, <1>3, <1>6, MemberNamedIs DEF Below
<1>. QED
    BY <1>1, <1>5, <1>7 DEF Fits, at

LEMMA SlotFits ==
    ASSUME StackSound(stack, tree), stack # <<>>, FrameTyped(Top, tree), ~Top.object, Top.left > 0
    PROVE  Fits(tree, SlotAt(Top))
<1>. DEFINE at == SlotAt(Top)
            declared == Declared(tree, Top.place)
<1>1. at.place = Append(Top.place, Slot(Top.slot)) /\ at.kind = Top.kind
    BY DEF SlotAt
<1>2. /\ Top.slot \in Nat \ {0} /\ Top.left \in Nat /\ Top.slot + Top.left <= MaxSlots + 1
      /\ Head(Top.kind) # "Object" /\ Top.place \in Paths
    BY TopIs DEF FrameSound
<1>3. Top.slot \in 1..MaxSlots
    BY <1>2, LimitAssumption
<1>4. Slot(Top.slot) \in STRING
    BY <1>3, SlotAssumption
<1>5. Declared(tree, at.place) = Below(tree, declared, Top.place, Slot(Top.slot))
    BY <1>1, <1>2, <1>4, DeclaredBelow
<1>6. Head(declared.kind) = "Array" /\ Tail(declared.kind) = Top.kind
    BY DEF FrameTyped
<1>7. Top.kind # <<"Object">>
    BY <1>2
<1>. HIDE DEF at, declared
<1>8. Below(tree, declared, Top.place, Slot(Top.slot)) = [kind |-> Top.kind, class |-> declared.class]
    BY <1>6 DEF Below
<1>. QED
    BY <1>1, <1>5, <1>7, <1>8 DEF Fits, at

LEMMA LessOneTyped ==
    ASSUME NEW message, NEW frame, FrameSound(frame, message), NEW other, FrameTyped(frame, other)
    PROVE  FrameTyped(LessOne(frame), other)
<1>. DEFINE less == LessOne(frame)
<1>1. CASE frame.object
    <2>1. less.object = frame.object /\ less.place = frame.place /\ less.class = frame.class
        BY <1>1 DEF FrameSound, IsRecord, LessOne
    <2>. HIDE DEF less
    <2>2. FrameTyped(less, other)
        BY <1>1, <2>1 DEF FrameTyped
    <2>. QED
        BY <2>2 DEF less
<1>2. CASE ~frame.object
    <2>1. less.object = frame.object /\ less.place = frame.place /\ less.kind = frame.kind
        BY <1>2 DEF FrameSound, IsRecord, LessOne
    <2>. HIDE DEF less
    <2>2. FrameTyped(less, other)
        BY <1>2, <2>1 DEF FrameTyped
    <2>. QED
        BY <2>2 DEF less
<1>. QED
    BY <1>1, <1>2

LEMMA AdvancedTyped ==
    ASSUME StackSound(stack, tree), stack # <<>>, NEW message, FramesTyped(stack, message)
    PROVE  FramesTyped(Append(Front(stack), LessOne(Top)), message)
<1>. DEFINE new == Append(Front(stack), LessOne(Top))
            n == Len(stack)
<1>1. /\ n \in Nat \ {0} /\ DOMAIN stack = 1..n /\ Top = stack[n] /\ FrameSound(Top, tree)
    BY LastFrame DEF Top
<1>2. DOMAIN new = 1..n /\ new[n] = LessOne(Top) /\ \A k \in 1..(n - 1) : new[k] = stack[k]
    <2>1. stack \in Seq(ToSet(stack))
        BY DEF StackSound
    <2>. QED
        BY <2>1, ReplaceTop
<1>. HIDE DEF new, n
<1>3. FrameTyped(new[n], message)
    <2>1. n \in DOMAIN stack
        BY <1>1
    <2>. QED
        BY <1>1, <1>2, <2>1, LessOneTyped DEF FramesTyped
<1>4. ASSUME NEW k \in 1..n, k # n
      PROVE  FrameTyped(new[k], message)
    <2>1. k \in 1..(n - 1) /\ k \in DOMAIN stack
        BY <1>1, <1>4
    <2>. QED
        BY <1>2, <2>1 DEF FramesTyped
<1>5. FramesTyped(new, message)
    BY <1>2, <1>3, <1>4 DEF FramesTyped
<1>. QED
    BY <1>5 DEF new

\* The open containers are above what is read now.
LEMMA FramesAbove ==
    ASSUME StackSound(stack, tree), stack # <<>>, NEW at, IsNext(at), NEW k \in DOMAIN stack
    PROVE  /\ stack[k].place \in Paths /\ IsPrefix(stack[k].place, at.place) /\ stack[k].place # at.place
           /\ ~IsPrefix(at.place, stack[k].place)
<1>. DEFINE n == Len(stack)
<1>1. /\ n \in Nat \ {0} /\ DOMAIN stack = 1..n /\ Top = stack[n]
    BY LastFrame DEF Top
<1>2. /\ stack[k].place \in Paths /\ Len(stack[k].place) = k - 1 /\ Top.place \in Paths /\ at.place \in Paths
      /\ Len(at.place) = n /\ IsPrefix(Top.place, at.place)
    BY TopIs DEF StackSound, FrameSound, IsNext, Readable, Places, Paths
<1>. HIDE DEF n
<1>3. IsPrefix(stack[k].place, Top.place)
    <2>1. CASE k = n
        BY <1>1, <1>2, <2>1, PrefixRefl
    <2>2. CASE k # n
        <3>1. k < n /\ n \in DOMAIN stack
            BY <1>1, <2>2
        <3>. QED
            BY <1>1, <3>1 DEF StackSound
    <2>. QED
        BY <2>1, <2>2
<1>4. IsPrefix(stack[k].place, at.place)
    BY <1>2, <1>3, PrefixTrans
<1>5. ~(n <= k - 1) /\ k - 1 # n
    BY <1>1
<1>6. ~IsPrefix(at.place, stack[k].place) /\ stack[k].place # at.place
    BY <1>2, <1>5, PrefixAt
<1>. QED
    BY <1>2, <1>4, <1>6

LEMMA FramesStayTyped ==
    ASSUME TreeSound(tree), StackSound(stack, tree), stack # <<>>, FramesTyped(stack, tree),
           NEW at, IsNext(at), NEW message, TreeSound(message), OnlyAt(at.place, tree, message)
    PROVE  FramesTyped(stack, message)
<1>. SUFFICES ASSUME NEW k \in DOMAIN stack
              PROVE  FrameTyped(stack[k], message)
    BY DEF FramesTyped
<1>. DEFINE frame == stack[k]
<1>1. frame.place \in Paths /\ ~IsPrefix(at.place, frame.place) /\ FrameTyped(frame, tree) /\ at.place \in Places
    BY FramesAbove DEF FramesTyped, IsNext, Readable
<1>. HIDE DEF frame
<1>2. Declared(message, frame.place) = Declared(tree, frame.place)
    BY <1>1, DeclaredBeside
<1>3. Agree(tree, message, frame.place)
    <2>1. CASE frame.place \in Places
        BY <1>1, <2>1 DEF OnlyAt, Agree
    <2>2. CASE frame.place = <<>>
        BY <2>2, SoundSays DEF Agree, Holds, Places
    <2>. QED
        BY <1>1, <2>1, <2>2 DEF Places
<1>4. FrameTyped(frame, message)
    BY <1>1, <1>2, <1>3 DEF FrameTyped, ClassAt, Agree
<1>. QED
    BY <1>4 DEF frame

\* Reading a value keeps all of it.
LEMMA TakesTyped ==
    ASSUME TreeSound(tree), StackSound(stack, tree), TableSound(types), stack # <<>>, Typed,
           NEW at, IsNext(at), Fits(tree, at), NEW token, TokenSound(token), Takes(at, token)
    PROVE  Typed'
<1>. DEFINE r == ReadValue(tree, at, ClassFor(at), token)
            frames == Append(Front(stack), LessOne(Top))
<1>1. ClassFor(at) \in (DOMAIN Classes \ {"Message"}) \cup {Null}
    BY ClassForIs DEF RealClasses
<1>2. ReadSound(tree, at, r) /\ ReadTyped(r)
    BY <1>1, ReadValueSound, ReadValueTyped DEF IsNext, Typed
<1>3. tree' = r.tree /\ (stack' = IF r.ok THEN frames \o r.open ELSE <<>>)
    BY DEF Takes, Advanced, LessOne
<1>4. frames \in Seq(ToSet(frames)) /\ DOMAIN frames = 1..Len(frames)
    BY ReplaceTop DEF StackSound
<1>5. FramesTyped(stack, r.tree)
    BY <1>2, FramesStayTyped DEF ReadSound, Typed, FramesTyped
<1>6. FramesTyped(frames, r.tree)
    BY <1>5, AdvancedTyped
<1>. HIDE DEF r, frames
<1>7. FramesTyped(frames \o r.open, r.tree)
    <2>1. CASE r.open = <<>>
        BY <1>4, <1>6, <2>1, ConcatEmptySeq
    <2>2. ASSUME NEW frame, r.open = <<frame>>
          PROVE  FramesTyped(frames \o r.open, r.tree)
        <3>. DEFINE new == frames \o <<frame>>
        <3>1. /\ DOMAIN new = 1..(Len(frames) + 1) /\ new[Len(frames) + 1] = frame
              /\ \A k \in 1..Len(frames) : new[k] = frames[k]
            BY <1>4, PushFrame
        <3>2. FrameTyped(frame, r.tree)
            <4>1. 1 \in DOMAIN r.open /\ r.open[1] = frame
                BY <2>2
            <4>. QED
                BY <1>2, <4>1 DEF ReadTyped
        <3>3. Len(frames) \in Nat
            BY <1>4
        <3>4. \A k \in 1..(Len(frames) + 1) : k \in 1..Len(frames) \/ k = Len(frames) + 1
            BY <3>3
        <3>. HIDE DEF new
        <3>5. FramesTyped(new, r.tree)
            BY <1>4, <1>6, <3>1, <3>2, <3>4 DEF FramesTyped
        <3>. QED
            BY <2>2, <3>5 DEF new
    <2>. QED
        BY <1>2, <2>1, <2>2 DEF ReadSound
<1>8. FramesTyped(<<>>, r.tree)
    BY DEF FramesTyped
<1>9. FramesTyped(stack', tree')
    BY <1>3, <1>7, <1>8
<1>. QED
    BY <1>2, <1>3, <1>9 DEF Typed, ReadTyped, FramesTyped

LEMMA EmptyTyped == WellTyped(EmptyTree)
BY DEF WellTyped, EmptyTree

\* Each step leaves the message as it is declared.
LEMMA NextTyped == MessageSound /\ Typed /\ [Next]_vars => Typed'
<1>. SUFFICES ASSUME MessageSound, Typed, [Next]_vars
              PROVE  Typed'
    OBVIOUS
<1>1. /\ TreeSound(tree) /\ StackSound(stack, tree) /\ TableSound(types)
      /\ phase = "reading" <=> stack # <<>>
    BY DEF MessageSound, TypeOK
<1>2. CASE UNCHANGED <<stack, tree>>
    BY <1>2 DEF Typed
<1>3. CASE stack' = <<>> /\ UNCHANGED tree
    BY <1>3 DEF Typed
<1>4. CASE Receive
    <2>1. UNCHANGED tree
        BY <1>4 DEF Receive
    <2>2. PICK token : stack' = ReadObject(EmptyTree, <<>>, "Message", 0, token).open
        BY <1>4 DEF Receive
    <2>. DEFINE frame == ObjectFrame(<<>>, "Message", 0, token.count)
    <2>3. stack' = <<>> \/ stack' = <<frame>>
        BY <2>2 DEF ReadObject, Failed, Opens
    <2>4. FrameTyped(frame, tree)
        <3>1. Declared(tree, <<>>) = Root
            BY DeclaredRoot
        <3>. QED
            BY <3>1 DEF FrameTyped, ObjectFrame, Root, ClassAt
    <2>. HIDE DEF frame
    <2>. QED
        BY <2>1, <2>3, <2>4 DEF Typed
<1>5. CASE Close
    <2>1. UNCHANGED tree /\ stack' = Front(stack) /\ stack # <<>>
        BY <1>1, <1>5 DEF Close
    <2>2. \A k \in DOMAIN Front(stack) : k \in DOMAIN stack /\ Front(stack)[k] = stack[k]
        BY <1>1, <2>1, StackPopped
    <2>. QED
        BY <2>1, <2>2 DEF Typed
<1>6. CASE Destroy
    <2>1. tree' = EmptyTree /\ UNCHANGED stack /\ stack = <<>>
        BY <1>1, <1>6, DestroyedEmpty DEF Destroy
    <2>. QED
        BY <2>1, EmptyTyped DEF Typed
<1>7. CASE ReadNext
    <2>1. Top.left > 0 /\ stack # <<>> /\ FrameTyped(Top, tree)
        <3>1. Len(stack) \in DOMAIN stack /\ Top = stack[Len(stack)]
            BY <1>1, <1>7, LastFrame DEF ReadNext, Top
        <3>. QED
            BY <1>1, <1>7, <3>1 DEF ReadNext, Typed
    <2>2. ASSUME Top.object, NEW m \in Members, NEW token \in Tokens(m.name, Head(m.kind)), ReadMember(m, token)
          PROVE  Typed'
        <3>1. IsNext(MemberAt(Top, m)) /\ Fits(tree, MemberAt(Top, m))
            BY <1>1, <2>1, <2>2, MemberIsNext, MemberFits
        <3>2. TokenSound(token) /\ Takes(MemberAt(Top, m), token)
            BY <2>2, TokensSound DEF ReadMember
        <3>. QED
            BY <1>1, <2>1, <3>1, <3>2, TakesTyped
    <2>3. ASSUME ~Top.object, NEW token \in Tokens(Top.name, Head(Top.kind)), Takes(SlotAt(Top), token)
          PROVE  Typed'
        <3>1. IsNext(SlotAt(Top)) /\ Fits(tree, SlotAt(Top)) /\ TokenSound(token)
            BY <1>1, <2>1, <2>3, SlotIsNext, SlotFits, TokensSound
        <3>. QED
            BY <1>1, <2>1, <2>3, <3>1, TakesTyped
    <2>4. ASSUME NEW broken \in BOOLEAN, ReadUnknown(broken)
          PROVE  Typed'
        <3>1. UNCHANGED tree /\ (stack' = <<>> \/ stack' = Append(Front(stack), LessOne(Top)))
            BY <2>4 DEF ReadUnknown, Advanced, LessOne
        <3>2. FramesTyped(Append(Front(stack), LessOne(Top)), tree)
            BY <1>1, <2>1, AdvancedTyped DEF Typed, FramesTyped
        <3>. QED
            BY <3>1, <3>2 DEF Typed, FramesTyped
    <2>5. CASE BadKey
        BY <1>3, <2>5 DEF BadKey
    <2>. QED
        BY <1>7, <2>2, <2>3, <2>4, <2>5 DEF ReadNext
<1>8. CASE InitController \/ RegisterDefaults \/ (\E set \in BOOLEAN : SetOnReceived(set))
           \/ (\E e \in Payloads : RegisterPayload(e)) \/ Deliver \/ Write \/ Return \/ UNCHANGED vars
    BY <1>2, <1>8 DEF InitController, RegisterDefaults, SetOnReceived, RegisterPayload, Deliver, Write, Return, vars
<1>. QED
    BY <1>4, <1>5, <1>6, <1>7, <1>8 DEF Next, Loop

LEMMA InitIInv == Init => IInv
BY InitSound, EmptyTyped DEF Init, IInv, Typed

LEMMA NextIInv == IInv /\ [Next]_vars => IInv'
BY NextSound, NextTyped DEF IInv

-----------------------------------------------------------------------------------
(* The theorems. *)

\* loop(): whatever values a message has, and wherever it breaks off, the tree that was
\* read so far, the containers that are open and the registry fit together.
THEOREM MessageAlwaysSound == Spec => []IInv
BY InitIInv, NextIInv, PTL DEF Spec

\* The controller's variables keep their types.
THEOREM ControllerTypes == Spec => []TypeOK
<1>1. IInv => TypeOK
    BY DEF IInv, MessageSound
<1>. QED
    BY <1>1, MessageAlwaysSound, PTL

\* ~MPackObjectBase(): after every value, on success and on every error path, the
\* destructors would free each block that read() allocated, and free none twice.
THEOREM NothingEverLost == Spec => []NothingLost
<1>1. IInv => NothingLost
    BY DestroyedEmpty DEF IInv, MessageSound, NothingLost
<1>. QED
    BY <1>1, MessageAlwaysSound, PTL

\* _decodedMembers: a bit that is set belongs to an object that is still there.
THEOREM BitsAlwaysHaveObjects == Spec => []BitsHaveObjects
<1>1. IInv => BitsHaveObjects
    BY DEF IInv, MessageSound, TreeSound, BitsHaveObjects
<1>. QED
    BY <1>1, MessageAlwaysSound, PTL

\* Message::createObject(): the callback gets a payload of the class that the registry
\* has for the message's type and operation, unless an object repeated a key.
THEOREM PayloadAlwaysMatches == Spec => []PayloadMatches
<1>1. IInv => PayloadMatches
    BY DEF IInv, MessageSound, PayloadSound, PayloadMatches
<1>. QED
    BY <1>1, MessageAlwaysSound, PTL

\* write(): what the callback sends is one MessagePack value. The members that the
\* first pass counted are those that the second writes, whatever was decoded.
THEOREM SentAlwaysWhole == Spec => []SentWhole
<1>1. Init => SentWhole
    BY DEF Init, SentWhole
<1>2. SentWhole /\ IInv /\ [Next]_vars => SentWhole'
    <2>. SUFFICES ASSUME SentWhole, IInv, [Next]_vars
                  PROVE  SentWhole'
        OBVIOUS
    <2>1. CASE Write
        <3>1. WellTyped(tree)
            BY DEF IInv, Typed
        <3>2. \/ sent' = Unsent
              \/ sent' = WriteMessage(tree) /\ TooBig \notin ToSet(WriteMessage(tree))
            BY <2>1 DEF Write
        <3>. QED
            BY <3>1, <3>2, MessageWritten DEF SentWhole
    <2>2. CASE Destroy
        BY <2>2 DEF Destroy, SentWhole
    <2>3. CASE UNCHANGED sent
        BY <2>3 DEF SentWhole
    <2>. QED
        BY <2>1, <2>2, <2>3 DEF Next, Loop, InitController, RegisterDefaults, SetOnReceived, RegisterPayload,
            Receive, ReadNext, Close, Deliver, Return, vars
<1>. QED
    BY <1>1, <1>2, MessageAlwaysSound, PTL DEF Spec

\* No step takes an entry out of the registry or moves one.
LEMMA TypesGrow ==
    ASSUME TableSound(types), [Next]_vars
    PROVE  TableSound(types') /\ Extends(types, types')
<1>1. CASE UNCHANGED types
    BY <1>1 DEF Extends
<1>2. CASE RegisterDefaults
    BY <1>2, WithDefaultsSound DEF RegisterDefaults
<1>3. ASSUME NEW e \in Payloads, RegisterPayload(e)
      PROVE  TableSound(types') /\ Extends(types, types')
    BY <1>3, RegisteredSound DEF RegisterPayload
<1>4. CASE Loop
    BY <1>1, <1>4 DEF Loop, Receive, ReadNext, Close, Deliver, Write, Return, Destroy
<1>5. CASE InitController \/ (\E set \in BOOLEAN : SetOnReceived(set)) \/ UNCHANGED vars
    BY <1>1, <1>5 DEF InitController, SetOnReceived, vars
<1>. QED
    BY <1>2, <1>3, <1>4, <1>5 DEF Next

\* registerType(): a class that was registered with success is the one that create()
\* makes from then on, whatever else is registered.
THEOREM NeverEverRebound == Spec => NeverRebound
<1>. DEFINE Stays == \A e \in Payloads \cup ToSet(DefaultTypes) :
                Accepted(types, e) /\ Bound(types, e.msgType, e.opCode) # {} =>
                    PayloadClass(types', e.msgType, e.opCode, Null) = e.class
<1>1. IInv /\ [Next]_vars => Stays
    BY TypesGrow, StaysBound DEF IInv, MessageSound
<1>. HIDE DEF Stays
<1>2. IInv /\ [Next]_vars => [Stays]_vars
    BY <1>1
<1>3. Spec => [][Stays]_vars
    BY <1>2, MessageAlwaysSound, PTL DEF Spec
<1>. QED
    BY <1>3 DEF Stays, NeverRebound
===================================================================================
