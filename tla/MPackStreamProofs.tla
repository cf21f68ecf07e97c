----------------------------- MODULE MPackStreamProofs -----------------------------
(* What the writer of mpack passes on is the message, whatever buffers, flushes and   *)
(* builder pages the bytes go through.                                                *)
EXTENDS MPackWriterProofs

------------------------------------------------------------------------------------
(* What the user has open. *)

\* What a user has open, and the part of the message's last body that is still to come.
Items == [how : {"bytes", "start", "build"}, index : Nat, left : Int]
Rest(msg, opn) ==
    IF opn # <<>> /\ opn[Len(opn)].how = "bytes"
    THEN LET body == msg[Len(msg)].body
         IN  SubSeq(body, Len(body) - opn[Len(opn)].left + 1, Len(body))
    ELSE <<>>
ProperItem(msg, opn, p) ==
    /\ opn[p].index \in 1..Len(msg)
    /\ opn[p].how = "bytes" =>
        p = Len(opn) /\ opn[p].index = Len(msg) /\ opn[p].left \in 0..Len(msg[Len(msg)].body)
    /\ opn[p].how = "build" =>
        msg[opn[p].index].tag.type \in {"array", "map"} /\ -1 - opn[p].left \in 0..Len(msg)
Proper(msg, opn) ==
    /\ msg \in Seq(Tokens) /\ Len(msg) <= MaxTokens /\ opn \in Seq(Items)
    /\ \A p \in 1..Len(opn) : ProperItem(msg, opn, p)
NoBytes(opn) == \A p \in 1..Len(opn) : opn[p].how # "bytes"
Counting(opn) == IF opn = <<>> THEN opn ELSE [opn EXCEPT ![Len(opn)].left = @ - 1]

LEMMA ProperTop ==
    ASSUME NEW msg, NEW opn, Proper(msg, opn), opn # <<>> => opn[Len(opn)].how # "bytes"
    PROVE  NoBytes(opn) /\ Rest(msg, opn) = <<>>
<1>1. ASSUME NEW p \in 1..Len(opn), opn[p].how = "bytes"
      PROVE  FALSE
    <2>1. p = Len(opn)
        BY <1>1 DEF Proper, ProperItem
    <2>2. opn # <<>>
        BY <1>1 DEF Proper
    <2>. QED
        BY <1>1, <2>1, <2>2
<1>. QED
    BY <1>1 DEF NoBytes, Rest

LEMMA CountingItems ==
    ASSUME NEW opn \in Seq(Items)
    PROVE  /\ Counting(opn) \in Seq(Items) /\ Len(Counting(opn)) = Len(opn)
           /\ \A p \in 1..Len(opn) :
                /\ Counting(opn)[p].how = opn[p].how /\ Counting(opn)[p].index = opn[p].index
                /\ p # Len(opn) => Counting(opn)[p].left = opn[p].left
                /\ p = Len(opn) => Counting(opn)[p].left = opn[p].left - 1
<1>1. CASE opn = <<>>
    BY <1>1 DEF Counting
<1>2. CASE opn # <<>>
    <2>. DEFINE n == Len(opn)
                x == [opn EXCEPT ![n].left = opn[n].left - 1]
    <2>1. n \in 1..n /\ DOMAIN opn = 1..n
        BY <1>2
    <2>2. Counting(opn) = x
        BY <1>2 DEF Counting
    <2>3. opn[n] \in Items
        BY <2>1
    <2>4. /\ [opn[n] EXCEPT !.left = opn[n].left - 1] \in Items
          /\ [opn[n] EXCEPT !.left = opn[n].left - 1].how = opn[n].how
          /\ [opn[n] EXCEPT !.left = opn[n].left - 1].index = opn[n].index
          /\ [opn[n] EXCEPT !.left = opn[n].left - 1].left = opn[n].left - 1
        BY <2>3 DEF Items
    <2>5. x = [opn EXCEPT ![n] = [opn[n] EXCEPT !.left = opn[n].left - 1]]
        BY <2>1
    <2>. DEFINE i == [opn[n] EXCEPT !.left = opn[n].left - 1]
    <2>6. i \in Items /\ x = [opn EXCEPT ![n] = i] /\ i.how = opn[n].how /\ i.index = opn[n].index /\ i.left = opn[n].left - 1
        BY <2>4, <2>5
    <2>. HIDE DEF i, x
    <2>7. n \in Nat /\ opn \in [1..n -> Items]
        BY <1>2
    <2>8. n = Len(opn)
        OBVIOUS
    <2>. HIDE DEF n
    <2>9. x \in [1..n -> Items] /\ x[n] = i /\ \A p \in 1..n : p # n => x[p] = opn[p]
        BY <2>1, <2>6, <2>7
    <2>10. x \in Seq(Items) /\ Len(x) = n
        BY <2>7, <2>9
    <2>. QED
        BY <2>2, <2>6, <2>8, <2>9, <2>10
<1>. QED
    BY <1>1, <1>2

LEMMA ProperSaid ==
    ASSUME NEW msg, NEW opn, Proper(msg, opn), NoBytes(opn), Len(msg) < MaxTokens, NEW token \in Tokens
    PROVE  Proper(Append(msg, token), Counting(opn)) /\ NoBytes(Counting(opn))
<1>. DEFINE m == Append(msg, token)
            o == Counting(opn)
<1>1. msg \in Seq(Tokens) /\ opn \in Seq(Items) /\ Len(msg) \in Nat /\ Len(opn) \in Nat
    BY DEF Proper
<1>2. m \in Seq(Tokens) /\ Len(m) = Len(msg) + 1 /\ \A i \in 1..Len(msg) : m[i] = msg[i]
    BY <1>1
<1>3. /\ o \in Seq(Items) /\ Len(o) = Len(opn)
      /\ \A p \in 1..Len(opn) :
            /\ o[p].how = opn[p].how /\ o[p].index = opn[p].index
            /\ p # Len(opn) => o[p].left = opn[p].left
            /\ p = Len(opn) => o[p].left = opn[p].left - 1
    BY <1>1, CountingItems
<1>. HIDE DEF m, o
<1>4. ASSUME NEW p \in 1..Len(o)
      PROVE  ProperItem(m, o, p) /\ o[p].how # "bytes"
    <2>1. ProperItem(msg, opn, p) /\ opn[p].how # "bytes" /\ o[p].how = opn[p].how /\ o[p].index = opn[p].index
        BY <1>3 DEF Proper, NoBytes
    <2>2. opn[p].index \in 1..Len(msg) /\ opn[p].left \in Int
        <3>1. opn[p] \in Items
            BY <1>1, <1>3
        <3>. QED
            BY <2>1, <3>1 DEF ProperItem, Items
    <2>3. o[p].index \in 1..Len(m) /\ m[o[p].index] = msg[opn[p].index]
        BY <1>1, <1>2, <2>1, <2>2
    <2>4. o[p].left = opn[p].left \/ o[p].left = opn[p].left - 1
        BY <1>3
    <2>5. ASSUME o[p].how = "build"
          PROVE  m[o[p].index].tag.type \in {"array", "map"} /\ -1 - o[p].left \in 0..Len(m)
        <3>1. msg[opn[p].index].tag.type \in {"array", "map"} /\ -1 - opn[p].left \in 0..Len(msg)
            BY <2>1, <2>5 DEF ProperItem
        <3>. DEFINE a == opn[p].left
                    b == o[p].left
                    k == Len(msg)
        <3>2. a \in Int /\ b \in {a, a - 1} /\ k \in Nat /\ -1 - a \in 0..k /\ Len(m) = k + 1
            BY <1>1, <1>2, <2>2, <2>4, <3>1
        <3>. HIDE DEF a, b, k
        <3>3. -1 - b \in 0..(k + 1)
            BY <3>2
        <3>4. -1 - o[p].left \in 0..Len(m)
            BY <3>2, <3>3 DEF b
        <3>. QED
            BY <2>3, <3>1, <3>4
    <2>. QED
        BY <2>1, <2>3, <2>5 DEF ProperItem
<1>5. Len(m) <= MaxTokens
    BY <1>1, <1>2, StreamAssumption
<1>. QED
    BY <1>2, <1>3, <1>4, <1>5 DEF Proper, NoBytes, m, o

\* An item on top of those that are open, and the top one taken away.
Pushed(opn, item, o) ==
    /\ o \in Seq(Items) /\ Len(o) = Len(opn) + 1 /\ o[Len(opn) + 1] = item
    /\ \A p \in 1..Len(opn) : o[p] = opn[p]
Popped(opn, o) ==
    /\ o \in Seq(Items) /\ Len(opn) >= 1 /\ Len(o) = Len(opn) - 1
    /\ \A p \in 1..(Len(opn) - 1) : o[p] = opn[p]

LEMMA Pushing ==
    ASSUME NEW opn \in Seq(Items), NEW item \in Items
    PROVE  Pushed(opn, item, Append(opn, item))
BY DEF Pushed

LEMMA Popping ==
    ASSUME NEW opn \in Seq(Items), opn # <<>>
    PROVE  Popped(opn, Front(opn)) /\ Last(opn) = opn[Len(opn)] /\ Len(opn) \in Nat
<1>1. Len(opn) \in Nat /\ Len(opn) >= 1
    OBVIOUS
<1>2. Front(opn) = SubSeq(opn, 1, Len(opn) - 1) /\ Last(opn) = opn[Len(opn)]
    BY DEF Front, Last
<1>. DEFINE n == Len(opn) - 1
<1>3. n \in 0..Len(opn) /\ n \in Nat
    BY <1>1
<1>. HIDE DEF n
<1>4. SubSeq(opn, 1, n) \in Seq(Items) /\ Len(SubSeq(opn, 1, n)) = n /\ \A p \in 1..n : SubSeq(opn, 1, n)[p] = opn[p]
    BY <1>3
<1>. QED
    BY <1>1, <1>2, <1>4 DEF Popped, n

LEMMA ProperPushed ==
    ASSUME NEW msg, NEW opn, Proper(msg, opn), NoBytes(opn), NEW item, NEW o, Pushed(opn, item, o),
           item.index = Len(msg), Len(msg) >= 1,
           item.how = "bytes" => item.left \in 0..Len(msg[Len(msg)].body),
           item.how = "build" => item.left = -1 /\ msg[Len(msg)].tag.type \in {"array", "map"}
    PROVE  Proper(msg, o)
<1>1. msg \in Seq(Tokens) /\ opn \in Seq(Items) /\ Len(msg) \in Nat /\ Len(opn) \in Nat
    BY DEF Proper
<1>2. ASSUME NEW p \in 1..Len(o)
      PROVE  ProperItem(msg, o, p)
    <2>1. CASE p = Len(opn) + 1
        <3>1. o[p] = item /\ p = Len(o)
            BY <2>1 DEF Pushed
        <3>2. 0 \in 0..Len(msg) /\ Len(msg) \in 1..Len(msg) /\ -1 - (-1) = 0
            BY <1>1
        <3>. QED
            BY <3>1, <3>2 DEF ProperItem
    <2>2. CASE p # Len(opn) + 1
        <3>1. p \in 1..Len(opn)
            BY <1>1, <2>2 DEF Pushed
        <3>2. o[p] = opn[p] /\ ProperItem(msg, opn, p) /\ opn[p].how # "bytes"
            BY <3>1 DEF Pushed, Proper, NoBytes
        <3>. QED
            BY <3>2 DEF ProperItem
    <2>. QED
        BY <2>1, <2>2
<1>. QED
    BY <1>1, <1>2 DEF Proper, Pushed

LEMMA ProperPopped ==
    ASSUME NEW msg, NEW opn, Proper(msg, opn), NEW o, Popped(opn, o)
    PROVE  Proper(msg, o) /\ NoBytes(o)
<1>1. msg \in Seq(Tokens) /\ opn \in Seq(Items) /\ Len(msg) \in Nat /\ Len(opn) \in Nat
    BY DEF Proper
<1>2. ASSUME NEW p \in 1..Len(o)
      PROVE  ProperItem(msg, o, p) /\ o[p].how # "bytes"
    <2>1. p \in 1..(Len(opn) - 1) /\ p # Len(opn) /\ p \in 1..Len(opn)
        BY <1>1 DEF Popped
    <2>2. o[p] = opn[p] /\ ProperItem(msg, opn, p)
        BY <2>1 DEF Popped, Proper
    <2>. QED
        BY <2>1, <2>2 DEF ProperItem
<1>. QED
    BY <1>1, <1>2 DEF Proper, Popped, NoBytes

\* As many of the body's bytes are written.
Advanced(opn, count, o) ==
    /\ o \in Seq(Items) /\ Len(o) = Len(opn) /\ opn # <<>>
    /\ o[Len(opn)].how = opn[Len(opn)].how /\ o[Len(opn)].index = opn[Len(opn)].index
    /\ o[Len(opn)].left = opn[Len(opn)].left - count
    /\ \A p \in 1..Len(opn) : p # Len(opn) => o[p] = opn[p]
LEMMA Advancing ==
    ASSUME NEW opn \in Seq(Items), opn # <<>>, NEW count \in Int,
           NEW o, o = [opn EXCEPT ![Len(opn)].left = opn[Len(opn)].left - count]
    PROVE  Advanced(opn, count, o)
<1>. DEFINE n == Len(opn)
            i == [opn[n] EXCEPT !.left = opn[n].left - count]
<1>1. n \in 1..n /\ DOMAIN opn = 1..n /\ n \in Nat /\ opn \in [1..n -> Items] /\ n = Len(opn)
    OBVIOUS
<1>2. opn[n] \in Items
    BY <1>1
<1>3. i \in Items /\ i.how = opn[n].how /\ i.index = opn[n].index /\ i.left = opn[n].left - count
    <2>. DEFINE b == opn[n]
                c == b.left - count
    <2>1. b \in Items /\ b.left \in Int
        BY <1>2 DEF Items
    <2>2. c \in Int /\ i = [b EXCEPT !.left = c]
        BY <2>1
    <2>. HIDE DEF b, c, i
    <2>3. i \in Items /\ i.how = b.how /\ i.index = b.index /\ i.left = c
        BY <2>1, <2>2 DEF Items
    <2>. QED
        BY <2>3 DEF b, c
<1>4. o = [opn EXCEPT ![n] = i]
    BY <1>1
<1>. HIDE DEF i, n
<1>5. o \in [1..n -> Items] /\ o[n] = i /\ \A p \in 1..n : p # n => o[p] = opn[p]
    BY <1>1, <1>3, <1>4
<1>6. o \in Seq(Items) /\ Len(o) = n
    BY <1>1, <1>5
<1>. QED
    BY <1>1, <1>3, <1>5, <1>6 DEF Advanced

Splits(flat, a, n) ==
    /\ SubSeq(flat, a + 1, a + n) \o SubSeq(flat, a + n + 1, Len(flat)) = SubSeq(flat, a + 1, Len(flat))
    /\ SubSeq(flat, a + 1, a + n) \in Bytes /\ SubSeq(flat, a + n + 1, Len(flat)) \in Bytes
LEMMA TailSplit ==
    ASSUME NEW flat \in Bytes, NEW a \in Nat, NEW n \in Nat, a + n <= Len(flat)
    PROVE  Splits(flat, a, n)
<1>. DEFINE b == a + n
            c == Len(flat)
<1>1. b \in Nat /\ a <= b /\ b <= c /\ c <= Len(flat) /\ c \in Nat
    BY DEF Bytes
<1>. HIDE DEF b, c
<1>2. /\ SubSeq(flat, a + 1, b) \o SubSeq(flat, b + 1, c) = SubSeq(flat, a + 1, c)
      /\ SubSeq(flat, a + 1, b) \in Bytes /\ SubSeq(flat, b + 1, c) \in Bytes
    BY <1>1, SlicesJoin
<1>. QED
    BY <1>2 DEF b, c, Splits

\* The next bytes of the body that is open, and what remains of it.
NextPart(msg, opn, count, more) ==
    LET body == msg[Len(msg)].body
        from == Len(body) - opn[Len(opn)].left
    IN  more = SubSeq(body, from + 1, from + count)
PartOf(msg, opn, more, o) ==
    /\ Proper(msg, o) /\ more \in Bytes /\ Len(more) > 0
    /\ Rest(msg, opn) = more \o Rest(msg, o) /\ Rest(msg, o) \in Bytes
LEMMA PartAdvanced ==
    ASSUME NEW msg, NEW opn, Proper(msg, opn), opn # <<>>, opn[Len(opn)].how = "bytes",
           NEW count \in 1..opn[Len(opn)].left, NEW o, Advanced(opn, count, o),
           NEW more, NextPart(msg, opn, count, more)
    PROVE  PartOf(msg, opn, more, o)
<1>. DEFINE n == Len(opn)
            left == opn[n].left
            body == msg[Len(msg)].body
            from == Len(body) - left
<1>1. msg \in Seq(Tokens) /\ opn \in Seq(Items) /\ Len(msg) \in Nat /\ n \in Nat /\ n \in 1..n
    BY DEF Proper
<1>2. ProperItem(msg, opn, n)
    BY <1>1 DEF Proper
<1>3. opn[n].index \in 1..Len(msg) /\ opn[n].index = Len(msg) /\ left \in 0..Len(body)
    BY <1>2 DEF ProperItem
<1>4. msg[Len(msg)] \in Tokens
    BY <1>1, <1>3
<1>5. body \in Bytes /\ Len(body) \in Nat
    BY <1>4 DEF Tokens, Bytes
<1>6. o[n].left = left - count /\ o[n].how = "bytes" /\ o[n].index = opn[n].index /\ Len(o) = n /\ o # <<>>
    BY <1>1 DEF Advanced
<1>7. Rest(msg, opn) = SubSeq(body, Len(body) - left + 1, Len(body))
    BY DEF Rest
<1>8. Rest(msg, o) = SubSeq(body, Len(body) - (left - count) + 1, Len(body))
    <2>1. Rest(msg, o) = SubSeq(body, Len(body) - o[n].left + 1, Len(body))
        BY <1>6 DEF Rest
    <2>. QED
        BY <1>6, <2>1
<1>9. count \in 1..left
    OBVIOUS
<1>10. from = Len(body) - left
    OBVIOUS
<1>11. ASSUME NEW p \in 1..n
       PROVE  ProperItem(msg, o, p)
    <2>1. CASE p = n
        <3>1. left - count \in 0..Len(body)
            <4>. HIDE DEF left
            <4>. QED
                BY <1>3, <1>5, <1>9
        <3>. QED
            BY <1>3, <1>6, <2>1, <3>1 DEF ProperItem
    <2>2. CASE p # n
        <3>1. ProperItem(msg, opn, p) /\ o[p] = opn[p]
            BY <2>2 DEF Proper, Advanced
        <3>. QED
            BY <1>6, <2>2, <3>1 DEF ProperItem
    <2>. QED
        BY <2>1, <2>2
<1>12. Proper(msg, o)
    BY <1>1, <1>6, <1>11 DEF Proper, Advanced
<1>16. more = SubSeq(body, from + 1, from + count)
    BY DEF NextPart
<1>. HIDE DEF left, from, body
<1>13. /\ from \in Nat /\ from + count \in Nat /\ from <= from + count /\ from + count <= Len(body)
       /\ Len(body) - left + 1 = from + 1 /\ Len(body) - (left - count) + 1 = from + count + 1
    BY <1>3, <1>5, <1>9, <1>10
<1>14. /\ SubSeq(body, from + 1, from + count) \o SubSeq(body, from + count + 1, Len(body)) = SubSeq(body, from + 1, Len(body))
       /\ SubSeq(body, from + 1, from + count) \in Bytes /\ SubSeq(body, from + count + 1, Len(body)) \in Bytes
    <2>1. count \in Nat
        BY <1>3, <1>9
    <2>2. Splits(body, from, count)
        BY <1>5, <1>13, <2>1, TailSplit
    <2>. QED
        BY <2>2 DEF Splits
<1>15. Len(SubSeq(body, from + 1, from + count)) > 0
    BY <1>5, <1>9, <1>13 DEF Bytes
<1>. QED
    BY <1>5, <1>7, <1>8, <1>12, <1>13, <1>14, <1>15, <1>16 DEF PartOf

LEMMA ValidCount ==
    ASSUME NEW type \in {"str", "bin", "array", "map"}, NEW n \in Nat, n < Weight[4]
    PROVE  Valid(Tag(type, n)) /\ Tag(type, n) \in Tags /\ Tag(type, n).type = type /\ Tag(type, n).value = n
<1>. DEFINE tag == Tag(type, n)
<1>1. tag.type = type /\ tag.value = n /\ tag \in [type : Kinds, value : Int]
    BY DEF Tag, Kinds
<1>2. PICK f \in Formats : f.type = type /\ f.width = 4
    <2>1. CASE type = "str"
        <3>1. Format("str", 219, 4) \in Formats /\ Format("str", 219, 4).type = "str" /\ Format("str", 219, 4).width = 4
            BY DEF Formats, Format
        <3>. QED
            BY <2>1, <3>1
    <2>2. CASE type = "bin"
        <3>1. Format("bin", 198, 4) \in Formats /\ Format("bin", 198, 4).type = "bin" /\ Format("bin", 198, 4).width = 4
            BY DEF Formats, Format
        <3>. QED
            BY <2>2, <3>1
    <2>3. CASE type = "array"
        <3>1. Format("array", 221, 4) \in Formats /\ Format("array", 221, 4).type = "array" /\ Format("array", 221, 4).width = 4
            BY DEF Formats, Format
        <3>. QED
            BY <2>3, <3>1
    <2>4. CASE type = "map"
        <3>1. Format("map", 223, 4) \in Formats /\ Format("map", 223, 4).type = "map" /\ Format("map", 223, 4).width = 4
            BY DEF Formats, Format
        <3>. QED
            BY <2>4, <3>1
    <2>. QED
        BY <2>1, <2>2, <2>3, <2>4
<1>. HIDE DEF tag
<1>3. Fits(tag, f)
    BY <1>1, <1>2 DEF Fits
<1>4. Valid(tag)
    BY <1>1, <1>2, <1>3 DEF Valid
<1>. QED
    BY <1>1, <1>4 DEF tag, Tags

\* A tag that gets the count it turned out to have.
Retold(msg, i, tag, m) ==
    /\ m \in Seq(Tokens) /\ Len(m) = Len(msg) /\ i \in 1..Len(msg)
    /\ m[i].tag = tag /\ m[i].body = msg[i].body /\ tag.type = msg[i].tag.type
    /\ \A k \in 1..Len(msg) : k # i => m[k] = msg[k]
LEMMA Retelling ==
    ASSUME NEW msg \in Seq(Tokens), NEW i \in 1..Len(msg), NEW n \in Nat, n < Weight[4],
           NEW type \in {"array", "map"}, msg[i].tag.type = type,
           NEW m, m = [msg EXCEPT ![i].tag.value = n]
    PROVE  Retold(msg, i, Tag(type, n), m)
<1>. DEFINE old == msg[i].tag
            new == [old EXCEPT !.value = n]
            token == [msg[i] EXCEPT !.tag = new]
            length == Len(msg)
<1>1. msg[i] \in Tokens /\ length \in Nat /\ msg \in [1..length -> Tokens] /\ length = Len(msg) /\ i \in 1..length
    OBVIOUS
<1>2. old \in [type : Kinds, value : Int] /\ old.type = type /\ msg[i] = [tag |-> old, body |-> msg[i].body] /\ msg[i].body \in Bytes
    BY <1>1 DEF Tokens, Tags
<1>3. new = Tag(type, n)
    <2>. HIDE DEF old
    <2>. QED
        BY <1>2 DEF Tag
<1>4. new \in Tags
    BY <1>3, ValidCount
<1>5. token = [tag |-> new, body |-> msg[i].body]
    <2>. HIDE DEF new, old
    <2>. QED
        BY <1>2
<1>6. token \in Tokens /\ token.tag = new /\ token.body = msg[i].body
    BY <1>2, <1>4, <1>5 DEF Tokens
<1>7. m = [msg EXCEPT ![i] = token]
    BY <1>1
<1>. HIDE DEF token, new, old, length
<1>8. m \in [1..length -> Tokens] /\ m[i] = token /\ \A k \in 1..length : k # i => m[k] = msg[k]
    BY <1>1, <1>6, <1>7
<1>9. m \in Seq(Tokens) /\ Len(m) = length
    BY <1>1, <1>8
<1>10. Tag(type, n).type = type
    BY DEF Tag
<1>. QED
    BY <1>1, <1>3, <1>6, <1>8, <1>9, <1>10 DEF Retold

LEMMA ProperRetold ==
    ASSUME NEW msg, NEW opn, Proper(msg, opn), NoBytes(opn), NEW i, NEW tag, NEW m, Retold(msg, i, tag, m)
    PROVE  Proper(m, opn)
<1>1. ASSUME NEW p \in 1..Len(opn)
      PROVE  ProperItem(m, opn, p)
    <2>1. ProperItem(msg, opn, p) /\ opn[p].how # "bytes"
        BY DEF Proper, NoBytes
    <2>2. ASSUME NEW k \in 1..Len(msg)
          PROVE  m[k].tag.type = msg[k].tag.type
        BY DEF Retold
    <2>3. opn[p].index \in 1..Len(msg) /\ Len(m) = Len(msg)
        BY <2>1 DEF ProperItem, Retold
    <2>. QED
        BY <2>1, <2>2, <2>3 DEF ProperItem
<1>2. m \in Seq(Tokens) /\ Len(m) = Len(msg)
    BY DEF Retold
<1>. QED
    BY <1>1, <1>2 DEF Proper

------------------------------------------------------------------------------------
(* Between what is open and the builds: which one counts what is written. *)

\* For each item, the build that is around what it holds (0: none) and how many
\* plain arrays and maps there are between that build, if any, and what the item holds.
DepthAt(opn, under, above, p) ==
    /\ opn[p].how = "build" => under[p] > under[p - 1] /\ above[p] = 0
    /\ opn[p].how = "start" => under[p] = under[p - 1] /\ (under[p] # 0 => above[p] = above[p - 1] + 1)
    /\ opn[p].how = "bytes" => under[p] = under[p - 1] /\ above[p] = above[p - 1]
    /\ under[p] # 0 => \E q \in 1..p : opn[q].how = "build" /\ under[q] = under[p]
Depths(opn, under, above) ==
    /\ opn \in Seq(Items)
    /\ under \in [0..Len(opn) -> Nat] /\ above \in [0..Len(opn) -> Nat] /\ under[0] = 0 /\ above[0] = 0
    /\ \A p \in 1..Len(opn) : DepthAt(opn, under, above, p)
    /\ \A p \in 0..Len(opn), q \in 0..Len(opn) : p <= q => under[p] <= under[q]
Further1(n, f, g, v) ==
    g \in [0..(n + 1) -> Nat] /\ g[n + 1] = v /\ \A p \in 0..n : g[p] = f[p]
Shorter(n, f, g) ==
    g \in [0..(n - 1) -> Nat] /\ \A p \in 0..(n - 1) : g[p] = f[p]

LEMMA FurtherExists ==
    ASSUME NEW n \in Nat, NEW f \in [0..n -> Nat], NEW v \in Nat
    PROVE  \E g : Further1(n, f, g, v)
<1>. DEFINE g == [p \in 0..(n + 1) |-> IF p = n + 1 THEN v ELSE f[p]]
<1>1. ASSUME NEW p \in 0..(n + 1)
      PROVE  g[p] \in Nat /\ (p \in 0..n => g[p] = f[p]) /\ (p = n + 1 => g[p] = v)
    OBVIOUS
<1>2. \A p \in 0..n : p \in 0..(n + 1)
    OBVIOUS
<1>3. n + 1 \in 0..(n + 1) /\ g = [p \in 0..(n + 1) |-> g[p]]
    OBVIOUS
<1>. HIDE DEF g
<1>4. g \in [0..(n + 1) -> Nat]
    BY <1>1, <1>3
<1>5. Further1(n, f, g, v)
    BY <1>1, <1>2, <1>3, <1>4 DEF Further1
<1>. QED
    BY <1>5

LEMMA ShorterExists ==
    ASSUME NEW n \in Nat, NEW f \in [0..n -> Nat]
    PROVE  \E g : Shorter(n, f, g)
<1>. DEFINE g == [p \in 0..(n - 1) |-> f[p]]
<1>1. \A p \in 0..(n - 1) : p \in 0..n
    OBVIOUS
<1>2. g \in [0..(n - 1) -> Nat] /\ \A p \in 0..(n - 1) : g[p] = f[p]
    BY <1>1
<1>3. Shorter(n, f, g)
    BY <1>2 DEF Shorter
<1>. QED
    BY <1>3

LEMMA DepthsAlike ==
    ASSUME NEW opn, NEW under, NEW above, Depths(opn, under, above), NEW o \in Seq(Items), Len(o) = Len(opn),
           \A p \in 1..Len(opn) : o[p].how = opn[p].how
    PROVE  Depths(o, under, above)
<1>1. Len(opn) \in Nat
    BY DEF Depths
<1>2. ASSUME NEW p \in 1..Len(opn)
      PROVE  DepthAt(o, under, above, p)
    <2>1. DepthAt(opn, under, above, p) /\ o[p].how = opn[p].how
        BY DEF Depths
    <2>2. \A q \in 1..p : o[q].how = opn[q].how
        <3>1. \A q \in 1..p : q \in 1..Len(opn)
            BY <1>1
        <3>. QED
            BY <3>1
    <2>. QED
        BY <2>1, <2>2 DEF DepthAt
<1>. QED
    BY <1>2 DEF Depths

LEMMA DepthsPushed ==
    ASSUME NEW opn, NEW under, NEW above, Depths(opn, under, above), NEW item, NEW o, Pushed(opn, item, o),
           NEW n, n = Len(opn), NEW x, NEW y, NEW u, NEW a, Further1(n, under, u, x), Further1(n, above, a, y),
           \/ item.how = "build" /\ x > under[n] /\ y = 0
           \/ item.how = "start" /\ x = under[n] /\ y = above[n] + 1
           \/ item.how = "bytes" /\ x = under[n] /\ y = above[n]
    PROVE  Depths(o, u, a)
<1>1. n \in Nat /\ under \in [0..n -> Nat] /\ above \in [0..n -> Nat] /\ n \in 0..n /\ 0 \in 0..n
    BY DEF Depths
<1>2. o \in Seq(Items) /\ Len(o) = n + 1 /\ o[n + 1] = item /\ \A p \in 1..n : o[p] = opn[p]
    BY DEF Pushed
<1>3. /\ u \in [0..(n + 1) -> Nat] /\ u[n + 1] = x /\ \A p \in 0..n : u[p] = under[p]
      /\ a \in [0..(n + 1) -> Nat] /\ a[n + 1] = y /\ \A p \in 0..n : a[p] = above[p]
    BY DEF Further1
<1>4. under[n] \in Nat /\ u[n] = under[n] /\ a[n] = above[n] /\ x \in Nat /\ x >= under[n]
    <2>1. n + 1 \in 0..(n + 1)
        BY <1>1
    <2>2. x \in Nat /\ under[n] \in Nat
        BY <1>1, <1>3, <2>1
    <2>. QED
        BY <1>1, <1>3, <2>2
<1>5. ASSUME NEW p \in 1..(n + 1)
      PROVE  DepthAt(o, u, a, p)
    <2>1. CASE p # n + 1
        <3>1. p \in 1..n /\ p - 1 \in 0..n /\ p \in 0..n
            BY <1>1, <2>1
        <3>2. DepthAt(opn, under, above, p)
            BY <3>1 DEF Depths
        <3>3. u[p] = under[p] /\ u[p - 1] = under[p - 1] /\ a[p] = above[p] /\ a[p - 1] = above[p - 1] /\ o[p] = opn[p]
            BY <1>2, <1>3, <3>1
        <3>4. \A q \in 1..p : o[q] = opn[q] /\ u[q] = under[q]
            <4>1. \A q \in 1..p : q \in 1..n /\ q \in 0..n
                BY <1>1, <3>1
            <4>. QED
                BY <1>2, <1>3, <4>1
        <3>. QED
            BY <3>2, <3>3, <3>4 DEF DepthAt
    <2>2. CASE p = n + 1
        <3>1. p - 1 = n /\ o[p] = item /\ u[p] = x /\ a[p] = y /\ p \in 1..p
            BY <1>1, <1>2, <1>3, <2>2
        <3>2. u[p - 1] = under[n] /\ a[p - 1] = above[n]
            BY <1>4, <3>1
        <3>3. ASSUME u[p] # 0
              PROVE  \E q \in 1..p : o[q].how = "build" /\ u[q] = u[p]
            <4>1. CASE item.how = "build"
                BY <3>1, <4>1
            <4>2. CASE item.how # "build"
                <5>1. x = under[n] /\ under[n] # 0
                    BY <3>1, <3>3, <4>2
                <5>2. n \in 1..n
                    BY <1>1, <5>1 DEF Depths
                <5>3. PICK q \in 1..n : opn[q].how = "build" /\ under[q] = under[n]
                    BY <5>1, <5>2 DEF Depths, DepthAt
                <5>4. q \in 1..p /\ q \in 0..n
                    BY <1>1, <2>2
                <5>5. o[q].how = "build" /\ u[q] = u[p]
                    BY <1>2, <1>3, <3>1, <5>1, <5>3, <5>4
                <5>. QED
                    BY <5>4, <5>5
            <4>. QED
                BY <4>1, <4>2
        <3>. QED
            BY <3>1, <3>2, <3>3 DEF DepthAt
    <2>. QED
        BY <2>1, <2>2
<1>6. ASSUME NEW p \in 0..(n + 1), NEW q \in 0..(n + 1), p <= q
      PROVE  u[p] <= u[q]
    <2>1. CASE q # n + 1
        <3>1. p \in 0..n /\ q \in 0..n
            BY <1>1, <1>6, <2>1
        <3>2. under[p] <= under[q]
            BY <1>6, <3>1 DEF Depths
        <3>. QED
            BY <1>3, <3>1, <3>2
    <2>2. CASE q = n + 1 /\ p # n + 1
        <3>1. p \in 0..n /\ p <= n
            BY <1>1, <2>2
        <3>2. under[p] <= under[n] /\ under[p] \in Nat
            BY <1>1, <3>1 DEF Depths
        <3>3. u[p] = under[p] /\ u[q] = x
            BY <1>3, <2>2, <3>1
        <3>. QED
            BY <1>4, <3>2, <3>3
    <2>3. CASE q = n + 1 /\ p = n + 1
        BY <1>3, <1>4, <2>3
    <2>. QED
        BY <2>1, <2>2, <2>3
<1>7. u[0] = 0 /\ a[0] = 0
    BY <1>1, <1>3 DEF Depths
<1>. QED
    BY <1>2, <1>3, <1>5, <1>6, <1>7 DEF Depths

LEMMA DepthsPopped ==
    ASSUME NEW opn, NEW under, NEW above, Depths(opn, under, above), NEW o, Popped(opn, o),
           NEW n, n = Len(opn), NEW u, NEW a, Shorter(n, under, u), Shorter(n, above, a)
    PROVE  Depths(o, u, a)
<1>1. n \in Nat /\ n >= 1 /\ 0 \in 0..(n - 1)
    BY DEF Depths, Popped
<1>2. o \in Seq(Items) /\ Len(o) = n - 1 /\ \A p \in 1..(n - 1) : o[p] = opn[p]
    BY DEF Popped
<1>3. /\ u \in [0..(n - 1) -> Nat] /\ \A p \in 0..(n - 1) : u[p] = under[p]
      /\ a \in [0..(n - 1) -> Nat] /\ \A p \in 0..(n - 1) : a[p] = above[p]
    BY DEF Shorter
<1>4. ASSUME NEW p \in 1..(n - 1)
      PROVE  DepthAt(o, u, a, p)
    <2>1. p \in 1..n /\ p - 1 \in 0..(n - 1) /\ p \in 0..(n - 1)
        BY <1>1
    <2>2. DepthAt(opn, under, above, p)
        BY <2>1 DEF Depths
    <2>3. u[p] = under[p] /\ u[p - 1] = under[p - 1] /\ a[p] = above[p] /\ a[p - 1] = above[p - 1] /\ o[p] = opn[p]
        BY <1>2, <1>3, <2>1
    <2>4. \A q \in 1..p : o[q] = opn[q] /\ u[q] = under[q]
        <3>1. \A q \in 1..p : q \in 1..(n - 1) /\ q \in 0..(n - 1)
            BY <1>1
        <3>. QED
            BY <1>2, <1>3, <3>1
    <2>. QED
        BY <2>2, <2>3, <2>4 DEF DepthAt
<1>5. ASSUME NEW p \in 0..(n - 1), NEW q \in 0..(n - 1), p <= q
      PROVE  u[p] <= u[q]
    <2>1. p \in 0..n /\ q \in 0..n
        BY <1>1
    <2>2. under[p] <= under[q]
        BY <1>5, <2>1 DEF Depths
    <2>. QED
        BY <1>3, <2>2
<1>6. u[0] = 0 /\ a[0] = 0
    BY <1>1, <1>3 DEF Depths
<1>. QED
    BY <1>2, <1>3, <1>4, <1>5, <1>6 DEF Depths

\* How the builds of the writer are those its user has open or has completed: m is the
\* place of each in the message.
Filling(builds, msg, opn, m, under, above, p) ==
    /\ under[p] \in 1..Len(builds) /\ m[under[p]] = opn[p].index
    /\ builds[under[p]].parent = under[p - 1] /\ builds[under[p]].type = msg[opn[p].index].tag.type
    /\ -1 - opn[p].left = Elements(builds[under[p]])
    /\ builds[under[p]].type = "array" => builds[under[p]].half = FALSE
    /\ under[p - 1] # 0 => builds[under[p - 1]].nested = above[p - 1]
IsOpen(opn, under, k) == \E p \in 1..Len(opn) : opn[p].how = "build" /\ under[p] = k
Counted1(builds, msg, m, k) == msg[m[k]].tag = Tag(builds[k].type, builds[k].count)
Current(builds, current, opn, under, above) ==
    /\ current = under[Len(opn)] /\ current \in 1..Len(builds) /\ builds[current].nested = above[Len(opn)]
Frame(builds, current, msg, opn, m, under, above) ==
    /\ Depths(opn, under, above) /\ builds \in Seq(BuildRecords) /\ m \in [1..Len(builds) -> 1..Len(msg)]
    /\ Current(builds, current, opn, under, above)
    /\ \A p \in 1..Len(opn) : opn[p].how = "build" => Filling(builds, msg, opn, m, under, above, p)
    /\ \A k \in 1..Len(builds) : IsOpen(opn, under, k) \/ Counted1(builds, msg, m, k)

LEMMA FrameTop ==
    ASSUME NEW builds, NEW current, NEW msg, NEW opn, NEW m, NEW under, NEW above,
           Frame(builds, current, msg, opn, m, under, above)
    PROVE  /\ Len(opn) \in Nat /\ Len(opn) >= 1 /\ opn # <<>> /\ Len(builds) \in Nat
           /\ current \in Nat /\ current # 0 /\ IsOpen(opn, under, current)
           /\ \A p \in 0..Len(opn) : under[p] \in Nat /\ above[p] \in Nat /\ under[p] <= current
           /\ \A p \in 1..Len(opn) : opn[p].how = "build" => under[p - 1] < current /\ p - 1 \in 0..Len(opn)
           /\ opn[Len(opn)].how = "build" =>
                /\ builds[current].nested = 0 /\ under[Len(opn) - 1] < current
                /\ \A p \in 1..Len(opn) : p # Len(opn) => under[p] # current
           /\ opn[Len(opn)].how = "start" => builds[current].nested > 0
<1>. DEFINE n == Len(opn)
<1>1. n \in Nat /\ under \in [0..n -> Nat] /\ above \in [0..n -> Nat] /\ under[0] = 0 /\ Len(builds) \in Nat
    BY DEF Frame, Depths
<1>2. current = under[n] /\ current \in 1..Len(builds) /\ builds[current].nested = above[n]
    BY DEF Frame, Current
<1>3. n # 0 /\ current \in Nat /\ current # 0
    BY <1>1, <1>2
<1>4. n >= 1 /\ opn # <<>> /\ n \in 1..n /\ n \in 0..n
    BY <1>1, <1>3
<1>5. ASSUME NEW p \in 0..n
      PROVE  under[p] \in Nat /\ above[p] \in Nat /\ under[p] <= current
    <2>1. p <= n
        BY <1>1
    <2>2. under[p] <= under[n]
        BY <1>4, <2>1 DEF Frame, Depths
    <2>. QED
        BY <1>1, <1>2, <2>2
<1>6. DepthAt(opn, under, above, n)
    BY <1>4 DEF Frame, Depths
<1>7. PICK q \in 1..n : opn[q].how = "build" /\ under[q] = under[n]
    BY <1>2, <1>3, <1>6 DEF DepthAt
<1>8. IsOpen(opn, under, current)
    BY <1>2, <1>7 DEF IsOpen
<1>9. ASSUME NEW p \in 1..n, opn[p].how = "build"
      PROVE  under[p - 1] < current /\ p - 1 \in 0..n
    <2>1. DepthAt(opn, under, above, p) /\ p \in 0..n /\ p - 1 \in 0..n
        BY <1>1 DEF Frame, Depths
    <2>2. under[p - 1] < under[p] /\ under[p] <= current /\ under[p] \in Nat /\ under[p - 1] \in Nat
        BY <1>5, <1>9, <2>1 DEF DepthAt
    <2>. QED
        BY <1>3, <2>1, <2>2
<1>10. ASSUME opn[n].how = "build"
       PROVE  /\ builds[current].nested = 0 /\ under[n - 1] < current
              /\ \A p \in 1..n : p # n => under[p] # current
    <2>1. builds[current].nested = 0 /\ under[n - 1] < current
        BY <1>2, <1>4, <1>6, <1>9, <1>10 DEF DepthAt
    <2>2. ASSUME NEW p \in 1..n, p # n
          PROVE  under[p] # current
        <3>1. p \in 0..n /\ n - 1 \in 0..n /\ p <= n - 1
            BY <1>1, <2>2
        <3>2. under[p] <= under[n - 1] /\ under[p] \in Nat /\ under[n - 1] \in Nat
            BY <1>5, <3>1 DEF Frame, Depths
        <3>. QED
            BY <1>3, <2>1, <3>2
    <2>. QED
        BY <2>1, <2>2
<1>11. ASSUME opn[n].how = "start"
       PROVE  builds[current].nested > 0
    <2>1. above[n] = above[n - 1] + 1 /\ n - 1 \in 0..n
        BY <1>2, <1>3, <1>4, <1>6, <1>11 DEF DepthAt
    <2>2. above[n - 1] \in Nat
        BY <1>5, <2>1
    <2>. QED
        BY <1>2, <2>1, <2>2
<1>. QED
    BY <1>1, <1>3, <1>4, <1>5, <1>8, <1>9, <1>10, <1>11

\* The current build is counted anew, the others stay as they are.
Recounting(builds, others, current, elements, levels) ==
    /\ others \in Seq(BuildRecords) /\ Len(others) = Len(builds)
    /\ \A k \in 1..Len(builds) : k # current => SameCounts(others[k], builds[k])
    /\ Recount(builds[current], others[current], elements, levels)
AfterCount(builds, others, current, msg, opn, m, under, above, elements, levels) ==
    /\ others[current].nested = above[Len(opn)] + levels
    /\ \A k \in 1..Len(builds) : IsOpen(opn, under, k) \/ Counted1(others, msg, m, k)
    /\ \A p \in 1..Len(opn) : opn[p].how = "build" =>
         /\ under[p] \in 1..Len(others) /\ m[under[p]] = opn[p].index
         /\ others[under[p]].parent = under[p - 1] /\ others[under[p]].type = msg[opn[p].index].tag.type
         /\ -1 - opn[p].left = Elements(others[under[p]]) - (IF under[p] = current THEN elements ELSE 0)
         /\ others[under[p]].type = "array" => others[under[p]].half = FALSE
         /\ under[p - 1] # 0 => others[under[p - 1]].nested = above[p - 1]
LEMMA Recounted ==
    ASSUME NEW builds, NEW current, NEW msg, NEW opn, NEW m, NEW under, NEW above,
           Frame(builds, current, msg, opn, m, under, above),
           NEW others, NEW elements \in Int, NEW levels \in Int, Recounting(builds, others, current, elements, levels)
    PROVE  AfterCount(builds, others, current, msg, opn, m, under, above, elements, levels)
<1>1. /\ Len(opn) \in Nat /\ Len(builds) \in Nat /\ current \in Nat /\ current # 0 /\ IsOpen(opn, under, current)
      /\ \A p \in 0..Len(opn) : under[p] \in Nat /\ above[p] \in Nat /\ under[p] <= current
      /\ \A p \in 1..Len(opn) : opn[p].how = "build" => under[p - 1] < current /\ p - 1 \in 0..Len(opn)
    BY FrameTop
<1>2. builds \in Seq(BuildRecords) /\ current \in 1..Len(builds) /\ builds[current].nested = above[Len(opn)]
    BY DEF Frame, Current
<1>3. /\ Len(others) = Len(builds)
      /\ \A k \in 1..Len(builds) : k # current => SameCounts(others[k], builds[k])
      /\ Recount(builds[current], others[current], elements, levels)
    BY DEF Recounting
<1>4. others[current].nested = above[Len(opn)] + levels
    BY <1>2, <1>3 DEF Recount
<1>5. ASSUME NEW k \in 1..Len(builds)
      PROVE  IsOpen(opn, under, k) \/ Counted1(others, msg, m, k)
    <2>1. CASE k = current
        BY <1>1, <2>1
    <2>2. CASE k # current
        <3>1. SameCounts(others[k], builds[k])
            BY <1>3, <2>2
        <3>2. IsOpen(opn, under, k) \/ Counted1(builds, msg, m, k)
            BY DEF Frame
        <3>. QED
            BY <3>1, <3>2 DEF Counted1, SameCounts
    <2>. QED
        BY <2>1, <2>2
<1>6. ASSUME NEW p \in 1..Len(opn), opn[p].how = "build"
      PROVE  /\ under[p] \in 1..Len(others) /\ m[under[p]] = opn[p].index
             /\ others[under[p]].parent = under[p - 1] /\ others[under[p]].type = msg[opn[p].index].tag.type
             /\ -1 - opn[p].left = Elements(others[under[p]]) - (IF under[p] = current THEN elements ELSE 0)
             /\ others[under[p]].type = "array" => others[under[p]].half = FALSE
             /\ under[p - 1] # 0 => others[under[p - 1]].nested = above[p - 1]
    <2>. DEFINE k == under[p]
                b == builds[k]
                c == others[k]
    <2>1. Filling(builds, msg, opn, m, under, above, p)
        BY <1>6 DEF Frame
    <2>2. k \in 1..Len(builds) /\ b \in BuildRecords
        BY <1>2, <2>1 DEF Filling
    <2>3. Elements(b) \in Nat /\ b.half \in BOOLEAN
        BY <2>2, ElementsOf
    <2>4. /\ c.parent = b.parent /\ c.type = b.type /\ (b.type = "array" => c.half = FALSE)
          /\ Elements(c) = Elements(b) + (IF k = current THEN elements ELSE 0)
        <3>1. CASE k = current
            <4>1. Recount(b, c, elements, levels)
                BY <1>3, <3>1
            <4>2. b.type = "array" => b.half = FALSE
                BY <2>1 DEF Filling
            <4>3. others[current] \in BuildRecords
                BY <1>2, <1>3 DEF Recounting
            <4>4. c.half \in BOOLEAN
                BY <3>1, <4>3, ElementsOf
            <4>. QED
                BY <3>1, <4>1, <4>2, <4>4 DEF Recount
        <3>2. CASE k # current
            <4>1. SameCounts(c, b)
                BY <1>3, <2>2, <3>2
            <4>2. /\ Elements(c) = Elements(b) /\ c.parent = b.parent /\ c.type = b.type /\ c.nested = b.nested
                  /\ c.half = b.half
                BY <4>1, SameElements
            <4>3. b.type = "array" => b.half = FALSE
                BY <2>1 DEF Filling
            <4>. QED
                BY <2>3, <3>2, <4>2, <4>3
        <3>. QED
            BY <3>1, <3>2
    <2>5. -1 - opn[p].left = Elements(b)
        BY <2>1 DEF Filling
    <2>6. ASSUME under[p - 1] # 0
          PROVE  others[under[p - 1]].nested = above[p - 1]
        <3>. DEFINE j == under[p - 1]
        <3>1. j < current /\ j \in Nat /\ j # 0
            BY <1>1, <1>6, <2>6
        <3>2. j \in 1..Len(builds) /\ j # current
            BY <1>1, <1>2, <3>1
        <3>3. SameCounts(others[j], builds[j])
            BY <1>3, <3>2
        <3>4. builds[j].nested = above[p - 1]
            BY <2>1, <2>6 DEF Filling
        <3>. QED
            BY <3>3, <3>4 DEF SameCounts
    <2>7. Elements(b) = Elements(c) - (IF k = current THEN elements ELSE 0)
        <3>. DEFINE x == Elements(b)
                    y == Elements(c)
                    z == IF k = current THEN elements ELSE 0
        <3>1. x \in Nat /\ z \in Int /\ y = x + z
            BY <2>3, <2>4
        <3>. HIDE DEF x, y, z
        <3>2. x = y - z
            BY <3>1
        <3>. QED
            BY <3>2 DEF x, y, z
    <2>8. c.parent = under[p - 1] /\ c.type = msg[opn[p].index].tag.type /\ m[k] = opn[p].index
        BY <2>1, <2>4 DEF Filling
    <2>9. c.type = "array" => c.half = FALSE
        BY <2>4
    <2>10. k \in 1..Len(others)
        BY <1>3, <2>2
    <2>. QED
        BY <2>5, <2>6, <2>7, <2>8, <2>9, <2>10
<1>. QED
    BY <1>4, <1>5, <1>6 DEF AfterCount

\* The message has grown: what was there is where it was.
Grown(msg, M) ==
    /\ Len(msg) \in Nat /\ Len(M) \in Nat /\ Len(M) >= Len(msg) /\ \A i \in 1..Len(msg) : M[i] = msg[i]

LEMMA FrameSaid ==
    ASSUME NEW builds, NEW current, NEW msg, NEW opn, NEW m, NEW under, NEW above,
           Frame(builds, current, msg, opn, m, under, above), NoBytes(opn),
           \A p \in 1..Len(opn) : opn[p].index \in 1..Len(msg),
           NEW others, NEW elements, elements = (IF builds[current].nested = 0 THEN 1 ELSE 0),
           Recounting(builds, others, current, elements, 0),
           NEW M, Grown(msg, M)
    PROVE  Frame(others, current, M, Counting(opn), m, under, above)
<1>. DEFINE o == Counting(opn)
            n == Len(opn)
<1>1. /\ n \in Nat /\ n >= 1 /\ Len(builds) \in Nat /\ current \in Nat
      /\ \A p \in 0..n : under[p] \in Nat /\ above[p] \in Nat
      /\ opn[n].how = "build" =>
            /\ builds[current].nested = 0 /\ \A p \in 1..n : p # n => under[p] # current
      /\ opn[n].how = "start" => builds[current].nested > 0
    BY FrameTop
<1>2. opn \in Seq(Items) /\ Depths(opn, under, above) /\ Current(builds, current, opn, under, above)
      /\ m \in [1..Len(builds) -> 1..Len(msg)]
    BY DEF Frame, Depths
<1>3. /\ o \in Seq(Items) /\ Len(o) = n
      /\ \A p \in 1..n :
            /\ o[p].how = opn[p].how /\ o[p].index = opn[p].index
            /\ p # n => o[p].left = opn[p].left
            /\ p = n => o[p].left = opn[p].left - 1
    BY <1>2, CountingItems
<1>4. elements \in Int /\ 0 \in Int
    OBVIOUS
<1>5. /\ others[current].nested = above[n] + 0
      /\ \A k \in 1..Len(builds) : IsOpen(opn, under, k) \/ Counted1(others, msg, m, k)
      /\ \A p \in 1..n : opn[p].how = "build" =>
            /\ under[p] \in 1..Len(others) /\ m[under[p]] = opn[p].index
            /\ others[under[p]].parent = under[p - 1] /\ others[under[p]].type = msg[opn[p].index].tag.type
            /\ -1 - opn[p].left = Elements(others[under[p]]) - (IF under[p] = current THEN elements ELSE 0)
            /\ others[under[p]].type = "array" => others[under[p]].half = FALSE
            /\ under[p - 1] # 0 => others[under[p - 1]].nested = above[p - 1]
    <2>1. AfterCount(builds, others, current, msg, opn, m, under, above, elements, 0)
        BY <1>4, Recounted
    <2>. QED
        BY <2>1 DEF AfterCount
<1>6. Len(others) = Len(builds) /\ others \in Seq(BuildRecords)
    BY DEF Recounting
<1>7. Depths(o, under, above)
    BY <1>2, <1>3, DepthsAlike
<1>8. n \in 0..n
    BY <1>1
<1>9. Current(others, current, o, under, above)
    BY <1>1, <1>2, <1>3, <1>5, <1>6, <1>8 DEF Current
<1>10. m \in [1..Len(others) -> 1..Len(M)]
    <2>1. \A i \in 1..Len(msg) : i \in 1..Len(M)
        BY DEF Grown
    <2>. QED
        BY <1>2, <1>6, <2>1
<1>11. \A k \in 1..Len(builds) : M[m[k]] = msg[m[k]]
    BY <1>2 DEF Grown
<1>12. ASSUME NEW k \in 1..Len(others)
       PROVE  IsOpen(o, under, k) \/ Counted1(others, M, m, k)
    <2>1. IsOpen(opn, under, k) => IsOpen(o, under, k)
        BY <1>3 DEF IsOpen
    <2>2. Counted1(others, msg, m, k) => Counted1(others, M, m, k)
        BY <1>6, <1>11 DEF Counted1
    <2>. QED
        BY <1>5, <1>6, <2>1, <2>2
<1>13. ASSUME NEW p \in 1..n, o[p].how = "build"
       PROVE  Filling(others, M, o, m, under, above, p)
    <2>1. opn[p].how = "build" /\ o[p].index = opn[p].index /\ M[opn[p].index] = msg[opn[p].index]
        BY <1>3, <1>13 DEF Grown
    <2>. DEFINE e == Elements(others[under[p]])
    <2>2. under[p] \in 1..Len(others) /\ others[under[p]] \in BuildRecords
        BY <1>5, <1>6, <2>1
    <2>3. e \in Nat
        BY <2>2, ElementsOf
    <2>4. opn[p] \in Items
        BY <1>2
    <2>5. opn[p].left \in Int
        BY <2>4 DEF Items
    <2>6. -1 - opn[p].left = e - (IF under[p] = current THEN elements ELSE 0)
        BY <1>5, <2>1
    <2>7. -1 - o[p].left = e
        <3>. DEFINE l == opn[p].left
                    k == o[p].left
        <3>1. CASE under[p] = current
            <4>1. CASE p = n
                <5>1. elements = 1
                    BY <1>1, <2>1, <4>1
                <5>2. l \in Int /\ -1 - l = e - 1 /\ k = l - 1
                    BY <1>3, <2>5, <2>6, <3>1, <4>1, <5>1
                <5>. HIDE DEF e, l, k
                <5>3. -1 - k = e
                    BY <2>3, <5>2
                <5>. QED
                    BY <5>3 DEF k
            <4>2. CASE p # n
                <5>1. opn[n].how # "build" /\ opn[n].how # "bytes"
                    BY <1>1, <3>1, <4>2 DEF NoBytes
                <5>2. n \in 1..n
                    BY <1>1
                <5>3. opn[n] \in Items
                    BY <1>2, <5>2
                <5>4. opn[n].how = "start"
                    BY <5>1, <5>3 DEF Items
                <5>5. elements = 0
                    BY <1>1, <5>4
                <5>6. l \in Int /\ -1 - l = e - 0 /\ k = l
                    BY <1>3, <2>5, <2>6, <3>1, <4>2, <5>5
                <5>. HIDE DEF e, l, k
                <5>7. -1 - k = e
                    BY <2>3, <5>6
                <5>. QED
                    BY <5>7 DEF k
            <4>. QED
                BY <4>1, <4>2
        <3>2. CASE under[p] # current
            <4>1. p # n
                BY <1>2, <3>2 DEF Current
            <4>2. l \in Int /\ -1 - l = e - 0 /\ k = l
                BY <1>3, <2>5, <2>6, <3>2, <4>1
            <4>. HIDE DEF e, l, k
            <4>3. -1 - k = e
                BY <2>3, <4>2
            <4>. QED
                BY <4>3 DEF k
        <3>. QED
            BY <3>1, <3>2
    <2>. QED
        BY <1>5, <2>1, <2>7 DEF Filling
<1>. QED
    BY <1>3, <1>6, <1>7, <1>9, <1>10, <1>12, <1>13 DEF Frame

\* Another item on top, or the top one gone, that is no build.
FrameOf(builds, current, msg, opn, m) == \E under, above : Frame(builds, current, msg, opn, m, under, above)
Level(how) == IF how = "start" THEN 1 ELSE 0

LEMMA SameFilling ==
    ASSUME NEW builds, NEW current, NEW msg, NEW opn, NEW m, NEW under, NEW above,
           Frame(builds, current, msg, opn, m, under, above),
           NEW others, NEW levels \in Int, Recounting(builds, others, current, 0, levels)
    PROVE  \A p \in 1..Len(opn) : opn[p].how = "build" => Filling(others, msg, opn, m, under, above, p)
<1>1. AfterCount(builds, others, current, msg, opn, m, under, above, 0, levels)
    BY Recounted
<1>2. others \in Seq(BuildRecords)
    BY DEF Recounting
<1>. SUFFICES ASSUME NEW p \in 1..Len(opn), opn[p].how = "build"
              PROVE  Filling(others, msg, opn, m, under, above, p)
    OBVIOUS
<1>. DEFINE e == Elements(others[under[p]])
<1>3. /\ under[p] \in 1..Len(others) /\ m[under[p]] = opn[p].index
      /\ others[under[p]].parent = under[p - 1] /\ others[under[p]].type = msg[opn[p].index].tag.type
      /\ -1 - opn[p].left = e - (IF under[p] = current THEN 0 ELSE 0)
      /\ others[under[p]].type = "array" => others[under[p]].half = FALSE
      /\ under[p - 1] # 0 => others[under[p - 1]].nested = above[p - 1]
    BY <1>1 DEF AfterCount
<1>4. e \in Nat
    BY <1>2, <1>3, ElementsOf
<1>5. -1 - opn[p].left = e
    <2>. DEFINE l == -1 - opn[p].left
    <2>1. l = e - 0
        BY <1>3
    <2>. HIDE DEF l, e
    <2>2. l = e
        BY <1>4, <2>1
    <2>. QED
        BY <2>2 DEF l
<1>. QED
    BY <1>3, <1>5 DEF Filling

LEMMA FramePushed ==
    ASSUME NEW builds, NEW current, NEW msg, NEW opn, NEW m,
           FrameOf(builds, current, msg, opn, m),
           NEW item, item.how \in {"start", "bytes"}, NEW o, Pushed(opn, item, o),
           NEW others, Recounting(builds, others, current, 0, Level(item.how))
    PROVE  FrameOf(others, current, msg, o, m)
<1>1. PICK under, above : Frame(builds, current, msg, opn, m, under, above)
    BY DEF FrameOf
<1>. DEFINE n == Len(opn)
            y == above[n] + Level(item.how)
<1>2. /\ n \in Nat /\ Len(builds) \in Nat /\ \A p \in 0..n : under[p] \in Nat /\ above[p] \in Nat
    BY <1>1, FrameTop
<1>3. /\ Depths(opn, under, above) /\ Current(builds, current, opn, under, above)
      /\ m \in [1..Len(builds) -> 1..Len(msg)] /\ under \in [0..n -> Nat] /\ above \in [0..n -> Nat]
    BY <1>1 DEF Frame, Depths
<1>4. Level(item.how) \in Int /\ Level(item.how) \in Nat
    BY DEF Level
<1>5. AfterCount(builds, others, current, msg, opn, m, under, above, 0, Level(item.how))
    BY <1>1, <1>4, Recounted
<1>6. \A p \in 1..n : opn[p].how = "build" => Filling(others, msg, opn, m, under, above, p)
    BY <1>1, <1>4, SameFilling
<1>7. n \in 0..n /\ under[n] \in Nat /\ above[n] \in Nat
    BY <1>2
<1>8. y \in Nat
    BY <1>4, <1>7
<1>9. PICK u : Further1(n, under, u, under[n])
    BY <1>2, <1>3, <1>7, FurtherExists
<1>10. PICK a : Further1(n, above, a, y)
    BY <1>2, <1>3, <1>8, FurtherExists
<1>11. \/ item.how = "start" /\ y = above[n] + 1
       \/ item.how = "bytes" /\ y = above[n]
    BY <1>7 DEF Level
<1>12. Depths(o, u, a)
    <2>. HIDE DEF y
    <2>. QED
        BY <1>3, <1>9, <1>10, <1>11, DepthsPushed
<1>13. others \in Seq(BuildRecords) /\ Len(others) = Len(builds)
    BY DEF Recounting
<1>14. Len(o) = n + 1 /\ o[n + 1] = item /\ \A p \in 1..n : o[p] = opn[p]
    BY DEF Pushed
<1>15. u[n + 1] = under[n] /\ a[n + 1] = y /\ \A p \in 0..n : u[p] = under[p] /\ a[p] = above[p]
    BY <1>9, <1>10 DEF Further1
<1>16. Current(others, current, o, u, a)
    BY <1>3, <1>5, <1>13, <1>14, <1>15 DEF Current, AfterCount
<1>17. ASSUME NEW k \in 1..Len(others)
       PROVE  IsOpen(o, u, k) \/ Counted1(others, msg, m, k)
    <2>1. ASSUME IsOpen(opn, under, k)
          PROVE  IsOpen(o, u, k)
        <3>1. PICK p \in 1..n : opn[p].how = "build" /\ under[p] = k
            BY <2>1 DEF IsOpen
        <3>2. p \in 1..(n + 1) /\ p \in 0..n
            BY <1>2
        <3>. QED
            BY <1>14, <1>15, <3>1, <3>2 DEF IsOpen
    <2>. QED
        BY <1>5, <1>13, <2>1 DEF AfterCount
<1>18. ASSUME NEW p \in 1..(n + 1), o[p].how = "build"
       PROVE  Filling(others, msg, o, m, u, a, p)
    <2>1. p # n + 1
        BY <1>14, <1>18
    <2>2. p \in 1..n /\ p \in 0..n /\ p - 1 \in 0..n
        BY <1>2, <2>1
    <2>3. o[p] = opn[p] /\ u[p] = under[p] /\ u[p - 1] = under[p - 1] /\ a[p - 1] = above[p - 1]
        BY <1>14, <1>15, <2>2
    <2>4. Filling(others, msg, opn, m, under, above, p)
        BY <1>6, <1>18, <2>2, <2>3
    <2>. QED
        BY <2>3, <2>4 DEF Filling
<1>19. Frame(others, current, msg, o, m, u, a)
    BY <1>3, <1>12, <1>13, <1>14, <1>16, <1>17, <1>18 DEF Frame
<1>. QED
    BY <1>19 DEF FrameOf

LEMMA FramePopped ==
    ASSUME NEW builds, NEW current, NEW msg, NEW opn, NEW m,
           FrameOf(builds, current, msg, opn, m),
           opn[Len(opn)].how \in {"start", "bytes"}, NEW o, Popped(opn, o),
           NEW others, Recounting(builds, others, current, 0, 0 - Level(opn[Len(opn)].how))
    PROVE  FrameOf(others, current, msg, o, m)
<1>1. PICK under, above : Frame(builds, current, msg, opn, m, under, above)
    BY DEF FrameOf
<1>. DEFINE n == Len(opn)
            by == 0 - Level(opn[n].how)
<1>2. /\ n \in Nat /\ n >= 1 /\ Len(builds) \in Nat /\ \A p \in 0..n : under[p] \in Nat /\ above[p] \in Nat
    BY <1>1, FrameTop
<1>3. /\ Depths(opn, under, above) /\ Current(builds, current, opn, under, above)
      /\ m \in [1..Len(builds) -> 1..Len(msg)] /\ under \in [0..n -> Nat] /\ above \in [0..n -> Nat]
    BY <1>1 DEF Frame, Depths
<1>4. by \in Int
    BY DEF Level
<1>5. AfterCount(builds, others, current, msg, opn, m, under, above, 0, by)
    BY <1>1, <1>4, Recounted
<1>6. \A p \in 1..n : opn[p].how = "build" => Filling(others, msg, opn, m, under, above, p)
    BY <1>1, <1>4, SameFilling
<1>7. PICK u : Shorter(n, under, u)
    BY <1>2, <1>3, ShorterExists
<1>8. PICK a : Shorter(n, above, a)
    BY <1>2, <1>3, ShorterExists
<1>9. Depths(o, u, a)
    BY <1>3, <1>7, <1>8, DepthsPopped
<1>10. others \in Seq(BuildRecords) /\ Len(others) = Len(builds)
    BY DEF Recounting
<1>11. Len(o) = n - 1 /\ \A p \in 1..(n - 1) : o[p] = opn[p]
    BY DEF Popped
<1>12. \A p \in 0..(n - 1) : u[p] = under[p] /\ a[p] = above[p]
    BY <1>7, <1>8 DEF Shorter
<1>13. DepthAt(opn, under, above, n) /\ n - 1 \in 0..(n - 1) /\ n \in 1..n /\ n - 1 \in 0..n /\ n \in 0..n
    BY <1>2, <1>3 DEF Depths
<1>19. under[n] # 0
    BY <1>1, <1>3, FrameTop DEF Current
<1>14. under[n] = under[n - 1] /\ above[n] + by = above[n - 1]
    <2>1. CASE opn[n].how = "start"
        <3>1. under[n] = under[n - 1] /\ above[n] = above[n - 1] + 1 /\ by = -1
            BY <1>13, <1>19, <2>1 DEF DepthAt, Level
        <3>2. above[n - 1] \in Nat
            BY <1>2, <1>13
        <3>. HIDE DEF by
        <3>. QED
            BY <3>1, <3>2
    <2>2. CASE opn[n].how = "bytes"
        <3>1. under[n] = under[n - 1] /\ above[n] = above[n - 1] /\ by = 0
            BY <1>13, <2>2 DEF DepthAt, Level
        <3>2. above[n - 1] \in Nat
            BY <1>2, <1>13
        <3>. HIDE DEF by
        <3>. QED
            BY <3>1, <3>2
    <2>. QED
        BY <2>1, <2>2
<1>15. Current(others, current, o, u, a)
    <2>1. current = under[n] /\ current \in 1..Len(others)
        BY <1>3, <1>10 DEF Current
    <2>2. others[current].nested = above[n] + by
        BY <1>5 DEF AfterCount
    <2>3. u[n - 1] = under[n - 1] /\ a[n - 1] = above[n - 1]
        BY <1>12, <1>13
    <2>. HIDE DEF by
    <2>. QED
        BY <1>11, <1>14, <2>1, <2>2, <2>3 DEF Current
<1>16. ASSUME NEW k \in 1..Len(others)
       PROVE  IsOpen(o, u, k) \/ Counted1(others, msg, m, k)
    <2>1. ASSUME IsOpen(opn, under, k)
          PROVE  IsOpen(o, u, k)
        <3>1. PICK p \in 1..n : opn[p].how = "build" /\ under[p] = k
            BY <2>1 DEF IsOpen
        <3>2. p # n
            BY <3>1
        <3>3. p \in 1..(n - 1) /\ p \in 0..(n - 1)
            BY <1>2, <3>2
        <3>. QED
            BY <1>11, <1>12, <3>1, <3>3 DEF IsOpen
    <2>. QED
        BY <1>5, <1>10, <2>1 DEF AfterCount
<1>17. ASSUME NEW p \in 1..(n - 1), o[p].how = "build"
       PROVE  Filling(others, msg, o, m, u, a, p)
    <2>1. p \in 1..n /\ p \in 0..(n - 1) /\ p - 1 \in 0..(n - 1)
        BY <1>2
    <2>2. o[p] = opn[p] /\ u[p] = under[p] /\ u[p - 1] = under[p - 1] /\ a[p - 1] = above[p - 1]
        BY <1>11, <1>12, <2>1
    <2>3. Filling(others, msg, opn, m, under, above, p)
        BY <1>6, <1>17, <2>1, <2>2
    <2>. QED
        BY <2>2, <2>3 DEF Filling
<1>18. Frame(others, current, msg, o, m, u, a)
    BY <1>3, <1>9, <1>10, <1>11, <1>15, <1>16, <1>17 DEF Frame
<1>. QED
    BY <1>18 DEF FrameOf

LEMMA MovedRecounting ==
    ASSUME NEW w, NEW x, NEW elements, NEW levels, Moved(w, x, elements, levels), x.builds \in Seq(BuildRecords)
    PROVE  Recounting(w.builds, x.builds, w.current, elements, levels)
BY DEF Moved, Recounting

LEMMA FrameAdvanced ==
    ASSUME NEW builds, NEW current, NEW msg, NEW opn, NEW m, FrameOf(builds, current, msg, opn, m),
           opn[Len(opn)].how = "bytes", NEW count, NEW o, Advanced(opn, count, o),
           NEW others, Recounting(builds, others, current, 0, 0)
    PROVE  FrameOf(others, current, msg, o, m)
<1>1. PICK under, above : Frame(builds, current, msg, opn, m, under, above)
    BY DEF FrameOf
<1>. DEFINE n == Len(opn)
<1>2. n \in Nat /\ Len(builds) \in Nat /\ \A p \in 0..n : above[p] \in Nat
    BY <1>1, FrameTop
<1>3. /\ Depths(opn, under, above) /\ Current(builds, current, opn, under, above)
      /\ m \in [1..Len(builds) -> 1..Len(msg)]
    BY <1>1 DEF Frame, Depths
<1>4. AfterCount(builds, others, current, msg, opn, m, under, above, 0, 0)
    BY <1>1, Recounted
<1>5. \A p \in 1..n : opn[p].how = "build" => Filling(others, msg, opn, m, under, above, p)
    BY <1>1, SameFilling
<1>6. /\ o \in Seq(Items) /\ Len(o) = n /\ \A p \in 1..n : o[p].how = opn[p].how
      /\ \A p \in 1..n : p # n => o[p] = opn[p]
    BY DEF Advanced
<1>7. Depths(o, under, above)
    BY <1>3, <1>6, DepthsAlike
<1>8. others \in Seq(BuildRecords) /\ Len(others) = Len(builds)
    BY DEF Recounting
<1>9. Current(others, current, o, under, above)
    <2>1. n \in 0..n
        BY <1>2
    <2>2. above[n] \in Nat
        BY <1>2, <2>1
    <2>. QED
        BY <1>3, <1>4, <1>6, <1>8, <2>2 DEF Current, AfterCount
<1>10. ASSUME NEW k \in 1..Len(others)
       PROVE  IsOpen(o, under, k) \/ Counted1(others, msg, m, k)
    BY <1>4, <1>6, <1>8 DEF IsOpen, AfterCount
<1>11. ASSUME NEW p \in 1..n, o[p].how = "build"
       PROVE  Filling(others, msg, o, m, under, above, p)
    <2>1. opn[p].how = "build"
        BY <1>6, <1>11
    <2>2. p # n
        BY <2>1
    <2>3. o[p] = opn[p] /\ Filling(others, msg, opn, m, under, above, p)
        BY <1>5, <1>6, <2>1, <2>2
    <2>. QED
        BY <2>3 DEF Filling
<1>12. Frame(others, current, msg, o, m, under, above)
    BY <1>3, <1>6, <1>7, <1>8, <1>9, <1>10, <1>11 DEF Frame
<1>. QED
    BY <1>12 DEF FrameOf

\* One more build, for the last token of the message.
Marked(n, m, i, marks, length) ==
    /\ marks \in [1..(n + 1) -> 1..length] /\ marks[n + 1] = i /\ \A k \in 1..n : marks[k] = m[k]
BuildItem(item, msg, i, type) ==
    /\ item.how = "build" /\ item.index = i /\ item.left = -1 /\ i \in 1..Len(msg) /\ msg[i].tag.type = type
LEMMA FrameBuilt ==
    ASSUME NEW builds, NEW current, NEW msg, NEW opn, NEW m, FrameOf(builds, current, msg, opn, m),
           NEW i, NEW type, NEW item, BuildItem(item, msg, i, type), NEW o, Pushed(opn, item, o),
           NEW others \in Seq(BuildRecords), Len(others) = Len(builds) + 1,
           \A k \in 1..Len(builds) : others[k] = builds[k], Fresh(others[Len(builds) + 1], current, type),
           NEW marks, Marked(Len(builds), m, i, marks, Len(msg))
    PROVE  FrameOf(others, Len(builds) + 1, msg, o, marks)
<1>1. PICK under, above : Frame(builds, current, msg, opn, m, under, above)
    BY DEF FrameOf
<1>. DEFINE n == Len(opn)
            N == Len(builds)
<1>2. /\ n \in Nat /\ N \in Nat /\ \A p \in 0..n : under[p] \in Nat /\ above[p] \in Nat
    BY <1>1, FrameTop
<1>3. /\ Depths(opn, under, above) /\ Current(builds, current, opn, under, above)
      /\ under \in [0..n -> Nat] /\ above \in [0..n -> Nat]
      /\ \A p \in 1..n : opn[p].how = "build" => Filling(builds, msg, opn, m, under, above, p)
      /\ \A k \in 1..N : IsOpen(opn, under, k) \/ Counted1(builds, msg, m, k)
    BY <1>1 DEF Frame, Depths
<1>4. n \in 0..n /\ under[n] = current /\ current \in 1..N /\ N + 1 \in Nat /\ N + 1 > under[n]
    BY <1>2, <1>3 DEF Current
<1>5. PICK u : Further1(n, under, u, N + 1)
    BY <1>2, <1>3, <1>4, FurtherExists
<1>6. PICK a : Further1(n, above, a, 0)
    BY <1>2, <1>3, FurtherExists
<1>7. Depths(o, u, a)
    <2>1. item.how = "build"
        BY DEF BuildItem
    <2>. DEFINE x == N + 1
    <2>2. Further1(n, under, u, x) /\ x > under[n]
        BY <1>4, <1>5
    <2>. HIDE DEF x
    <2>. QED
        BY <1>3, <1>6, <2>1, <2>2, DepthsPushed
<1>8. Len(o) = n + 1 /\ o[n + 1] = item /\ \A p \in 1..n : o[p] = opn[p]
    BY DEF Pushed
<1>9. u[n + 1] = N + 1 /\ a[n + 1] = 0 /\ \A p \in 0..n : u[p] = under[p] /\ a[p] = above[p]
    BY <1>5, <1>6 DEF Further1
<1>10. marks \in [1..(N + 1) -> 1..Len(msg)] /\ marks[N + 1] = i /\ \A k \in 1..N : marks[k] = m[k]
    BY DEF Marked
<1>11. N + 1 \in 1..(N + 1) /\ \A k \in 1..N : k \in 1..(N + 1)
    BY <1>2
<1>12. /\ others[N + 1].parent = current /\ others[N + 1].type = type /\ Elements(others[N + 1]) = 0
       /\ others[N + 1].half = FALSE /\ others[N + 1].nested = 0
    BY DEF Fresh
<1>13. Current(others, N + 1, o, u, a)
    BY <1>8, <1>9, <1>11, <1>12 DEF Current
<1>14. ASSUME NEW k \in 1..(N + 1)
       PROVE  IsOpen(o, u, k) \/ Counted1(others, msg, marks, k)
    <2>1. CASE k = N + 1
        <3>1. n + 1 \in 1..(n + 1) /\ o[n + 1].how = "build" /\ u[n + 1] = k
            BY <1>2, <1>8, <1>9, <2>1 DEF BuildItem
        <3>. QED
            BY <1>8, <3>1 DEF IsOpen
    <2>2. CASE k # N + 1
        <3>1. k \in 1..N
            BY <1>2, <2>2
        <3>2. ASSUME IsOpen(opn, under, k)
              PROVE  IsOpen(o, u, k)
            <4>1. PICK p \in 1..n : opn[p].how = "build" /\ under[p] = k
                BY <3>2 DEF IsOpen
            <4>2. p \in 1..(n + 1) /\ p \in 0..n
                BY <1>2
            <4>. QED
                BY <1>8, <1>9, <4>1, <4>2 DEF IsOpen
        <3>3. ASSUME Counted1(builds, msg, m, k)
              PROVE  Counted1(others, msg, marks, k)
            <4>1. others[k] = builds[k] /\ marks[k] = m[k]
                BY <1>10, <3>1
            <4>. QED
                BY <3>3, <4>1 DEF Counted1
        <3>. QED
            BY <1>3, <3>1, <3>2, <3>3
    <2>. QED
        BY <2>1, <2>2
<1>15. ASSUME NEW p \in 1..(n + 1), o[p].how = "build"
       PROVE  Filling(others, msg, o, marks, u, a, p)
    <2>1. CASE p = n + 1
        <3>1. p - 1 = n /\ p - 1 \in 0..n
            BY <1>2, <2>1
        <3>2. u[p] = N + 1 /\ u[p - 1] = current /\ a[p - 1] = above[n] /\ o[p] = item
            BY <1>4, <1>8, <1>9, <2>1, <3>1
        <3>3. item.index = i /\ item.left = -1 /\ msg[i].tag.type = type
            BY DEF BuildItem
        <3>4. others[current].nested = above[n]
            BY <1>3, <1>4 DEF Current
        <3>5. -1 - item.left = 0
            BY <3>3
        <3>. QED
            BY <1>10, <1>11, <1>12, <3>2, <3>3, <3>4, <3>5 DEF Filling
    <2>2. CASE p # n + 1
        <3>1. p \in 1..n /\ p \in 0..n /\ p - 1 \in 0..n
            BY <1>2, <2>2
        <3>2. o[p] = opn[p] /\ u[p] = under[p] /\ u[p - 1] = under[p - 1] /\ a[p - 1] = above[p - 1]
            BY <1>8, <1>9, <3>1
        <3>3. Filling(builds, msg, opn, m, under, above, p)
            BY <1>3, <1>15, <3>1, <3>2
        <3>4. under[p] \in 1..N
            BY <3>3 DEF Filling
        <3>5. others[under[p]] = builds[under[p]] /\ marks[under[p]] = m[under[p]] /\ under[p] \in 1..Len(others)
            BY <1>10, <1>11, <3>4
        <3>6. under[p - 1] # 0 => others[under[p - 1]] = builds[under[p - 1]]
            <4>1. under[p - 1] \in Nat /\ under[p - 1] < current
                BY <1>1, <1>2, <1>15, <3>1, <3>2, FrameTop
            <4>2. under[p - 1] # 0 => under[p - 1] \in 1..N
                BY <1>2, <1>4, <4>1
            <4>. QED
                BY <4>2
        <3>. QED
            BY <3>2, <3>3, <3>5, <3>6 DEF Filling
    <2>. QED
        BY <2>1, <2>2
<1>16. Frame(others, N + 1, msg, o, marks, u, a)
    BY <1>7, <1>8, <1>10, <1>13, <1>14, <1>15 DEF Frame
<1>. QED
    BY <1>16 DEF FrameOf

\* The first build, when no other is open.
NoBuild(opn) == \A p \in 1..Len(opn) : opn[p].how # "build"
LEMMA FrameFirst ==
    ASSUME NEW msg, NEW opn \in Seq(Items), NoBuild(opn),
           NEW i, NEW type, NEW item, BuildItem(item, msg, i, type), NEW o, Pushed(opn, item, o),
           NEW others \in Seq(BuildRecords), Len(others) = 1, Fresh(others[1], 0, type),
           NEW marks \in [1..1 -> 1..Len(msg)], marks[1] = i
    PROVE  FrameOf(others, 1, msg, o, marks)
<1>. DEFINE n == Len(opn)
            under == [p \in 0..n |-> 0]
<1>1. n \in Nat /\ under \in [0..n -> Nat] /\ \A p \in 0..n : under[p] = 0
    OBVIOUS
<1>2. Depths(opn, under, under)
    <2>1. ASSUME NEW p \in 1..n
          PROVE  DepthAt(opn, under, under, p)
        <3>1. p \in 0..n /\ p - 1 \in 0..n
            BY <1>1
        <3>2. under[p] = 0 /\ under[p - 1] = 0 /\ opn[p].how # "build"
            BY <1>1, <3>1 DEF NoBuild
        <3>. HIDE DEF under
        <3>. QED
            BY <3>2 DEF DepthAt
    <2>2. 0 \in 0..n
        BY <1>1
    <2>. HIDE DEF under
    <2>. QED
        BY <1>1, <2>1, <2>2 DEF Depths
<1>. HIDE DEF under
<1>3. n \in 0..n /\ under[n] = 0 /\ 1 \in Nat /\ 0 \in Nat
    BY <1>1
<1>4. PICK u : Further1(n, under, u, 1)
    BY <1>1, <1>3, FurtherExists
<1>5. PICK a : Further1(n, under, a, 0)
    BY <1>1, <1>3, FurtherExists
<1>6. Depths(o, u, a)
    <2>1. item.how = "build" /\ 1 > under[n]
        BY <1>3 DEF BuildItem
    <2>. QED
        BY <1>2, <1>4, <1>5, <2>1, DepthsPushed
<1>7. Len(o) = n + 1 /\ o[n + 1] = item /\ \A p \in 1..n : o[p] = opn[p]
    BY DEF Pushed
<1>8. u[n + 1] = 1 /\ a[n + 1] = 0 /\ u[n] = 0
    BY <1>3, <1>4, <1>5 DEF Further1
<1>9. /\ others[1].parent = 0 /\ others[1].type = type /\ Elements(others[1]) = 0
      /\ others[1].half = FALSE /\ others[1].nested = 0
    BY DEF Fresh
<1>10. Current(others, 1, o, u, a)
    BY <1>7, <1>8, <1>9 DEF Current
<1>11. n + 1 \in 1..Len(o) /\ o[n + 1].how = "build" /\ n + 1 - 1 = n
    BY <1>1, <1>7 DEF BuildItem
<1>12. ASSUME NEW k \in 1..Len(others)
       PROVE  IsOpen(o, u, k)
    <2>1. k = 1
        OBVIOUS
    <2>. QED
        BY <1>8, <1>11, <2>1 DEF IsOpen
<1>13. ASSUME NEW p \in 1..Len(o), o[p].how = "build"
       PROVE  Filling(others, msg, o, marks, u, a, p)
    <2>1. p = n + 1
        <3>1. ASSUME p # n + 1
              PROVE  FALSE
            <4>1. p \in 1..n
                BY <1>1, <1>7, <3>1
            <4>. QED
                BY <1>7, <1>13, <4>1 DEF NoBuild
        <3>. QED
            BY <3>1
    <2>2. u[p] = 1 /\ u[p - 1] = 0 /\ o[p] = item
        BY <1>7, <1>8, <1>11, <2>1
    <2>3. item.index = i /\ item.left = -1 /\ msg[i].tag.type = type
        BY DEF BuildItem
    <2>4. -1 - item.left = 0 /\ 1 \in 1..Len(others)
        BY <2>3
    <2>. QED
        BY <1>9, <2>2, <2>3, <2>4 DEF Filling
<1>14. marks \in [1..Len(others) -> 1..Len(msg)]
    OBVIOUS
<1>15. Frame(others, 1, msg, o, marks, u, a)
    BY <1>6, <1>10, <1>12, <1>13, <1>14 DEF Frame
<1>. QED
    BY <1>15 DEF FrameOf

LEMMA CountFound ==
    ASSUME NEW b \in BuildRecords, b.type = "array" => b.half = FALSE,
           NEW elements, elements = Elements(b), b.type = "map" => elements % 2 = 0
    PROVE  /\ b.half = FALSE
           /\ b.count = IF b.type = "map" THEN elements \div 2 ELSE elements
<1>1. b.count \in Nat /\ b.half \in BOOLEAN /\ b.type \in {"array", "map"}
    BY ElementsOf
<1>2. CASE b.type = "array"
    BY <1>1, <1>2 DEF Elements
<1>3. CASE b.type = "map"
    <2>. DEFINE c == b.count
                h == IF b.half THEN 1 ELSE 0
    <2>1. c \in Nat /\ h \in {0, 1} /\ elements = 2 * c + h /\ elements % 2 = 0
        BY <1>1, <1>3 DEF Elements
    <2>2. h = 0 => b.half = FALSE
        BY <1>1
    <2>. HIDE DEF c, h
    <2>3. h = 0 /\ elements \div 2 = c
        BY <2>1
    <2>. QED
        BY <1>3, <2>2, <2>3 DEF c
<1>. QED
    BY <1>1, <1>2, <1>3

\* A build is completed: its tag in the message gets the count that the writer found.
Completes(builds, current, msg, opn, m, M) ==
    /\ opn[Len(opn)].how = "build"
    /\ Retold(msg, opn[Len(opn)].index, Tag(builds[current].type, builds[current].count), M)
    /\ \A k \in 1..Len(builds) : m[k] = m[current] => k = current
LEMMA AfterComplete ==
    ASSUME NEW builds, NEW current, NEW msg, NEW opn, NEW m, NEW under, NEW above,
           Frame(builds, current, msg, opn, m, under, above), NEW M, Completes(builds, current, msg, opn, m, M)
    PROVE  \A k \in 1..Len(builds) :
            \/ \E p \in 1..Len(opn) : p # Len(opn) /\ opn[p].how = "build" /\ under[p] = k
            \/ Counted1(builds, M, m, k)
<1>. DEFINE n == Len(opn)
            tag == Tag(builds[current].type, builds[current].count)
            i == opn[n].index
<1>1. n \in Nat /\ n >= 1 /\ n \in 1..n
    BY FrameTop
<1>2. current = under[n] /\ opn[n].how = "build" /\ current \in 1..Len(builds)
    BY DEF Frame, Current, Completes
<1>3. m[current] = i
    BY <1>1, <1>2 DEF Frame, Filling
<1>4. Retold(msg, i, tag, M) /\ \A k \in 1..Len(builds) : m[k] = m[current] => k = current
    BY DEF Completes
<1>5. m \in [1..Len(builds) -> 1..Len(msg)]
    BY DEF Frame
<1>. SUFFICES ASSUME NEW k \in 1..Len(builds)
              PROVE  \/ \E p \in 1..n : p # n /\ opn[p].how = "build" /\ under[p] = k
                     \/ Counted1(builds, M, m, k)
    OBVIOUS
<1>6. CASE k = current
    BY <1>3, <1>4, <1>6 DEF Counted1, Retold
<1>7. CASE k # current
    <2>1. m[k] # i /\ m[k] \in 1..Len(msg)
        BY <1>3, <1>4, <1>5, <1>7
    <2>2. M[m[k]] = msg[m[k]]
        BY <1>4, <2>1 DEF Retold
    <2>3. IsOpen(opn, under, k) \/ Counted1(builds, msg, m, k)
        BY DEF Frame
    <2>4. ASSUME IsOpen(opn, under, k)
          PROVE  \E p \in 1..n : p # n /\ opn[p].how = "build" /\ under[p] = k
        BY <1>2, <1>7, <2>4 DEF IsOpen
    <2>. QED
        BY <2>2, <2>3, <2>4 DEF Counted1
<1>. QED
    BY <1>6, <1>7

LEMMA FrameEnded ==
    ASSUME NEW builds, NEW current, NEW msg, NEW opn, NEW m, NEW under, NEW above,
           Frame(builds, current, msg, opn, m, under, above), NEW M, Completes(builds, current, msg, opn, m, M),
           \A p \in 1..Len(opn) : opn[p].index \in 1..Len(msg),
           NEW parent, parent = builds[current].parent, parent # 0, NEW o, Popped(opn, o),
           NEW others \in Seq(BuildRecords), Len(others) = Len(builds),
           \A k \in 1..Len(builds) : SameCounts(others[k], builds[k])
    PROVE  FrameOf(others, parent, M, o, m)
<1>. DEFINE n == Len(opn)
            N == Len(builds)
<1>1. /\ n \in Nat /\ n >= 1 /\ N \in Nat /\ current \in Nat /\ n \in 1..n /\ n - 1 \in 0..n /\ n - 1 \in 0..(n - 1)
      /\ \A p \in 0..n : under[p] \in Nat /\ above[p] \in Nat /\ under[p] <= current
    BY FrameTop
<1>2. /\ Depths(opn, under, above) /\ under \in [0..n -> Nat] /\ above \in [0..n -> Nat]
      /\ m \in [1..N -> 1..Len(msg)] /\ builds \in Seq(BuildRecords)
      /\ \A p \in 1..n : opn[p].how = "build" => Filling(builds, msg, opn, m, under, above, p)
    BY DEF Frame, Depths
<1>3. current = under[n] /\ opn[n].how = "build" /\ current \in 1..N
    BY DEF Frame, Current, Completes
<1>4. PICK u : Shorter(n, under, u)
    BY <1>1, <1>2, ShorterExists
<1>5. PICK a : Shorter(n, above, a)
    BY <1>1, <1>2, ShorterExists
<1>6. Depths(o, u, a)
    BY <1>2, <1>4, <1>5, DepthsPopped
<1>7. \A p \in 0..(n - 1) : u[p] = under[p] /\ a[p] = above[p]
    BY <1>4, <1>5 DEF Shorter
<1>8. Len(o) = n - 1 /\ \A p \in 1..(n - 1) : o[p] = opn[p]
    BY DEF Popped
<1>9. Filling(builds, msg, opn, m, under, above, n)
    BY <1>1, <1>2, <1>3
<1>10. parent = under[n - 1] /\ builds[parent].nested = above[n - 1]
    BY <1>3, <1>9 DEF Filling
<1>11. parent \in 1..N
    <2>1. parent \in Nat /\ parent <= current /\ current <= N
        BY <1>1, <1>3, <1>10
    <2>. QED
        BY <1>1, <2>1
<1>12. ASSUME NEW k \in 1..N
       PROVE  /\ others[k].parent = builds[k].parent /\ others[k].type = builds[k].type
              /\ others[k].nested = builds[k].nested /\ others[k].half = builds[k].half
              /\ others[k].count = builds[k].count /\ Elements(others[k]) = Elements(builds[k])
    <2>1. SameCounts(others[k], builds[k])
        OBVIOUS
    <2>. QED
        BY <2>1, SameElements DEF SameCounts
<1>13. Current(others, parent, o, u, a)
    <2>1. u[n - 1] = under[n - 1] /\ a[n - 1] = above[n - 1]
        BY <1>1, <1>7
    <2>2. others[parent].nested = builds[parent].nested
        BY <1>11, <1>12
    <2>. QED
        BY <1>8, <1>10, <1>11, <2>1, <2>2 DEF Current
<1>14. ASSUME NEW k \in 1..N
       PROVE  IsOpen(o, u, k) \/ Counted1(others, M, m, k)
    <2>1. CASE \E p \in 1..n : p # n /\ opn[p].how = "build" /\ under[p] = k
        <3>1. PICK p \in 1..n : p # n /\ opn[p].how = "build" /\ under[p] = k
            BY <2>1
        <3>2. p \in 1..(n - 1) /\ p \in 0..(n - 1)
            BY <1>1, <3>1
        <3>. QED
            BY <1>7, <1>8, <3>1, <3>2 DEF IsOpen
    <2>2. CASE Counted1(builds, M, m, k)
        <3>1. others[k].type = builds[k].type /\ others[k].count = builds[k].count
            BY <1>12
        <3>. QED
            BY <2>2, <3>1 DEF Counted1
    <2>. QED
        BY <2>1, <2>2, AfterComplete
<1>15. Len(M) = Len(msg) /\ \A k \in 1..Len(msg) : M[k].tag.type = msg[k].tag.type
    BY DEF Completes, Retold
<1>16. ASSUME NEW p \in 1..(n - 1), o[p].how = "build"
       PROVE  Filling(others, M, o, m, u, a, p)
    <2>1. p \in 1..n /\ p \in 0..(n - 1) /\ p - 1 \in 0..(n - 1) /\ p - 1 \in 0..n
        BY <1>1
    <2>2. o[p] = opn[p] /\ u[p] = under[p] /\ u[p - 1] = under[p - 1] /\ a[p - 1] = above[p - 1]
        BY <1>7, <1>8, <2>1
    <2>3. Filling(builds, msg, opn, m, under, above, p)
        BY <1>2, <1>16, <2>1, <2>2
    <2>4. under[p] \in 1..N /\ M[opn[p].index].tag.type = msg[opn[p].index].tag.type
        BY <1>15, <2>1, <2>3 DEF Filling
    <2>5. /\ others[under[p]].parent = builds[under[p]].parent /\ others[under[p]].type = builds[under[p]].type
          /\ others[under[p]].half = builds[under[p]].half /\ Elements(others[under[p]]) = Elements(builds[under[p]])
        BY <1>12, <2>4
    <2>6. under[p - 1] # 0 => others[under[p - 1]].nested = builds[under[p - 1]].nested
        <3>1. under[p - 1] \in Nat /\ under[p - 1] <= current /\ current <= N
            BY <1>1, <1>3, <2>1
        <3>2. under[p - 1] # 0 => under[p - 1] \in 1..N
            BY <1>1, <3>1
        <3>. QED
            BY <1>12, <3>2
    <2>. QED
        BY <2>2, <2>3, <2>4, <2>5, <2>6 DEF Filling
<1>17. Frame(others, parent, M, o, m, u, a)
    BY <1>2, <1>6, <1>8, <1>13, <1>14, <1>15, <1>16 DEF Frame
<1>. QED
    BY <1>17 DEF FrameOf

LEMMA AllCounted ==
    ASSUME NEW builds, NEW current, NEW msg, NEW opn, NEW m, NEW under, NEW above,
           Frame(builds, current, msg, opn, m, under, above), NEW M, Completes(builds, current, msg, opn, m, M),
           builds[current].parent = 0, NEW o, Popped(opn, o)
    PROVE  NoBuild(o) /\ \A k \in 1..Len(builds) : Counted1(builds, M, m, k)
<1>. DEFINE n == Len(opn)
<1>1. /\ n \in Nat /\ n >= 1 /\ n \in 1..n /\ n - 1 \in 0..n
      /\ \A p \in 0..n : under[p] \in Nat
    BY FrameTop
<1>2. Filling(builds, msg, opn, m, under, above, n) /\ current = under[n]
    BY <1>1 DEF Frame, Current, Completes
<1>3. under[n - 1] = 0
    BY <1>2 DEF Filling
<1>4. ASSUME NEW p \in 1..n, p # n, opn[p].how = "build"
      PROVE  FALSE
    <2>1. p \in 0..n /\ p - 1 \in 0..n /\ p <= n - 1
        BY <1>1, <1>4
    <2>2. under[p] <= under[n - 1] /\ DepthAt(opn, under, above, p)
        BY <1>1, <2>1 DEF Frame, Depths
    <2>3. under[p - 1] \in Nat /\ under[p] \in Nat /\ under[p] > under[p - 1]
        BY <1>1, <1>4, <2>1, <2>2 DEF DepthAt
    <2>. QED
        BY <1>3, <2>2, <2>3
<1>5. NoBuild(o)
    <2>1. Len(o) = n - 1 /\ \A p \in 1..(n - 1) : o[p] = opn[p] /\ p \in 1..n /\ p # n
        BY <1>1 DEF Popped
    <2>. QED
        BY <1>4, <2>1 DEF NoBuild
<1>6. \A k \in 1..Len(builds) : Counted1(builds, M, m, k)
    BY <1>4, AfterComplete
<1>. QED
    BY <1>5, <1>6

------------------------------------------------------------------------------------
(* The message in parts: before the first build, behind each one, and what is to come. *)

\* Slices of a message.
LEMMA SlicesAgree ==
    ASSUME NEW msg \in Seq(Tokens), NEW M \in Seq(Tokens), NEW a \in Nat, NEW b \in Nat, b <= Len(msg), b <= Len(M),
           \A i \in (a + 1)..b : M[i] = msg[i]
    PROVE  SubSeq(M, a + 1, b) = SubSeq(msg, a + 1, b) /\ SubSeq(msg, a + 1, b) \in Seq(Tokens)
<1>. DEFINE s == SubSeq(M, a + 1, b)
            t == SubSeq(msg, a + 1, b)
            n == IF a + 1 <= b THEN b - a ELSE 0
<1>1. n \in Nat
    OBVIOUS
<1>2. s \in Seq(Tokens) /\ t \in Seq(Tokens) /\ Len(s) = n /\ Len(t) = n
    <2>1. CASE a + 1 <= b
        BY <2>1
    <2>2. CASE ~(a + 1 <= b)
        <3>1. s = <<>> /\ t = <<>>
            BY <2>2
        <3>. QED
            BY <2>2, <3>1
    <2>. QED
        BY <2>1, <2>2
<1>3. ASSUME NEW i \in 1..n
      PROVE  s[i] = t[i]
    <2>1. a + i \in (a + 1)..b /\ a + 1 + i - 1 = a + i
        BY <1>1
    <2>2. s[i] = M[a + i] /\ t[i] = msg[a + i]
        <3>1. a + 1 <= b
            BY <2>1
        <3>. QED
            BY <2>1, <3>1
    <2>. QED
        BY <2>1, <2>2
<1>. HIDE DEF s, t, n
<1>4. s = t
    BY <1>1, <1>2, <1>3
<1>. QED
    BY <1>2, <1>4 DEF s, t

LEMMA SliceAppended ==
    ASSUME NEW msg \in Seq(Tokens), NEW token \in Tokens, NEW a \in 0..Len(msg)
    PROVE  /\ SubSeq(Append(msg, token), a + 1, Len(msg) + 1) = Append(SubSeq(msg, a + 1, Len(msg)), token)
           /\ SubSeq(msg, a + 1, Len(msg)) \in Seq(Tokens)
<1>. DEFINE s == SubSeq(Append(msg, token), a + 1, Len(msg) + 1)
            t == SubSeq(msg, a + 1, Len(msg))
            n == Len(msg)
<1>1. n \in Nat /\ a \in Nat /\ a <= n /\ Append(msg, token) \in Seq(Tokens) /\ Len(Append(msg, token)) = n + 1
    OBVIOUS
<1>2. s \in Seq(Tokens) /\ Len(s) = n + 1 - a
    BY <1>1
<1>3. t \in Seq(Tokens) /\ Len(t) = n - a
    BY <1>1
<1>4. ASSUME NEW i \in 1..(n + 1 - a)
      PROVE  s[i] = Append(t, token)[i]
    <2>1. s[i] = Append(msg, token)[a + i] /\ a + i \in 1..(n + 1)
        BY <1>1
    <2>2. CASE i = n + 1 - a
        <3>1. a + i = n + 1
            BY <1>1, <2>2
        <3>2. s[i] = token
            BY <2>1, <3>1
        <3>3. Append(t, token)[Len(t) + 1] = token
            <4>. HIDE DEF t
            <4>. QED
                BY <1>3
        <3>4. i = Len(t) + 1
            BY <1>1, <1>3, <2>2
        <3>. QED
            BY <3>2, <3>3, <3>4
    <2>3. CASE i # n + 1 - a
        <3>1. a + i \in 1..n /\ i \in 1..(n - a)
            BY <1>1, <2>3
        <3>2. s[i] = msg[a + i]
            BY <2>1, <3>1
        <3>3. t[i] = msg[a + i]
            BY <1>1, <3>1
        <3>4. Append(t, token)[i] = t[i]
            <4>. HIDE DEF t
            <4>. QED
                BY <1>3, <3>1
        <3>. QED
            BY <3>2, <3>3, <3>4
    <2>. QED
        BY <2>2, <2>3
<1>. HIDE DEF s, t
<1>5. Append(t, token) \in Seq(Tokens) /\ Len(Append(t, token)) = n + 1 - a
    BY <1>1, <1>3
<1>6. s = Append(t, token)
    <2>. DEFINE r == Append(t, token)
                m == n + 1 - a
    <2>1. r \in Seq(Tokens) /\ Len(r) = m /\ s \in Seq(Tokens) /\ Len(s) = m
        BY <1>2, <1>5
    <2>2. \A i \in 1..m : s[i] = r[i]
        BY <1>4
    <2>. HIDE DEF r, m
    <2>3. s = r
        BY <2>1, <2>2, SeqEqual
    <2>. QED
        BY <2>3 DEF r
<1>. QED
    BY <1>3, <1>6 DEF s, t

LEMMA SliceOfOne ==
    ASSUME NEW msg \in Seq(Tokens), NEW i \in 1..Len(msg)
    PROVE  SubSeq(msg, i, i) = <<msg[i]>> /\ msg[i] \in Tokens
<1>. DEFINE s == SubSeq(msg, i, i)
            t == <<msg[i]>>
<1>1. msg[i] \in Tokens
    OBVIOUS
<1>2. s \in Seq(Tokens) /\ Len(s) = 1 /\ s[1] = msg[i]
    OBVIOUS
<1>3. t \in Seq(Tokens) /\ Len(t) = 1 /\ t[1] = msg[i]
    BY <1>1
<1>. HIDE DEF s, t
<1>4. s = t
    BY <1>2, <1>3
<1>. QED
    BY <1>1, <1>4 DEF s, t

TokenSlices(msg, a, b, c) ==
    /\ SubSeq(msg, a + 1, b) \o SubSeq(msg, b + 1, c) = SubSeq(msg, a + 1, c)
    /\ SubSeq(msg, a + 1, b) \in Seq(Tokens) /\ SubSeq(msg, b + 1, c) \in Seq(Tokens)
LEMMA TokenSlicesJoin ==
    ASSUME NEW msg \in Seq(Tokens), NEW a \in Nat, NEW b \in Nat, NEW c \in Nat, a <= b, b <= c, c <= Len(msg)
    PROVE  TokenSlices(msg, a, b, c)
<1>1. Len(msg) \in Nat /\ \A i \in 1..Len(msg) : msg[i] \in Tokens
    OBVIOUS
<1>2. a + 1 \in 1..(Len(msg) + 1) /\ b \in (a + 1 - 1)..Len(msg) /\ c \in b..Len(msg)
    BY <1>1
<1>3. SubSeq(msg, a + 1, b) \o SubSeq(msg, b + 1, c) = SubSeq(msg, a + 1, c)
    BY <1>1, <1>2, ConcatAdjacentSubSeq
<1>4. SubSeq(msg, a + 1, b) \in Seq(Tokens)
    <2>1. a + 1 \in Int /\ b \in Int /\ \A i \in (a + 1)..b : msg[i] \in Tokens
        BY <1>1
    <2>. QED
        BY <2>1, SubSeqProperties
<1>5. SubSeq(msg, b + 1, c) \in Seq(Tokens)
    <2>1. b + 1 \in Int /\ c \in Int /\ \A i \in (b + 1)..c : msg[i] \in Tokens
        BY <1>1
    <2>. QED
        BY <2>1, SubSeqProperties
<1>. QED
    BY <1>3, <1>4, <1>5 DEF TokenSlices

\* What has been written to a builder: in front of the first build's tag, behind each
\* build's tag up to the next one's, and behind the last one's, where rest is to follow.
Marks(n, m, msg) ==
    /\ n \in Nat /\ n >= 1 /\ m \in [1..n -> 1..Len(msg)] /\ msg \in Seq(Tokens)
    /\ \A i \in 1..n, j \in 1..n : i < j => m[i] < m[j]
    /\ \A k \in 1..n : msg[m[k]].body = <<>>
Behinds(n, m, msg, rest, bodies) ==
    /\ \A k \in 1..(n - 1) : bodies[k] = Wire(SubSeq(msg, m[k] + 1, m[k + 1] - 1))
    /\ bodies[n] \o rest = Wire(SubSeq(msg, m[n] + 1, Len(msg)))
Before(m, msg) == SubSeq(msg, 1, m[1] - 1)
Diverted(w, msg, rest, m, bodies) ==
    /\ Building(w, bodies) /\ Marks(Len(w.builds), m, msg)
    /\ Holds(Restored(w), Wire(Before(m, msg)))
    /\ Behinds(Len(w.builds), m, msg, rest, bodies)

\* The writer that was there before the first build is still the same.
Lasting(w, x) ==
    /\ IsWriter(w) /\ IsWriter(x) /\ w.error = "ok" /\ x.error = "ok"
    /\ x.sink = w.sink /\ x.partial = w.partial /\ x.out = w.out /\ x.stash = w.stash
LEMMA HoldsLasting ==
    ASSUME NEW w, NEW x, Lasting(w, x), NEW bytes, Holds(Restored(w), bytes)
    PROVE  Holds(Restored(x), bytes)
<1>. DEFINE r == Restored(w)
            s == Restored(x)
<1>1. /\ IsWriter(r) /\ r.sink = w.sink /\ r.partial = w.partial /\ r.out = w.out
      /\ r.error = w.error /\ r.buffer = w.stash.buffer /\ r.size = w.stash.size
    BY Restoring DEF Lasting
<1>2. /\ IsWriter(s) /\ s.sink = x.sink /\ s.partial = x.partial /\ s.out = x.out
      /\ s.error = x.error /\ s.buffer = x.stash.buffer /\ s.size = x.stash.size
    BY Restoring DEF Lasting
<1>3. Holds(r, bytes)
    OBVIOUS
<1>. HIDE DEF r, s
<1>4. /\ s.sink = r.sink /\ s.partial = r.partial /\ s.out = r.out
      /\ s.error = r.error /\ s.buffer = r.buffer /\ s.size = r.size
    BY <1>1, <1>2 DEF Lasting
<1>5. Holds(s, bytes)
    BY <1>2, <1>3, <1>4 DEF Holds
<1>. QED
    BY <1>5 DEF s

\* The message is what it was, or has one more token.
Spoken(msg, M, token) == token \in Tokens /\ M = Append(msg, token)

AsBefore(n, m, msg, M) ==
    /\ Before(m, M) = Before(m, msg) /\ Before(m, msg) \in Seq(Tokens)
    /\ \A k \in 1..(n - 1) : SubSeq(M, m[k] + 1, m[k + 1] - 1) = SubSeq(msg, m[k] + 1, m[k + 1] - 1)
    /\ M \in Seq(Tokens) /\ Len(M) = Len(msg) + 1 /\ \A i \in 1..Len(msg) : M[i] = msg[i]
    /\ Marks(n, m, M) /\ Len(msg) \in Nat
LEMMA BeforeSaid ==
    ASSUME NEW n, NEW m, NEW msg, Marks(n, m, msg), NEW M, NEW token, Spoken(msg, M, token)
    PROVE  AsBefore(n, m, msg, M)
<1>1. /\ n \in Nat /\ n >= 1 /\ m \in [1..n -> 1..Len(msg)] /\ msg \in Seq(Tokens) /\ Len(msg) \in Nat
      /\ \A k \in 1..n : msg[m[k]].body = <<>>
    BY DEF Marks
<1>2. M \in Seq(Tokens) /\ Len(M) = Len(msg) + 1 /\ \A i \in 1..Len(msg) : M[i] = msg[i]
    BY <1>1 DEF Spoken
<1>3. 1 \in 1..n /\ m[1] \in 1..Len(msg)
    BY <1>1
<1>4. Before(m, M) = Before(m, msg) /\ Before(m, msg) \in Seq(Tokens)
    <2>. DEFINE b == m[1] - 1
    <2>1. b \in Nat /\ b <= Len(msg) /\ b <= Len(M) /\ 0 \in Nat /\ 0 + 1 = 1
        BY <1>1, <1>2, <1>3
    <2>2. \A i \in (0 + 1)..b : M[i] = msg[i]
        BY <1>1, <1>2, <1>3
    <2>. HIDE DEF b
    <2>3. SubSeq(M, 0 + 1, b) = SubSeq(msg, 0 + 1, b) /\ SubSeq(msg, 0 + 1, b) \in Seq(Tokens)
        BY <1>1, <1>2, <2>1, <2>2, SlicesAgree
    <2>. QED
        BY <2>1, <2>3 DEF b, Before
<1>5. ASSUME NEW k \in 1..(n - 1)
      PROVE  SubSeq(M, m[k] + 1, m[k + 1] - 1) = SubSeq(msg, m[k] + 1, m[k + 1] - 1)
    <2>. DEFINE a == m[k]
                b == m[k + 1] - 1
    <2>1. k \in 1..n /\ k + 1 \in 1..n
        BY <1>1
    <2>2. a \in Nat /\ b \in Nat /\ b <= Len(msg) /\ b <= Len(M)
        BY <1>1, <1>2, <2>1
    <2>. HIDE DEF a, b
    <2>3. \A i \in (a + 1)..b : M[i] = msg[i]
        BY <1>1, <1>2, <2>2
    <2>4. SubSeq(M, a + 1, b) = SubSeq(msg, a + 1, b)
        BY <1>1, <1>2, <2>2, <2>3, SlicesAgree
    <2>. QED
        BY <2>4 DEF a, b
<1>6. Marks(n, m, M)
    <2>1. \A i \in 1..Len(msg) : i \in 1..Len(M)
        BY <1>1, <1>2
    <2>2. m \in [1..n -> 1..Len(M)] /\ \A k \in 1..n : M[m[k]] = msg[m[k]]
        BY <1>1, <1>2, <2>1
    <2>. QED
        BY <1>2, <2>2 DEF Marks
<1>. QED
    BY <1>1, <1>2, <1>4, <1>5, <1>6 DEF AsBefore

OneLonger(bodies, more, B) ==
    /\ \A k \in 1..(Len(bodies) - 1) : B[k] = bodies[k]
    /\ B[Len(bodies)] = bodies[Len(bodies)] \o more
LEMMA BodyLonger ==
    ASSUME NEW bodies \in Seq(Bytes), Len(bodies) >= 1, NEW more \in Bytes
    PROVE  OneLonger(bodies, more, MoreBody(bodies, more))
BY BodyTwice DEF OneLonger

Added(w, x, more, bodies) ==
    /\ Lasting(w, x) /\ Len(x.builds) = Len(w.builds) /\ more \in Bytes /\ Building(x, MoreBody(bodies, more))
LEMMA DivertedMore ==
    ASSUME NEW w, NEW msg, NEW rest \in Bytes, NEW m, NEW bodies, Diverted(w, msg, rest, m, bodies),
           NEW x, NEW more, Added(w, x, more, bodies), NEW left \in Bytes, rest = more \o left
    PROVE  Diverted(x, msg, left, m, MoreBody(bodies, more))
<1>. DEFINE n == Len(w.builds)
            B == MoreBody(bodies, more)
<1>1. bodies \in Seq(Bytes) /\ Len(bodies) >= 1 /\ Len(bodies) = n
    BY BodiesOf DEF Diverted
<1>2. (\A k \in 1..(n - 1) : B[k] = bodies[k]) /\ B[n] = bodies[n] \o more
    <2>1. more \in Bytes
        BY DEF Added
    <2>2. OneLonger(bodies, more, B)
        BY <1>1, <2>1, BodyLonger
    <2>. HIDE DEF B
    <2>. QED
        BY <1>1, <2>2 DEF OneLonger
<1>3. bodies[n] \in Bytes
    BY <1>1
<1>4. B[n] \o left = bodies[n] \o rest
    <2>. DEFINE b == bodies[n]
    <2>1. more \in Bytes /\ b \in Bytes /\ B[n] = b \o more
        BY <1>2, <1>3 DEF Added
    <2>. HIDE DEF b, B
    <2>2. (b \o more) \o left = b \o (more \o left)
        BY <2>1, Rejoin
    <2>3. B[n] \o left = b \o rest
        BY <2>1, <2>2
    <2>. QED
        BY <2>3 DEF b
<1>. HIDE DEF B
<1>5. Behinds(n, m, msg, left, B)
    BY <1>2, <1>4 DEF Diverted, Behinds
<1>6. Holds(Restored(x), Wire(Before(m, msg)))
    BY HoldsLasting DEF Diverted, Added
<1>7. Building(x, B) /\ Len(x.builds) = n
    BY DEF Added, B
<1>. QED
    BY <1>5, <1>6, <1>7 DEF Diverted, B

LEMMA DivertedSaid ==
    ASSUME NEW w, NEW msg, NEW m, NEW bodies, Diverted(w, msg, <<>>, m, bodies),
           NEW x, NEW more, Added(w, x, more, bodies), NEW left \in Bytes,
           NEW M, NEW token, Spoken(msg, M, token), Spelled(token) = more \o left
    PROVE  Diverted(x, M, left, m, MoreBody(bodies, more))
<1>. DEFINE n == Len(w.builds)
            B == MoreBody(bodies, more)
            a == m[n]
<1>1. bodies \in Seq(Bytes) /\ Len(bodies) >= 1 /\ Len(bodies) = n
    BY BodiesOf DEF Diverted
<1>2. (\A k \in 1..(n - 1) : B[k] = bodies[k]) /\ B[n] = bodies[n] \o more
    <2>1. more \in Bytes
        BY DEF Added
    <2>2. OneLonger(bodies, more, B)
        BY <1>1, <2>1, BodyLonger
    <2>. HIDE DEF B
    <2>. QED
        BY <1>1, <2>2 DEF OneLonger
<1>3. bodies[n] \in Bytes /\ more \in Bytes
    BY <1>1 DEF Added
<1>4. /\ Before(m, M) = Before(m, msg)
      /\ \A k \in 1..(n - 1) : SubSeq(M, m[k] + 1, m[k + 1] - 1) = SubSeq(msg, m[k] + 1, m[k + 1] - 1)
      /\ M \in Seq(Tokens) /\ Len(M) = Len(msg) + 1 /\ Marks(n, m, M) /\ Len(msg) \in Nat
    <2>1. Marks(n, m, msg)
        BY DEF Diverted
    <2>2. AsBefore(n, m, msg, M)
        BY <2>1, BeforeSaid
    <2>. QED
        BY <2>2 DEF AsBefore
<1>5. a \in 0..Len(msg) /\ msg \in Seq(Tokens) /\ token \in Tokens
    <2>1. n \in Nat /\ n >= 1 /\ m \in [1..n -> 1..Len(msg)] /\ msg \in Seq(Tokens)
        BY DEF Diverted, Marks
    <2>4. n \in 1..n /\ Len(msg) \in Nat
        BY <2>1
    <2>2. a \in 1..Len(msg) /\ Len(msg) \in Nat
        <3>. HIDE DEF n
        <3>. QED
            BY <2>1, <2>4
    <2>3. a \in 0..Len(msg)
        BY <2>2
    <2>. QED
        BY <2>1, <2>3 DEF Spoken
<1>. DEFINE tail == SubSeq(msg, a + 1, Len(msg))
<1>6. SubSeq(M, a + 1, Len(M)) = Append(tail, token) /\ tail \in Seq(Tokens)
    BY <1>4, <1>5, SliceAppended DEF Spoken
<1>7. bodies[n] \o <<>> = Wire(tail) /\ bodies[n] \o <<>> = bodies[n]
    BY <1>3, Join DEF Diverted, Behinds
<1>. HIDE DEF tail
<1>8. Wire(SubSeq(M, a + 1, Len(M))) = Wire(tail) \o Spelled(token)
    BY <1>5, <1>6, WireAppend
<1>9. B[n] \o left = Wire(SubSeq(M, a + 1, Len(M)))
    <2>. DEFINE b == bodies[n]
                t == Wire(SubSeq(M, a + 1, Len(M)))
    <2>1. more \in Bytes /\ b \in Bytes /\ B[n] = b \o more /\ t = b \o (more \o left)
        BY <1>2, <1>3, <1>7, <1>8
    <2>. HIDE DEF b, B, t
    <2>2. (b \o more) \o left = b \o (more \o left)
        BY <2>1, Rejoin
    <2>3. B[n] \o left = t
        BY <2>1, <2>2
    <2>. QED
        BY <2>3 DEF t
<1>. HIDE DEF B
<1>10. Behinds(n, m, M, left, B)
    <2>1. \A k \in 1..(n - 1) : B[k] = Wire(SubSeq(M, m[k] + 1, m[k + 1] - 1))
        BY <1>2, <1>4 DEF Diverted, Behinds
    <2>. QED
        BY <1>9, <2>1 DEF Behinds
<1>11. Holds(Restored(x), Wire(Before(m, M)))
    BY <1>4, HoldsLasting DEF Diverted, Added
<1>12. Building(x, B) /\ Len(x.builds) = n
    BY DEF Added, B
<1>. QED
    BY <1>4, <1>10, <1>11, <1>12 DEF Diverted, B

\* A build for the last token of the message.
LEMMA DivertedBuilt ==
    ASSUME NEW w, NEW msg, NEW m, NEW bodies, Diverted(w, msg, <<>>, m, bodies),
           NEW M, NEW token, Spoken(msg, M, token), token.body = <<>>,
           NEW x, Lasting(w, x), Building(x, Append(bodies, <<>>)), Len(x.builds) = Len(w.builds) + 1,
           NEW marks, Marked(Len(w.builds), m, Len(M), marks, Len(M))
    PROVE  Diverted(x, M, <<>>, marks, Append(bodies, <<>>))
<1>. DEFINE n == Len(w.builds)
            B == Append(bodies, <<>>)
<1>1. bodies \in Seq(Bytes) /\ Len(bodies) = n
    BY BodiesOf DEF Diverted
<1>2. Marks(n, m, msg)
    BY DEF Diverted
<1>3. AsBefore(n, m, msg, M)
    BY <1>2, BeforeSaid
<1>4. /\ n \in Nat /\ n >= 1 /\ msg \in Seq(Tokens) /\ Len(msg) \in Nat /\ m \in [1..n -> 1..Len(msg)]
      /\ \A i \in 1..n, j \in 1..n : i < j => m[i] < m[j]
      /\ \A k \in 1..n : msg[m[k]].body = <<>>
    BY <1>2 DEF Marks
<1>5. n = Len(w.builds)
    OBVIOUS
<1>6. /\ Before(m, M) = Before(m, msg)
      /\ \A k \in 1..(n - 1) : SubSeq(M, m[k] + 1, m[k + 1] - 1) = SubSeq(msg, m[k] + 1, m[k + 1] - 1)
      /\ M \in Seq(Tokens) /\ Len(M) = Len(msg) + 1 /\ \A i \in 1..Len(msg) : M[i] = msg[i]
    BY <1>3 DEF AsBefore
<1>7. Marked(n, m, Len(M), marks, Len(M))
    OBVIOUS
<1>8. Behinds(n, m, msg, <<>>, bodies)
    BY DEF Diverted
<1>. HIDE DEF n
<1>9. marks \in [1..(n + 1) -> 1..Len(M)] /\ marks[n + 1] = Len(M) /\ \A k \in 1..n : marks[k] = m[k]
    BY <1>7 DEF Marked
<1>10. (\A k \in 1..n : B[k] = bodies[k] /\ bodies[k] \in Bytes) /\ B[n + 1] = <<>>
    BY <1>1, <1>4
<1>. HIDE DEF B
<1>11. Marks(n + 1, marks, M)
    <2>1. ASSUME NEW i \in 1..(n + 1), NEW j \in 1..(n + 1), i < j
          PROVE  marks[i] < marks[j]
        <3>1. i \in 1..n
            BY <1>4, <2>1
        <3>2. CASE j = n + 1
            <4>1. m[i] \in 1..Len(msg)
                BY <1>4, <3>1
            <4>. QED
                BY <1>4, <1>6, <1>9, <3>1, <3>2, <4>1
        <3>3. CASE j # n + 1
            <4>1. j \in 1..n
                BY <1>4, <3>3
            <4>. QED
                BY <1>4, <1>9, <2>1, <3>1, <4>1
        <3>. QED
            BY <3>2, <3>3
    <2>2. ASSUME NEW k \in 1..(n + 1)
          PROVE  M[marks[k]].body = <<>>
        <3>1. CASE k = n + 1
            <4>1. M[Len(M)] = token
                BY <1>4, <1>6 DEF Spoken
            <4>. QED
                BY <1>9, <3>1, <4>1
        <3>2. CASE k # n + 1
            <4>1. k \in 1..n
                BY <1>4, <3>2
            <4>2. M[m[k]] = msg[m[k]]
                BY <1>4, <1>6, <4>1
            <4>. QED
                BY <1>4, <1>9, <4>1, <4>2
        <3>. QED
            BY <3>1, <3>2
    <2>. QED
        BY <1>4, <1>6, <1>9, <2>1, <2>2 DEF Marks
<1>12. Before(marks, M) = Before(m, msg)
    BY <1>4, <1>6, <1>9 DEF Before
<1>13. Holds(Restored(x), Wire(Before(marks, M)))
    BY <1>12, HoldsLasting DEF Diverted
<1>14. B[n] = Wire(SubSeq(msg, m[n] + 1, Len(msg)))
    <2>1. bodies[n] \o <<>> = bodies[n]
        BY <1>4, <1>10, Join
    <2>. QED
        BY <1>4, <1>8, <1>10, <2>1 DEF Behinds
<1>15. SubSeq(M, m[n] + 1, Len(M) - 1) = SubSeq(msg, m[n] + 1, Len(msg))
    <2>. DEFINE a == m[n]
                b == Len(msg)
    <2>1. a \in Nat /\ b \in Nat /\ b <= Len(msg) /\ b <= Len(M) /\ \A i \in (a + 1)..b : M[i] = msg[i]
        BY <1>4, <1>6
    <2>. HIDE DEF a, b
    <2>2. SubSeq(M, a + 1, b) = SubSeq(msg, a + 1, b)
        BY <1>4, <1>6, <2>1, SlicesAgree
    <2>3. Len(M) - 1 = b
        BY <1>4, <1>6 DEF b
    <2>. QED
        BY <2>2, <2>3 DEF a, b
<1>16. SubSeq(M, marks[n + 1] + 1, Len(M)) = <<>>
    BY <1>4, <1>6, <1>9
<1>17. Wire(<<>>) = <<>> /\ <<>> \o <<>> = <<>>
    BY WireBytes, <1>4, Join, Nothings
<1>18. Behinds(n + 1, marks, M, <<>>, B)
    <2>1. ASSUME NEW k \in 1..((n + 1) - 1)
          PROVE  B[k] = Wire(SubSeq(M, marks[k] + 1, marks[k + 1] - 1))
        <3>1. k \in 1..n
            BY <1>4
        <3>2. CASE k = n
            <4>1. marks[k] = m[n] /\ marks[k + 1] = Len(M)
                BY <1>9, <3>1, <3>2
            <4>. QED
                BY <1>14, <1>15, <3>2, <4>1
        <3>3. CASE k # n
            <4>1. k \in 1..(n - 1) /\ k + 1 \in 1..n
                BY <1>4, <3>1, <3>3
            <4>2. marks[k] = m[k] /\ marks[k + 1] = m[k + 1]
                BY <1>9, <3>1, <4>1
            <4>. QED
                BY <1>6, <1>8, <1>10, <3>1, <4>1, <4>2 DEF Behinds
        <3>. QED
            BY <3>2, <3>3
    <2>2. B[n + 1] \o <<>> = Wire(SubSeq(M, marks[n + 1] + 1, Len(M)))
        BY <1>10, <1>16, <1>17
    <2>. QED
        BY <2>1, <2>2 DEF Behinds
<1>. QED
    BY <1>5, <1>11, <1>13, <1>18 DEF Diverted, B, n

LEMMA DivertedFirst ==
    ASSUME NEW w, NEW msg \in Seq(Tokens), Holds(w, Wire(msg)), w.error = "ok",
           NEW M, NEW token, Spoken(msg, M, token), token.body = <<>>,
           NEW x, IsWriter(x), x.error = "ok", x.sink = w.sink, x.partial = w.partial, x.out = w.out,
           x.stash = [buffer |-> w.buffer, size |-> w.size], Len(x.builds) = 1, Building(x, << <<>> >>),
           NEW marks \in [1..1 -> 1..Len(M)], marks[1] = Len(M)
    PROVE  Diverted(x, M, <<>>, marks, << <<>> >>)
<1>1. M \in Seq(Tokens) /\ Len(M) = Len(msg) + 1 /\ Len(msg) \in Nat /\ M[Len(M)] = token
      /\ \A i \in 1..Len(msg) : M[i] = msg[i]
    BY DEF Spoken
<1>2. Marks(1, marks, M)
    BY <1>1 DEF Marks
<1>3. Before(marks, M) = msg
    <2>. DEFINE b == Len(msg)
    <2>1. b \in Nat /\ b <= Len(M) /\ b <= Len(msg) /\ 0 \in Nat /\ 0 + 1 = 1 /\ \A i \in (0 + 1)..b : M[i] = msg[i]
        BY <1>1
    <2>. HIDE DEF b
    <2>2. SubSeq(M, 0 + 1, b) = SubSeq(msg, 0 + 1, b)
        BY <1>1, <2>1, SlicesAgree
    <2>3. marks[1] - 1 = b
        BY <1>1 DEF b
    <2>4. SubSeq(msg, 1, Len(msg)) = msg
        OBVIOUS
    <2>. QED
        BY <2>1, <2>2, <2>3, <2>4 DEF Before, b
<1>. DEFINE r == Restored(x)
<1>4. /\ IsWriter(r) /\ r.sink = w.sink /\ r.partial = w.partial /\ r.out = w.out /\ r.error = w.error
      /\ r.buffer = x.stash.buffer /\ r.size = x.stash.size
    BY Restoring
<1>5. r.buffer = w.buffer /\ r.size = w.size
    BY <1>4
<1>. HIDE DEF r
<1>6. Holds(r, Wire(msg))
    BY <1>4, <1>5 DEF Holds
<1>7. Holds(Restored(x), Wire(Before(marks, M)))
    BY <1>3, <1>6 DEF r
<1>8. Wire(<<>>) = <<>> /\ <<>> \o <<>> = <<>>
    BY WireBytes, Join, Nothings
<1>9. SubSeq(M, marks[1] + 1, Len(M)) = <<>>
    BY <1>1
<1>10. Behinds(1, marks, M, <<>>, << <<>> >>)
    <2>. DEFINE B == << <<>> >>
    <2>1. B[1] = <<>>
        OBVIOUS
    <2>. HIDE DEF B
    <2>2. B[1] \o <<>> = Wire(SubSeq(M, marks[1] + 1, Len(M)))
        BY <1>8, <1>9, <2>1
    <2>3. \A k \in 1..(1 - 1) : B[k] = Wire(SubSeq(M, marks[k] + 1, marks[k + 1] - 1))
        OBVIOUS
    <2>4. Behinds(1, marks, M, <<>>, B)
        BY <2>2, <2>3 DEF Behinds
    <2>. QED
        BY <2>4 DEF B
<1>. QED
    BY <1>2, <1>7, <1>10 DEF Diverted

\* A build's tag that gets its count: nothing that is told of by the builder's bytes.
LEMMA BetweenMarks ==
    ASSUME NEW n, NEW m, NEW msg, Marks(n, m, msg), NEW j \in 1..n
    PROVE  /\ \A k \in 1..(n - 1), i \in Nat : m[k] < i /\ i < m[k + 1] => i # m[j]
           /\ \A i \in Nat : i < m[1] \/ i > m[n] => i # m[j]
<1>1. /\ n \in Nat /\ n >= 1 /\ m \in [1..n -> 1..Len(msg)]
      /\ \A i \in 1..n, k \in 1..n : i < k => m[i] < m[k]
    BY DEF Marks
<1>2. \A k \in 1..n : m[k] \in Nat
    BY <1>1
<1>3. ASSUME NEW k \in 1..(n - 1), NEW i \in Nat, m[k] < i, i < m[k + 1]
      PROVE  i # m[j]
    <2>1. k \in 1..n /\ k + 1 \in 1..n
        BY <1>1
    <2>2. CASE j < k
        <3>1. m[j] < m[k]
            BY <1>1, <2>1, <2>2
        <3>. QED
            BY <1>2, <1>3, <2>1, <3>1
    <2>3. CASE j > k + 1
        <3>1. m[k + 1] < m[j]
            BY <1>1, <2>1, <2>3
        <3>. QED
            BY <1>2, <1>3, <2>1, <3>1
    <2>4. CASE j = k \/ j = k + 1
        BY <1>2, <1>3, <2>1, <2>4
    <2>. QED
        BY <2>1, <2>2, <2>3, <2>4
<1>4. ASSUME NEW i \in Nat, i < m[1] \/ i > m[n]
      PROVE  i # m[j]
    <2>1. 1 \in 1..n /\ n \in 1..n
        BY <1>1
    <2>2. m[1] <= m[j]
        <3>1. CASE j = 1
            BY <1>2, <2>1, <3>1
        <3>2. CASE j # 1
            BY <1>1, <1>2, <2>1, <3>2
        <3>. QED
            BY <3>1, <3>2
    <2>3. m[j] <= m[n]
        <3>1. CASE j = n
            BY <1>2, <2>1, <3>1
        <3>2. CASE j # n
            BY <1>1, <1>2, <2>1, <3>2
        <3>. QED
            BY <3>1, <3>2
    <2>. QED
        BY <1>2, <1>4, <2>1, <2>2, <2>3
<1>. QED
    BY <1>3, <1>4

LEMMA RetoldMarks ==
    ASSUME NEW n, NEW m, NEW msg, Marks(n, m, msg), NEW j \in 1..n, NEW tag, NEW M, Retold(msg, m[j], tag, M),
           NEW rest, NEW bodies, Behinds(n, m, msg, rest, bodies)
    PROVE  Marks(n, m, M) /\ Before(m, M) = Before(m, msg) /\ Behinds(n, m, M, rest, bodies)
<1>1. /\ n \in Nat /\ n >= 1 /\ m \in [1..n -> 1..Len(msg)] /\ msg \in Seq(Tokens) /\ Len(msg) \in Nat
      /\ \A k \in 1..n : msg[m[k]].body = <<>>
    BY DEF Marks
<1>2. /\ M \in Seq(Tokens) /\ Len(M) = Len(msg) /\ M[m[j]].body = msg[m[j]].body
      /\ \A k \in 1..Len(msg) : k # m[j] => M[k] = msg[k]
    BY DEF Retold
<1>3. /\ \A k \in 1..(n - 1), i \in Nat : m[k] < i /\ i < m[k + 1] => i # m[j]
      /\ \A i \in Nat : i < m[1] \/ i > m[n] => i # m[j]
    BY BetweenMarks
<1>4. ASSUME NEW k \in 1..n
      PROVE  M[m[k]].body = <<>> /\ m[k] \in 1..Len(msg) /\ m[k] \in Nat
    <2>1. m[k] \in 1..Len(msg)
        BY <1>1
    <2>2. M[m[k]].body = msg[m[k]].body
        BY <1>2, <2>1
    <2>. QED
        BY <1>1, <2>1, <2>2
<1>5. Marks(n, m, M)
    BY <1>1, <1>2, <1>4 DEF Marks
<1>6. Before(m, M) = Before(m, msg)
    <2>. DEFINE b == m[1] - 1
    <2>1. 1 \in 1..n
        BY <1>1
    <2>2. b \in Nat /\ b <= Len(msg) /\ b <= Len(M) /\ 0 \in Nat /\ 0 + 1 = 1
        BY <1>1, <1>2, <1>4, <2>1
    <2>3. ASSUME NEW i \in (0 + 1)..b
          PROVE  M[i] = msg[i]
        <3>1. i \in Nat /\ i < m[1] /\ i \in 1..Len(msg)
            BY <1>1, <1>4, <2>1
        <3>. QED
            BY <1>2, <1>3, <3>1
    <2>. HIDE DEF b
    <2>4. SubSeq(M, 0 + 1, b) = SubSeq(msg, 0 + 1, b)
        BY <1>1, <1>2, <2>2, <2>3, SlicesAgree
    <2>. QED
        BY <2>2, <2>4 DEF b, Before
<1>7. ASSUME NEW k \in 1..(n - 1)
      PROVE  SubSeq(M, m[k] + 1, m[k + 1] - 1) = SubSeq(msg, m[k] + 1, m[k + 1] - 1)
    <2>. DEFINE a == m[k]
                b == m[k + 1] - 1
    <2>1. k \in 1..n /\ k + 1 \in 1..n
        BY <1>1
    <2>2. a \in Nat /\ b \in Nat /\ b <= Len(msg) /\ b <= Len(M) /\ m[k + 1] \in Nat
        BY <1>1, <1>2, <1>4, <2>1
    <2>3. ASSUME NEW i \in (a + 1)..b
          PROVE  M[i] = msg[i]
        <3>1. i \in Nat /\ a < i /\ i < m[k + 1] /\ i \in 1..Len(msg)
            BY <1>1, <2>2
        <3>. QED
            BY <1>2, <1>3, <3>1
    <2>. HIDE DEF a, b
    <2>4. SubSeq(M, a + 1, b) = SubSeq(msg, a + 1, b)
        BY <1>1, <1>2, <2>2, <2>3, SlicesAgree
    <2>. QED
        BY <2>4 DEF a, b
<1>8. SubSeq(M, m[n] + 1, Len(M)) = SubSeq(msg, m[n] + 1, Len(msg))
    <2>. DEFINE a == m[n]
                b == Len(msg)
    <2>1. n \in 1..n
        BY <1>1
    <2>2. a \in Nat /\ b \in Nat /\ b <= Len(msg) /\ b <= Len(M)
        BY <1>1, <1>2, <1>4, <2>1
    <2>3. ASSUME NEW i \in (a + 1)..b
          PROVE  M[i] = msg[i]
        <3>1. i \in Nat /\ i > a /\ i \in 1..Len(msg)
            BY <2>2
        <3>. QED
            BY <1>2, <1>3, <3>1
    <2>. HIDE DEF a, b
    <2>4. SubSeq(M, a + 1, b) = SubSeq(msg, a + 1, b)
        BY <1>1, <1>2, <2>2, <2>3, SlicesAgree
    <2>. QED
        BY <1>2, <2>4 DEF a, b
<1>9. Behinds(n, m, M, rest, bodies)
    BY <1>7, <1>8 DEF Behinds
<1>. QED
    BY <1>5, <1>6, <1>9

LEMMA DivertedRetold ==
    ASSUME NEW w, NEW msg, NEW rest, NEW m, NEW bodies, Diverted(w, msg, rest, m, bodies),
           NEW j \in 1..Len(w.builds), NEW tag, NEW M, Retold(msg, m[j], tag, M),
           NEW x, Lasting(w, x), Building(x, bodies), Len(x.builds) = Len(w.builds)
    PROVE  Diverted(x, M, rest, m, bodies)
<1>. DEFINE n == Len(w.builds)
<1>1. Marks(n, m, msg) /\ Behinds(n, m, msg, rest, bodies) /\ Holds(Restored(w), Wire(Before(m, msg)))
    BY DEF Diverted
<1>2. Marks(n, m, M) /\ Before(m, M) = Before(m, msg) /\ Behinds(n, m, M, rest, bodies)
    BY <1>1, RetoldMarks
<1>3. Holds(Restored(x), Wire(Before(m, M)))
    BY <1>1, <1>2, HoldsLasting
<1>. QED
    BY <1>2, <1>3 DEF Diverted

------------------------------------------------------------------------------------
(* What a call of the user says to the writer, through a buffer or a builder. *)

\* What a writer whose error is set may still change: its buffer and the builds' counts.
Idle(w, x) ==
    /\ IsWriter(x) /\ x.error = w.error /\ x.out = w.out /\ x.sink = w.sink /\ x.partial = w.partial
    /\ x.heap = w.heap /\ x.pages = w.pages /\ x.current = w.current /\ x.size = w.size /\ x.stash = w.stash
    /\ w.current = 0 => x.builds = w.builds

LEMMA IdleBuilds ==
    ASSUME NEW w, IsWriter(w), w.current # 0, NEW others, NEW x, x = [w EXCEPT !.builds = others]
    PROVE  Idle(w, x)
    BY DEF Idle, IsWriter, Fields

LEMMA IdleItself ==
    ASSUME NEW w, IsWriter(w)
    PROVE  Idle(w, w)
    BY DEF Idle

LEMMA IdleTwice ==
    ASSUME NEW w, NEW x, NEW y, Idle(w, x), Idle(x, y)
    PROVE  Idle(w, y)
    BY DEF Idle

LEMMA IdleTrack ==
    ASSUME NEW w, IsWriter(w), NEW x, x = TrackElement(w)
    PROVE  Idle(w, x)
<1>. DEFINE others == [w.builds EXCEPT ![w.current] = CountElement(w.builds[w.current])]
<1>1. CASE x = w
    BY <1>1, IdleItself
<1>2. CASE x = [w EXCEPT !.builds = others] /\ w.current # 0
    <2>. HIDE DEF others
    <2>. QED
        BY <1>2, IdleBuilds
<1>3. x = w \/ (x = [w EXCEPT !.builds = others] /\ w.current # 0)
    BY DEF TrackElement
<1>. QED
    BY <1>1, <1>2, <1>3

LEMMA IdleNest ==
    ASSUME NEW w, IsWriter(w), NEW by, NEW x, x = Nest(w, by)
    PROVE  Idle(w, x)
<1>. DEFINE others == [w.builds EXCEPT ![w.current] = [w.builds[w.current] EXCEPT !.nested = w.builds[w.current].nested + by]]
<1>1. CASE x = w
    BY <1>1, IdleItself
<1>2. CASE x = [w EXCEPT !.builds = others] /\ w.current # 0
    <2>. HIDE DEF others
    <2>. QED
        BY <1>2, IdleBuilds
<1>3. x = w \/ (x = [w EXCEPT !.builds = others] /\ w.current # 0)
    BY DEF Nest
<1>. QED
    BY <1>1, <1>2, <1>3

LEMMA IdlePut ==
    ASSUME NEW w, IsWriter(w), NEW more, NEW x, x = Put(w, more)
    PROVE  Idle(w, x)
<1>. DEFINE longer == w.buffer \o more
<1>1. x = [w EXCEPT !.buffer = longer]
    BY DEF Put
<1>. HIDE DEF longer
<1>. QED
    BY <1>1 DEF Idle, IsWriter, Fields

LEMMA IdleEncoded ==
    ASSUME NEW w, IsWriter(w), w.error # "ok", NEW more, NEW x, x = WriteEncoded(w, more)
    PROVE  Idle(w, x)
<1>1. x = Put(w, more) \/ x = w
    BY DEF WriteEncoded, Then, Ensure
<1>. QED
    BY <1>1, IdlePut, IdleItself

LEMMA IdleNative ==
    ASSUME NEW w, IsWriter(w), w.error # "ok", NEW more, NEW x, x = WriteNative(w, more)
    PROVE  Idle(w, x)
<1>1. x = Put(w, more) \/ x = w
    BY DEF WriteNative
<1>. QED
    BY <1>1, IdlePut, IdleItself

\* What stays of a writer that builds while its user goes on.
Onward(w, x) ==
    /\ IsWriter(x) /\ x.sink = w.sink /\ x.partial = w.partial /\ x.out = w.out /\ x.current # 0
    /\ \A own : Owning(w, own) => Owning(x, own)

LEMMA MovedOnward ==
    ASSUME NEW w, w.current # 0, NEW x, NEW elements, NEW levels, Moved(w, x, elements, levels)
    PROVE  Onward(w, x)
    BY DEF Moved, Onward

\* What a call that writes the bytes `more` does: to a writer with an error, to one that
\* builds nothing, and to one with open builds, of which the current one may count an
\* element more.
Says(w, x, more, counts) ==
    IF w.error # "ok" THEN Idle(w, x)
    ELSE IF w.current = 0 THEN \A bytes : Holds(w, bytes) => Holds(x, bytes \o more) /\ Beside(w, x)
    ELSE \A bodies : Building(w, bodies) /\ w.current \in 1..Len(w.builds) =>
            /\ Onward(w, x) /\ x.error \in {"ok", "memory"}
            /\ x.error = "ok" =>
                /\ Moved(w, x, IF counts /\ w.builds[w.current].nested = 0 THEN 1 ELSE 0, 0)
                /\ Building(x, MoreBody(bodies, more))

LEMMA SaysBytes ==
    ASSUME NEW w, IsWriter(w), NEW more \in Bytes, Len(more) > 0,
           NEW x, x = WriteBytes(w, more)
    PROVE  Says(w, x, more, FALSE)
<1>0. x = WriteNative(w, more)
    BY DEF WriteBytes
<1>1. CASE w.error # "ok"
    BY <1>0, <1>1, IdleNative DEF Says
<1>2. CASE w.error = "ok" /\ w.current = 0
    <2>1. ASSUME NEW bytes, Holds(w, bytes)
          PROVE  Holds(x, bytes \o more) /\ Beside(w, x)
        BY <1>0, <1>2, <2>1, HoldsNative
    <2>. QED
        BY <1>2, <2>1 DEF Says
<1>3. CASE w.error = "ok" /\ w.current # 0
    <2>1. ASSUME NEW bodies, Building(w, bodies), w.current \in 1..Len(w.builds)
          PROVE  /\ Onward(w, x) /\ x.error \in {"ok", "memory"} /\ Moved(w, x, 0, 0)
                 /\ x.error = "ok" => Building(x, MoreBody(bodies, more))
        <3>1. Written(w, bodies, more, x)
            BY <1>0, <1>3, <2>1, BuildNative
        <3>2. w.builds \in Seq(BuildRecords)
            BY <2>1, BodiesOf
        <3>3. Moved(w, w, 0, 0)
            BY <2>1, <3>2, TalliedNot, TalliedMoved
        <3>4. Kept(w, x)
            BY <3>1 DEF Written
        <3>5. Moved(w, x, 0, 0)
            BY <2>1, <3>3, <3>4, MovedKept
        <3>6. Onward(w, x)
            BY <1>3, <3>5, MovedOnward
        <3>. QED
            BY <3>1, <3>5, <3>6 DEF Written
    <2>. QED
        BY <1>3, <2>1 DEF Says
<1>. QED
    BY <1>1, <1>2, <1>3

LEMMA MovedTwice ==
    ASSUME NEW w, NEW x, NEW y, NEW elements \in Int, NEW levels \in Int, NEW more \in Int, NEW higher \in Int,
           w.current \in 1..Len(w.builds), w.builds \in Seq(BuildRecords),
           Moved(w, x, elements, levels), Moved(x, y, more, higher)
    PROVE  Moved(w, y, elements + more, levels + higher)
<1>. DEFINE b == w.builds[w.current]
            c == x.builds[w.current]
            d == y.builds[w.current]
<1>1. /\ IsWriter(y) /\ y.sink = w.sink /\ y.partial = w.partial /\ y.out = w.out /\ y.stash = w.stash
      /\ y.current = w.current /\ Len(y.builds) = Len(w.builds)
      /\ \A own : Owning(w, own) => Owning(y, own)
    BY DEF Moved
<1>2. /\ Len(x.builds) = Len(w.builds) /\ x.current = w.current /\ Recount(b, c, elements, levels)
      /\ \A k \in 1..Len(w.builds) : k # w.current => SameCounts(x.builds[k], w.builds[k])
    BY DEF Moved
<1>3. Recount(c, d, more, higher) /\ \A k \in 1..Len(x.builds) : k # x.current => SameCounts(y.builds[k], x.builds[k])
    BY <1>2 DEF Moved
<1>4. \A k \in 1..Len(w.builds) : k # w.current => SameCounts(y.builds[k], w.builds[k])
    BY <1>2, <1>3 DEF SameCounts
<1>5. b \in BuildRecords
    OBVIOUS
<1>. HIDE DEF b, c, d
<1>6. Elements(b) \in Int /\ b.nested \in Int
    BY <1>5, ElementsOf
<1>7. Recount(b, d, elements + more, levels + higher)
    <2>. DEFINE eb == Elements(b)
                ec == Elements(c)
                ed == Elements(d)
                nb == b.nested
                nc == c.nested
                nd == d.nested
    <2>1. ec = eb + elements /\ ed = ec + more /\ nc = nb + levels /\ nd = nc + higher
        BY <1>2, <1>3 DEF Recount
    <2>2. eb \in Int /\ nb \in Int
        BY <1>6
    <2>3. d.parent = b.parent /\ d.type = b.type /\ (b.type = "array" /\ ~b.half => ~d.half)
        BY <1>2, <1>3 DEF Recount
    <2>. HIDE DEF eb, ec, ed, nb, nc, nd
    <2>4. ed = eb + (elements + more) /\ nd = nb + (levels + higher)
        BY <2>1, <2>2
    <2>. QED
        BY <2>3, <2>4 DEF Recount, eb, ed, nb, nd
<1>. QED
    BY <1>1, <1>4, <1>7 DEF Moved, b, d
LEMMA PlainTrack ==
    ASSUME NEW w, w.current = 0
    PROVE  TrackElement(w) = w /\ \A by : Nest(w, by) = w
BY DEF TrackElement, Nest

\* An element is counted, then its bytes are written.
LEMMA SaysAfterTrack ==
    ASSUME NEW w, IsWriter(w), NEW more \in Bytes, NEW t, t = TrackElement(w), NEW x,
           Says(t, x, more, FALSE)
    PROVE  Says(w, x, more, TRUE)
<1>1. CASE w.error # "ok"
    <2>1. Idle(w, t)
        BY IdleTrack
    <2>2. t.error # "ok"
        BY <1>1, <2>1 DEF Idle
    <2>3. Idle(t, x)
        BY <2>2 DEF Says
    <2>4. Idle(w, x)
        BY <2>1, <2>3, IdleTwice
    <2>. QED
        BY <1>1, <2>4 DEF Says
<1>2. CASE w.error = "ok" /\ w.current = 0
    <2>1. t = w
        BY <1>2, PlainTrack
    <2>. QED
        BY <1>2, <2>1 DEF Says
<1>3. CASE w.error = "ok" /\ w.current # 0
    <2>. DEFINE elements == IF w.builds[w.current].nested = 0 THEN 1 ELSE 0
    <2>1. ASSUME NEW bodies, Building(w, bodies), w.current \in 1..Len(w.builds)
          PROVE  /\ Onward(w, x) /\ x.error \in {"ok", "memory"}
                 /\ x.error = "ok" => Moved(w, x, elements, 0) /\ Building(x, MoreBody(bodies, more))
        <3>1. w.builds \in Seq(BuildRecords)
            BY <2>1, BodiesOf
        <3>2. Tallied(w, t, elements, 0)
            BY <1>3, <2>1, <3>1, Tracking
        <3>3. Building(t, bodies) /\ t.error = w.error
            BY <2>1, <3>2, TalliedBuilding
        <3>4. Moved(w, t, elements, 0)
            BY <3>2, TalliedMoved
        <3>5. t.current = w.current /\ Len(t.builds) = Len(w.builds) /\ t.current # 0
            BY <1>3, <3>4 DEF Moved
        <3>6. t.error = "ok" /\ t.current # 0 /\ t.current \in 1..Len(t.builds)
            BY <1>3, <2>1, <3>3, <3>5
        <3>7. /\ Onward(t, x) /\ x.error \in {"ok", "memory"}
              /\ x.error = "ok" => Moved(t, x, 0, 0) /\ Building(x, MoreBody(bodies, more))
            BY <3>3, <3>6 DEF Says
        <3>8. elements \in Int
            OBVIOUS
        <3>. HIDE DEF elements
        <3>9. x.error = "ok" => Moved(w, x, elements + 0, 0 + 0)
            BY <2>1, <3>1, <3>4, <3>7, <3>8, MovedTwice
        <3>10. elements + 0 = elements
            BY <3>8
        <3>11. Onward(w, t)
            BY <1>3, <3>4, MovedOnward
        <3>12. Onward(w, x)
            BY <3>7, <3>11 DEF Onward
        <3>. QED
            BY <3>7, <3>9, <3>10, <3>12
    <2>. QED
        BY <1>3, <2>1 DEF Says
<1>. QED
    BY <1>1, <1>2, <1>3

LEMMA SaysEncoded ==
    ASSUME NEW w, IsWriter(w), NEW more \in Bytes, Len(more) > 0,
           NEW x, x = WriteEncoded(w, more)
    PROVE  Says(w, x, more, FALSE)
<1>1. CASE w.error # "ok"
    BY <1>1, IdleEncoded DEF Says
<1>2. CASE w.error = "ok" /\ w.current = 0
    <2>1. ASSUME NEW bytes, Holds(w, bytes)
          PROVE  Holds(x, bytes \o more) /\ Beside(w, x)
        BY <1>2, <2>1, HoldsEncoded
    <2>. QED
        BY <1>2, <2>1 DEF Says
<1>3. CASE w.error = "ok" /\ w.current # 0
    <2>1. ASSUME NEW bodies, Building(w, bodies), w.current \in 1..Len(w.builds)
          PROVE  /\ Onward(w, x) /\ x.error \in {"ok", "memory"} /\ Moved(w, x, 0, 0)
                 /\ x.error = "ok" => Building(x, MoreBody(bodies, more))
        <3>1. Written(w, bodies, more, x)
            BY <1>3, <2>1, BuildEncoded
        <3>2. w.builds \in Seq(BuildRecords)
            BY <2>1, BodiesOf
        <3>3. Moved(w, w, 0, 0)
            BY <2>1, <3>2, TalliedNot, TalliedMoved
        <3>4. Kept(w, x)
            BY <3>1 DEF Written
        <3>5. Moved(w, x, 0, 0)
            BY <2>1, <3>3, <3>4, MovedKept
        <3>6. Onward(w, x)
            BY <1>3, <3>5, MovedOnward
        <3>. QED
            BY <3>1, <3>5, <3>6 DEF Written
    <2>. QED
        BY <1>3, <2>1 DEF Says
<1>. QED
    BY <1>1, <1>2, <1>3

LEMMA IdleOnward ==
    ASSUME NEW w, NEW y, NEW x, Onward(w, y), Idle(y, x)
    PROVE  Onward(w, x)
    BY DEF Onward, Idle, Owning

LEMMA IdleHolds ==
    ASSUME NEW w, NEW y, NEW x, Beside(w, y), y.current = 0, Idle(y, x), y.error # "ok",
           NEW bytes, Holds(y, bytes), NEW more \in Bytes
    PROVE  Holds(x, bytes \o more) /\ Beside(w, x)
<1>1. /\ IsWriter(x) /\ x.error = y.error /\ x.out = y.out /\ x.sink = y.sink /\ x.size = y.size
      /\ x.partial = y.partial
    BY DEF Idle
<1>2. Holds(x, bytes \o more)
    BY <1>1, HoldsMore
<1>. QED
    BY <1>2 DEF Beside, Idle

LEMMA SaysTwice ==
    ASSUME NEW w, IsWriter(w), NEW a \in Bytes, NEW b \in Bytes, NEW y, NEW x,
           Says(w, y, a, FALSE), IsWriter(y) => Says(y, x, b, FALSE)
    PROVE  Says(w, x, a \o b, FALSE)
<1>1. CASE w.error # "ok"
    <2>1. Idle(w, y) /\ y.error # "ok" /\ IsWriter(y)
        BY <1>1 DEF Says, Idle
    <2>2. Idle(y, x)
        BY <2>1 DEF Says
    <2>3. Idle(w, x)
        BY <2>1, <2>2, IdleTwice
    <2>. QED
        BY <1>1, <2>3 DEF Says
<1>2. CASE w.error = "ok" /\ w.current = 0
    <2>1. ASSUME NEW bytes, Holds(w, bytes)
          PROVE  Holds(x, bytes \o (a \o b)) /\ Beside(w, x)
        <3>1. Holds(y, bytes \o a) /\ Beside(w, y)
            BY <1>2, <2>1 DEF Says
        <3>2. y.current = 0 /\ IsWriter(y)
            BY <1>2, <3>1 DEF Beside
        <3>3. bytes \in Bytes
            BY <2>1, HeldBytes
        <3>4. bytes \o (a \o b) = (bytes \o a) \o b
            BY <3>3, Rejoin
        <3>5. CASE y.error # "ok"
            <4>1. Idle(y, x)
                BY <3>2, <3>5 DEF Says
            <4>. QED
                BY <3>1, <3>2, <3>4, <3>5, <4>1, IdleHolds
        <3>6. CASE y.error = "ok"
            <4>1. Holds(x, (bytes \o a) \o b) /\ Beside(y, x)
                BY <3>1, <3>2, <3>6 DEF Says
            <4>. QED
                BY <3>1, <3>4, <4>1, BesideTwice
        <3>. QED
            BY <3>5, <3>6
    <2>. QED
        BY <1>2, <2>1 DEF Says
<1>3. CASE w.error = "ok" /\ w.current # 0
    <2>1. ASSUME NEW bodies, Building(w, bodies), w.current \in 1..Len(w.builds)
          PROVE  /\ Onward(w, x) /\ x.error \in {"ok", "memory"}
                 /\ x.error = "ok" => Moved(w, x, 0, 0) /\ Building(x, MoreBody(bodies, a \o b))
        <3>1. /\ Onward(w, y) /\ y.error \in {"ok", "memory"}
              /\ y.error = "ok" => Moved(w, y, 0, 0) /\ Building(y, MoreBody(bodies, a))
            BY <1>3, <2>1 DEF Says
        <3>2. CASE y.error # "ok"
            <4>1. Idle(y, x)
                BY <3>1, <3>2 DEF Says, Onward
            <4>2. Onward(w, x)
                BY <3>1, <4>1, IdleOnward
            <4>. QED
                BY <3>1, <3>2, <4>1, <4>2 DEF Idle
        <3>3. CASE y.error = "ok"
            <4>1. Moved(w, y, 0, 0) /\ Building(y, MoreBody(bodies, a))
                BY <3>1, <3>3
            <4>2. y.current # 0 /\ y.current \in 1..Len(y.builds) /\ IsWriter(y)
                BY <1>3, <2>1, <4>1 DEF Moved
            <4>3. /\ Onward(y, x) /\ x.error \in {"ok", "memory"}
                  /\ x.error = "ok" => Moved(y, x, 0, 0) /\ Building(x, MoreBody(MoreBody(bodies, a), b))
                BY <3>3, <4>1, <4>2 DEF Says
            <4>4. w.builds \in Seq(BuildRecords) /\ bodies \in Seq(Bytes) /\ Len(bodies) >= 1
                BY <2>1, BodiesOf
            <4>5. MoreBody(MoreBody(bodies, a), b) = MoreBody(bodies, a \o b)
                BY <4>4, BodyTwice
            <4>6. x.error = "ok" => Moved(w, x, 0 + 0, 0 + 0)
                BY <2>1, <4>1, <4>3, <4>4, MovedTwice
            <4>7. Onward(w, x)
                BY <3>1, <4>3 DEF Onward
            <4>. QED
                BY <4>3, <4>5, <4>6, <4>7
        <3>. QED
            BY <3>2, <3>3
    <2>. QED
        BY <1>3, <2>1 DEF Says
<1>. QED
    BY <1>1, <1>2, <1>3

LEMMA SaysTag ==
    ASSUME NEW w, IsWriter(w), NEW tag, Valid(tag), NEW x, x = WriteTag(w, tag)
    PROVE  Says(w, x, Encode(tag), TRUE)
<1>. DEFINE t == TrackElement(w)
            more == Encode(tag)
<1>1. IsWriter(t)
    BY IdleTrack DEF Idle
<1>2. more \in Bytes /\ Len(more) > 0
    <2>. DEFINE n == Len(more)
    <2>1. more \in Bytes
        BY EncodedBytes
    <2>2. n \in 1..9
        BY EncodedBytes
    <2>. HIDE DEF n
    <2>3. n > 0
        BY <2>2
    <2>. QED
        BY <2>1, <2>3 DEF n
<1>3. x = WriteEncoded(t, more)
    BY DEF WriteTag
<1>4. t = TrackElement(w)
    OBVIOUS
<1>. HIDE DEF t, more
<1>5. Says(t, x, more, FALSE)
    BY <1>1, <1>2, <1>3, SaysEncoded
<1>6. Says(w, x, more, TRUE)
    <2>1. more \in Bytes
        BY <1>2
    <2>. QED
        BY <1>4, <1>5, <2>1, SaysAfterTrack
<1>. QED
    BY <1>6 DEF more

LEMMA SaysObject ==
    ASSUME NEW w, IsWriter(w), NEW more \in Bytes, Len(more) > 0, NEW x, x = WriteObjectBytes(w, more)
    PROVE  Says(w, x, more, TRUE)
<1>. DEFINE t == TrackElement(w)
<1>1. IsWriter(t)
    BY IdleTrack DEF Idle
<1>2. x = WriteBytes(t, more)
    BY DEF WriteObjectBytes, WriteBytes
<1>3. t = TrackElement(w)
    OBVIOUS
<1>. HIDE DEF t
<1>4. Says(t, x, more, FALSE)
    BY <1>1, <1>2, SaysBytes
<1>. QED
    BY <1>3, <1>4, SaysAfterTrack

LEMMA SaysStr ==
    ASSUME NEW w, IsWriter(w), NEW text \in Bytes, Len(text) < Weight[4], NEW x, x = WriteStr(w, text)
    PROVE  Says(w, x, Encode(Tag("str", Len(text))) \o text, TRUE)
<1>. DEFINE t == TrackElement(w)
            tag == Encode(Tag("str", Len(text)))
            n == Len(text)
<1>1. IsWriter(t)
    BY IdleTrack DEF Idle
<1>2. n \in Nat /\ n < Weight[4]
    OBVIOUS
<1>3. tag \in Bytes /\ Len(tag) > 0
    <2>. DEFINE str == Tag("str", n)
    <2>1. Valid(str)
        BY <1>2, ValidCount
    <2>2. tag = Encode(str)
        OBVIOUS
    <2>. HIDE DEF str, tag
    <2>3. Encode(str) \in Bytes /\ Len(Encode(str)) \in 1..9
        BY <2>1, EncodedBytes
    <2>. QED
        BY <2>2, <2>3
<1>4. x = IF n <= FixStr THEN WriteEncoded(t, tag \o text) ELSE WriteNative(WriteEncoded(t, tag), text)
    BY DEF WriteStr
<1>5. t = TrackElement(w) /\ n = Len(text)
    OBVIOUS
<1>. HIDE DEF t, tag, n
<1>6. tag \o text \in Bytes /\ Len(tag \o text) = Len(tag) + n
    BY <1>3, <1>5, Join
<1>7. Says(t, x, tag \o text, FALSE)
    <2>1. CASE n <= FixStr
        <3>1. Len(tag \o text) > 0
            BY <1>2, <1>3, <1>6
        <3>2. x = WriteEncoded(t, tag \o text)
            BY <1>4, <2>1
        <3>. QED
            BY <1>1, <1>6, <3>1, <3>2, SaysEncoded
    <2>2. CASE ~(n <= FixStr)
        <3>. DEFINE y == WriteEncoded(t, tag)
        <3>1. n > 0
            BY <1>2, <2>2, FixAssumption
        <3>2. x = WriteBytes(y, text)
            BY <1>4, <2>2 DEF WriteBytes
        <3>3. Says(t, y, tag, FALSE)
            BY <1>1, <1>3, SaysEncoded
        <3>. HIDE DEF y
        <3>4. IsWriter(y) => Says(y, x, text, FALSE)
            BY <1>5, <3>1, <3>2, SaysBytes
        <3>. QED
            BY <1>1, <1>3, <3>3, <3>4, SaysTwice
    <2>. QED
        BY <2>1, <2>2
<1>8. Says(w, x, tag \o text, TRUE)
    BY <1>5, <1>6, <1>7, SaysAfterTrack
<1>. QED
    BY <1>8 DEF tag, n

------------------------------------------------------------------------------------
(* The invariant of a writer, the message and what is open. *)

\* The invariant of a writer, the message and what is open. A writer that failed has
\* passed on the beginning of some first tokens, none of them a build that is open.
Own(w) == IF w.sink \in {"file", "growable"} THEN 1 ELSE 0
Firm(w) ==
    /\ IsWriter(w) /\ w.partial \in Nat /\ w.sink \in {"fixed", "stream", "file", "growable"}
    /\ Owning(w, Own(w)) /\ (w.current = 0 => w.pages = <<>>)
Unbuilt(opn, j) == \A p \in 1..Len(opn) : opn[p].how = "build" => opn[p].index > j
BrokenAt(w, bytes) ==
    /\ w.out \in Bytes /\ bytes \in Bytes /\ Begins(w.out, bytes)
    /\ w.sink = "fixed" /\ w.error = "too_big" => w.current = 0 /\ w.size \in Nat /\ Len(bytes) > w.size
    /\ w.sink \in {"fixed", "growable"} => w.out = <<>>
Broken(w, msg, opn) == \E j \in 0..Len(msg) : BrokenAt(w, Wire(SubSeq(msg, 1, j))) /\ Unbuilt(opn, j)
Plain(w, msg, opn, rest) ==
    /\ w.current = 0 /\ w.builds = <<>> /\ NoBuild(opn) /\ rest \in Bytes
    /\ \E bytes : Holds(w, bytes) /\ bytes \o rest = Wire(msg)
Inside(w, msg, opn, rest) ==
    \E m, bodies : Diverted(w, msg, rest, m, bodies) /\ FrameOf(w.builds, w.current, msg, opn, m)
Sound(w, msg, opn, rest) ==
    /\ Firm(w) /\ rest \in Bytes
    /\ IF w.error # "ok" THEN Broken(w, msg, opn) ELSE Plain(w, msg, opn, rest) \/ Inside(w, msg, opn, rest)

\* The user goes on, and the first tokens before the open builds stay.
Carries(msg, opn, M, o) ==
    /\ Len(msg) \in Nat /\ Len(M) \in Nat /\ Len(msg) <= Len(M)
    /\ \A j \in 0..Len(msg) : Unbuilt(opn, j) => Unbuilt(o, j) /\ SubSeq(M, 1, j) = SubSeq(msg, 1, j)
Stays(w, x) ==
    /\ IsWriter(x) /\ x.out = w.out /\ x.sink = w.sink
    /\ x.error = "too_big" => x.error = w.error /\ x.current = w.current /\ x.size = w.size

LEMMA BrokenOn ==
    ASSUME NEW w, NEW msg, NEW opn, Broken(w, msg, opn), NEW x, Stays(w, x), NEW M, NEW o, Carries(msg, opn, M, o)
    PROVE  Broken(x, M, o)
<1>1. PICK j \in 0..Len(msg) : BrokenAt(w, Wire(SubSeq(msg, 1, j))) /\ Unbuilt(opn, j)
    BY DEF Broken
<1>2. Unbuilt(o, j) /\ SubSeq(M, 1, j) = SubSeq(msg, 1, j)
    BY <1>1 DEF Carries
<1>3. j \in 0..Len(M)
    BY DEF Carries
<1>. DEFINE bytes == Wire(SubSeq(msg, 1, j))
<1>. HIDE DEF bytes
<1>4. BrokenAt(w, bytes)
    BY <1>1 DEF bytes
<1>5. BrokenAt(x, bytes)
    BY <1>4 DEF BrokenAt, Stays
<1>. QED
    BY <1>2, <1>3, <1>5 DEF Broken, bytes

LEMMA IdleStays ==
    ASSUME NEW w, NEW x, Idle(w, x)
    PROVE  Stays(w, x)
    BY DEF Idle, Stays

LEMMA OnwardStays ==
    ASSUME NEW w, NEW x, Onward(w, x), x.error # "too_big"
    PROVE  Stays(w, x)
    BY DEF Onward, Stays

LEMMA PlainBroken ==
    ASSUME NEW x, NEW bytes, Holds(x, bytes), x.current = 0,
           NEW left \in Bytes, NEW M \in Seq(Tokens), bytes \o left = Wire(M), NEW o, NoBuild(o)
    PROVE  Broken(x, M, o)
<1>1. Len(M) \in 0..Len(M) /\ SubSeq(M, 1, Len(M)) = M
    OBVIOUS
<1>2. bytes \in Bytes /\ Begins(x.out, bytes)
    BY HeldBytes
<1>3. Wire(M) \in Bytes
    BY WireBytes
<1>4. Len(Wire(M)) = Len(bytes) + Len(left) /\ Len(bytes) \in Nat /\ Len(left) \in Nat
    BY <1>2, Join
<1>5. x.out \in Bytes
    BY DEF Holds
<1>6. Begins(x.out, Wire(M))
    BY <1>2, <1>5, BeginsFurther
<1>. DEFINE n == Len(Wire(M))
            b == Len(bytes)
<1>7. x.sink = "fixed" /\ x.error = "too_big" => x.size \in Nat /\ b > x.size
    BY DEF Holds
<1>. HIDE DEF n, b
<1>8. n \in Nat /\ b \in Nat /\ n >= b
    BY <1>4 DEF n, b
<1>9. x.sink = "fixed" /\ x.error = "too_big" => x.size \in Nat /\ n > x.size
    BY <1>7, <1>8
<1>10. BrokenAt(x, Wire(M))
    BY <1>3, <1>5, <1>6, <1>9 DEF BrokenAt, Holds, n
<1>11. Unbuilt(o, Len(M))
    BY DEF Unbuilt, NoBuild
<1>. QED
    BY <1>1, <1>10, <1>11 DEF Broken

LEMMA InsideBroken ==
    ASSUME NEW w, NEW msg, NEW opn, NEW rest, Inside(w, msg, opn, rest), w.error = "ok"
    PROVE  Broken(w, msg, opn)
<1>1. PICK m, bodies : Diverted(w, msg, rest, m, bodies) /\ FrameOf(w.builds, w.current, msg, opn, m)
    BY DEF Inside
<1>2. PICK under, above : Frame(w.builds, w.current, msg, opn, m, under, above)
    BY <1>1 DEF FrameOf
<1>. DEFINE n == Len(w.builds)
            j == m[1] - 1
            bytes == Wire(Before(m, msg))
            r == Restored(w)
<1>3. /\ n \in Nat /\ n >= 1 /\ m \in [1..n -> 1..Len(msg)] /\ msg \in Seq(Tokens)
      /\ \A i \in 1..n, k \in 1..n : i < k => m[i] < m[k]
    BY <1>1 DEF Diverted, Marks
<1>4. IsWriter(w)
    BY <1>1, BodiesOf DEF Diverted
<1>5. IsWriter(r) /\ r.sink = w.sink /\ r.out = w.out
    BY <1>4, Restoring
<1>6. Holds(r, bytes)
    BY <1>1 DEF Diverted
<1>7. bytes = Wire(SubSeq(msg, 1, j))
    BY DEF Before
<1>. HIDE DEF r, bytes
<1>8. bytes \in Bytes /\ Begins(r.out, bytes) /\ r.out \in Bytes /\ (r.sink \in {"fixed", "growable"} => r.out = <<>>)
    BY <1>6, HeldBytes DEF Holds
<1>9. BrokenAt(w, bytes)
    BY <1>5, <1>8 DEF BrokenAt
<1>10. j \in 0..Len(msg) /\ 1 \in 1..n /\ m[1] \in 1..Len(msg) /\ Len(msg) \in Nat
    <2>1. 1 \in 1..n
        BY <1>3
    <2>2. m[1] \in 1..Len(msg) /\ Len(msg) \in Nat
        BY <1>3, <2>1
    <2>. QED
        BY <2>1, <2>2
<1>11. ASSUME NEW p \in 1..Len(opn), opn[p].how = "build"
       PROVE  opn[p].index > j
    <2>. DEFINE k == under[p]
    <2>1. k \in 1..n /\ m[k] = opn[p].index
        BY <1>2, <1>11 DEF Frame, Filling
    <2>. HIDE DEF k, n, j
    <2>2. k = 1 \/ 1 < k
        BY <1>3, <2>1
    <2>3. m[k] \in 1..Len(msg) /\ (k = 1 \/ m[1] < m[k])
        BY <1>3, <1>10, <2>1, <2>2
    <2>. QED
        BY <1>10, <2>1, <2>3 DEF j
<1>. HIDE DEF j
<1>. QED
    BY <1>7, <1>9, <1>10, <1>11 DEF Broken, Unbuilt

LEMMA FirmIdle ==
    ASSUME NEW w, Firm(w), NEW x, Idle(w, x)
    PROVE  Firm(x)
    BY DEF Firm, Idle, Own, Owning

LEMMA FirmBeside ==
    ASSUME NEW w, Firm(w), NEW x, Beside(w, x)
    PROVE  Firm(x)
    BY DEF Firm, Beside, Own, Owning

LEMMA FirmOnward ==
    ASSUME NEW w, Firm(w), NEW x, Onward(w, x)
    PROVE  Firm(x)
<1>1. Own(x) = Own(w) /\ Owning(w, Own(w))
    BY DEF Firm, Onward, Own
<1>2. Owning(x, Own(x))
    BY <1>1 DEF Onward
<1>. QED
    BY <1>2 DEF Firm, Onward

LEMMA CarriesSaid ==
    ASSUME NEW msg \in Seq(Tokens), NEW opn \in Seq(Items), NEW token \in Tokens
    PROVE  Carries(msg, opn, Append(msg, token), Counting(opn))
<1>. DEFINE M == Append(msg, token)
            n == Len(msg)
<1>1. M \in Seq(Tokens) /\ Len(M) = n + 1 /\ n \in Nat /\ \A i \in 1..n : M[i] = msg[i]
    OBVIOUS
<1>2. n = Len(msg)
    OBVIOUS
<1>. HIDE DEF M, n
<1>3. ASSUME NEW j \in 0..n
      PROVE  SubSeq(M, 1, j) = SubSeq(msg, 1, j)
    <2>1. \A i \in (0 + 1)..j : M[i] = msg[i]
        BY <1>1, <1>3
    <2>2. 0 \in Nat /\ j \in Nat /\ j <= Len(msg) /\ j <= Len(M)
        BY <1>1, <1>2
    <2>3. SubSeq(M, 0 + 1, j) = SubSeq(msg, 0 + 1, j)
        BY <1>1, <2>1, <2>2, SlicesAgree
    <2>. QED
        BY <2>3
<1>4. ASSUME NEW j, Unbuilt(opn, j)
      PROVE  Unbuilt(Counting(opn), j)
    BY <1>4, CountingItems DEF Unbuilt
<1>. QED
    BY <1>1, <1>2, <1>3, <1>4 DEF Carries, M

LEMMA InsideTop ==
    ASSUME NEW w, NEW msg, NEW opn, NEW m, FrameOf(w.builds, w.current, msg, opn, m)
    PROVE  w.current \in 1..Len(w.builds) /\ w.builds \in Seq(BuildRecords) /\ w.current # 0 /\ opn # <<>>
           /\ opn \in Seq(Items)
<1>1. PICK under, above : Frame(w.builds, w.current, msg, opn, m, under, above)
    BY DEF FrameOf
<1>2. w.current # 0 /\ opn # <<>>
    BY <1>1, FrameTop
<1>. QED
    BY <1>1, <1>2 DEF Frame, Current, Depths

\* A token is written: what is left of it is written later.
LEMMA PlainSaid ==
    ASSUME NEW w, NEW msg, NEW opn, w.error = "ok", Plain(w, msg, opn, <<>>), Firm(w), Proper(msg, opn),
           NEW x, NEW more \in Bytes, Says(w, x, more, TRUE),
           NEW token \in Tokens, NEW left \in Bytes, Spelled(token) = more \o left
    PROVE  Sound(x, Append(msg, token), Counting(opn), left)
<1>. DEFINE M == Append(msg, token)
<1>1. msg \in Seq(Tokens) /\ opn \in Seq(Items)
    BY DEF Proper
<1>2. PICK bytes : Holds(w, bytes) /\ bytes \o <<>> = Wire(msg)
    BY DEF Plain
<1>3. bytes \in Bytes
    BY <1>2, HeldBytes
<1>4. bytes = Wire(msg)
    BY <1>2, <1>3, Join, Nothings
<1>5. w.current = 0 /\ w.builds = <<>> /\ NoBuild(opn)
    BY DEF Plain
<1>6. Holds(x, bytes \o more) /\ Beside(w, x)
    BY <1>2, <1>5 DEF Says
<1>7. x.current = 0 /\ x.builds = <<>>
    BY <1>5, <1>6 DEF Beside
<1>8. (bytes \o more) \o left = Wire(M)
    <2>1. Wire(M) = Wire(msg) \o Spelled(token)
        BY <1>1, WireAppend
    <2>. QED
        BY <1>3, <1>4, <2>1, Rejoin
<1>9. NoBuild(Counting(opn))
    BY <1>1, <1>5, CountingItems DEF NoBuild
<1>10. Firm(x)
    BY <1>6, FirmBeside
<1>11. M \in Seq(Tokens)
    BY <1>1
<1>. HIDE DEF M
<1>12. CASE x.error # "ok"
    <2>1. Broken(x, M, Counting(opn))
        BY <1>6, <1>7, <1>8, <1>9, <1>11, <1>12, PlainBroken
    <2>. QED
        BY <1>10, <1>12, <2>1 DEF Sound, M
<1>13. CASE x.error = "ok"
    <2>1. Plain(x, M, Counting(opn), left)
        BY <1>6, <1>7, <1>8, <1>9 DEF Plain
    <2>. QED
        BY <1>10, <1>13, <2>1 DEF Sound, M
<1>. QED
    BY <1>12, <1>13

LEMMA InsideSaid ==
    ASSUME NEW w, NEW msg, NEW opn, w.error = "ok", Inside(w, msg, opn, <<>>), Firm(w), Proper(msg, opn), NoBytes(opn),
           NEW x, NEW more \in Bytes, Says(w, x, more, TRUE),
           NEW token \in Tokens, NEW left \in Bytes, Spelled(token) = more \o left
    PROVE  Sound(x, Append(msg, token), Counting(opn), left)
<1>. DEFINE M == Append(msg, token)
            o == Counting(opn)
            elements == IF w.builds[w.current].nested = 0 THEN 1 ELSE 0
<1>1. msg \in Seq(Tokens) /\ opn \in Seq(Items) /\ \A p \in 1..Len(opn) : opn[p].index \in 1..Len(msg)
    BY DEF Proper, ProperItem
<1>2. PICK m, bodies : Diverted(w, msg, <<>>, m, bodies) /\ FrameOf(w.builds, w.current, msg, opn, m)
    BY DEF Inside
<1>3. Building(w, bodies) /\ w.current \in 1..Len(w.builds) /\ w.current # 0 /\ IsWriter(w)
    BY <1>2, InsideTop, BodiesOf DEF Diverted
<1>4. /\ Onward(w, x) /\ x.error \in {"ok", "memory"}
      /\ x.error = "ok" => Moved(w, x, elements, 0) /\ Building(x, MoreBody(bodies, more))
    BY <1>3 DEF Says
<1>5. Firm(x)
    BY <1>4, FirmOnward
<1>6. Carries(msg, opn, M, o)
    BY <1>1, CarriesSaid
<1>7. Spoken(msg, M, token)
    BY DEF Spoken
<1>8. Grown(msg, M)
    BY <1>1 DEF Grown
<1>9. o = Counting(opn) /\ elements = (IF w.builds[w.current].nested = 0 THEN 1 ELSE 0)
    OBVIOUS
<1>. HIDE DEF M, o, elements
<1>10. CASE x.error # "ok"
    <2>1. Broken(w, msg, opn)
        BY InsideBroken
    <2>2. Stays(w, x)
        BY <1>4, <1>10, OnwardStays
    <2>3. Broken(x, M, o)
        BY <1>6, <2>1, <2>2, BrokenOn
    <2>. QED
        BY <1>5, <1>10, <2>3 DEF Sound, M, o
<1>11. CASE x.error = "ok"
    <2>1. Moved(w, x, elements, 0) /\ Building(x, MoreBody(bodies, more))
        BY <1>4, <1>11
    <2>2. Lasting(w, x) /\ Len(x.builds) = Len(w.builds)
        BY <1>3, <1>11, <2>1 DEF Lasting, Moved
    <2>3. Added(w, x, more, bodies)
        BY <2>1, <2>2 DEF Added
    <2>4. Diverted(x, M, left, m, MoreBody(bodies, more))
        BY <1>2, <1>7, <2>3, DivertedSaid
    <2>5. x.builds \in Seq(BuildRecords)
        BY <2>1, BodiesOf
    <2>6. Recounting(w.builds, x.builds, w.current, elements, 0)
        BY <2>1, <2>5, MovedRecounting
    <2>7. PICK under, above : Frame(w.builds, w.current, msg, opn, m, under, above)
        BY <1>2 DEF FrameOf
    <2>8. Frame(x.builds, w.current, M, o, m, under, above)
        BY <1>1, <1>8, <1>9, <2>6, <2>7, FrameSaid
    <2>9. x.current = w.current
        BY <2>1 DEF Moved
    <2>10. FrameOf(x.builds, x.current, M, o, m)
        BY <2>8, <2>9 DEF FrameOf
    <2>11. Inside(x, M, o, left)
        BY <2>4, <2>10 DEF Inside
    <2>. QED
        BY <1>5, <1>11, <2>11 DEF Sound, M, o
<1>. QED
    BY <1>10, <1>11

LEMMA SoundSaid ==
    ASSUME NEW w, NEW msg, NEW opn, Sound(w, msg, opn, <<>>), Proper(msg, opn), NoBytes(opn),
           NEW x, NEW more \in Bytes, Says(w, x, more, TRUE),
           NEW token \in Tokens, NEW left \in Bytes, Spelled(token) = more \o left
    PROVE  Sound(x, Append(msg, token), Counting(opn), left)
<1>1. Firm(w)
    BY DEF Sound
<1>2. CASE w.error # "ok"
    <2>1. Idle(w, x)
        BY <1>2 DEF Says
    <2>2. Stays(w, x) /\ Firm(x) /\ x.error # "ok"
        BY <1>1, <1>2, <2>1, IdleStays, FirmIdle DEF Idle
    <2>3. msg \in Seq(Tokens) /\ opn \in Seq(Items)
        BY DEF Proper
    <2>4. Carries(msg, opn, Append(msg, token), Counting(opn))
        BY <2>3, CarriesSaid
    <2>5. Broken(w, msg, opn)
        BY <1>2 DEF Sound
    <2>6. Broken(x, Append(msg, token), Counting(opn))
        BY <2>2, <2>4, <2>5, BrokenOn
    <2>. QED
        BY <2>2, <2>6 DEF Sound
<1>3. CASE w.error = "ok"
    <2>1. Plain(w, msg, opn, <<>>) \/ Inside(w, msg, opn, <<>>)
        BY <1>3 DEF Sound
    <2>. QED
        BY <1>1, <1>3, <2>1, PlainSaid, InsideSaid
<1>. QED
    BY <1>2, <1>3

\* What the user opens or closes besides builds.
Aside(opn, o) ==
    \A q \in 1..Len(o) : o[q].how = "build" =>
        \E p \in 1..Len(opn) : opn[p].how = "build" /\ opn[p].index = o[q].index

LEMMA AsideCarries ==
    ASSUME NEW msg \in Seq(Tokens), NEW opn, NEW o, Aside(opn, o)
    PROVE  Carries(msg, opn, msg, o) /\ (NoBuild(opn) => NoBuild(o))
    BY DEF Aside, Carries, Unbuilt, NoBuild

LEMMA AsidePushed ==
    ASSUME NEW opn \in Seq(Items), NEW item, NEW o, Pushed(opn, item, o), item.how # "build"
    PROVE  Aside(opn, o)
<1>. DEFINE n == Len(opn)
<1>1. n \in Nat /\ Len(o) = n + 1 /\ o[n + 1] = item /\ \A p \in 1..n : o[p] = opn[p]
    BY DEF Pushed
<1>2. n = Len(opn)
    OBVIOUS
<1>. HIDE DEF n
<1>3. ASSUME NEW q \in 1..(n + 1), o[q].how = "build"
      PROVE  q \in 1..n /\ o[q] = opn[q]
    BY <1>1, <1>3
<1>. QED
    BY <1>1, <1>2, <1>3 DEF Aside

LEMMA AsidePopped ==
    ASSUME NEW opn \in Seq(Items), NEW o, Popped(opn, o)
    PROVE  Aside(opn, o)
<1>. DEFINE n == Len(opn)
<1>1. n \in Nat /\ Len(o) = n - 1 /\ \A p \in 1..(n - 1) : o[p] = opn[p]
    BY DEF Popped
<1>2. n = Len(opn)
    OBVIOUS
<1>. HIDE DEF n
<1>3. ASSUME NEW q \in 1..(n - 1)
      PROVE  q \in 1..n /\ o[q] = opn[q]
    BY <1>1, <1>3
<1>. QED
    BY <1>1, <1>2, <1>3 DEF Aside

LEMMA AsideAdvanced ==
    ASSUME NEW opn \in Seq(Items), NEW count, NEW o, Advanced(opn, count, o)
    PROVE  Aside(opn, o)
<1>1. Len(o) = Len(opn) /\ \A p \in 1..Len(opn) : o[p].how = opn[p].how /\ o[p].index = opn[p].index
    BY DEF Advanced
<1>. QED
    BY <1>1 DEF Aside

\* The user opens or closes a plain map or array, or the bytes of an object.
Levels(w, x, by) ==
    /\ w.error # "ok" => Idle(w, x)
    /\ w.error = "ok" /\ w.current = 0 => x = w
    /\ w.error = "ok" /\ w.current # 0 /\ w.builds \in Seq(BuildRecords) /\ w.current \in 1..Len(w.builds)
        => Tallied(w, x, 0, by)
Reframes(w, msg, opn, o, by) ==
    \A m, others : FrameOf(w.builds, w.current, msg, opn, m) /\ Recounting(w.builds, others, w.current, 0, by)
        => FrameOf(others, w.current, msg, o, m)

LEMMA SoundAside ==
    ASSUME NEW w, NEW msg \in Seq(Tokens), NEW opn, NEW rest, Sound(w, msg, opn, rest), NEW by \in Int,
           NEW x, Levels(w, x, by), NEW o, Aside(opn, o), Reframes(w, msg, opn, o, by)
    PROVE  Sound(x, msg, o, rest)
<1>0. Firm(w) /\ rest \in Bytes /\ IsWriter(w)
    BY DEF Sound, Firm
<1>1. CASE w.error # "ok"
    <2>1. Idle(w, x)
        BY <1>1 DEF Levels
    <2>2. Stays(w, x) /\ Firm(x) /\ x.error # "ok"
        BY <1>0, <1>1, <2>1, IdleStays, FirmIdle DEF Idle
    <2>3. Carries(msg, opn, msg, o)
        BY AsideCarries
    <2>4. Broken(w, msg, opn)
        BY <1>1 DEF Sound
    <2>5. Broken(x, msg, o)
        BY <2>2, <2>3, <2>4, BrokenOn
    <2>. QED
        BY <1>0, <2>2, <2>5 DEF Sound
<1>2. CASE w.error = "ok" /\ Plain(w, msg, opn, rest)
    <2>1. x = w
        BY <1>2 DEF Levels, Plain
    <2>2. NoBuild(o)
        BY <1>2, AsideCarries DEF Plain
    <2>3. Plain(x, msg, o, rest)
        BY <1>2, <2>1, <2>2 DEF Plain
    <2>. QED
        BY <1>0, <1>2, <2>1, <2>3 DEF Sound
<1>3. CASE w.error = "ok" /\ Inside(w, msg, opn, rest)
    <2>1. PICK m, bodies : Diverted(w, msg, rest, m, bodies) /\ FrameOf(w.builds, w.current, msg, opn, m)
        BY <1>3 DEF Inside
    <2>2. w.current \in 1..Len(w.builds) /\ w.builds \in Seq(BuildRecords) /\ w.current # 0
        BY <2>1, InsideTop
    <2>3. Building(w, bodies) /\ bodies \in Seq(Bytes) /\ Len(bodies) >= 1
        BY <2>1, BodiesOf DEF Diverted
    <2>4. Tallied(w, x, 0, by)
        BY <1>3, <2>2 DEF Levels
    <2>5. Moved(w, x, 0, by) /\ Building(x, bodies) /\ x.error = "ok"
        BY <1>3, <2>3, <2>4, TalliedMoved, TalliedBuilding
    <2>6. MoreBody(bodies, <<>>) = bodies /\ <<>> \in Bytes /\ rest = <<>> \o rest
        BY <1>0, <2>3, BodyTwice, Nothings, Join
    <2>7. Lasting(w, x) /\ Len(x.builds) = Len(w.builds) /\ x.current = w.current
        BY <1>0, <1>3, <2>5 DEF Lasting, Moved
    <2>8. Added(w, x, <<>>, bodies)
        BY <2>5, <2>6, <2>7 DEF Added
    <2>9. Diverted(x, msg, rest, m, MoreBody(bodies, <<>>))
        BY <1>0, <2>1, <2>6, <2>8, DivertedMore
    <2>10. x.builds \in Seq(BuildRecords)
        BY <2>5, BodiesOf
    <2>11. Recounting(w.builds, x.builds, w.current, 0, by)
        BY <2>5, <2>10, MovedRecounting
    <2>12. FrameOf(x.builds, x.current, msg, o, m)
        BY <2>1, <2>7, <2>11 DEF Reframes
    <2>13. Inside(x, msg, o, rest)
        BY <2>9, <2>12 DEF Inside
    <2>14. Firm(x)
        BY <1>0, <2>2, <2>5, MovedOnward, FirmOnward
    <2>. QED
        BY <1>0, <2>5, <2>13, <2>14 DEF Sound
<1>. QED
    BY <1>1, <1>2, <1>3 DEF Sound

LEMMA LevelsNest ==
    ASSUME NEW w, IsWriter(w), NEW by \in {1, -1}, NEW x, x = Nest(w, by)
    PROVE  Levels(w, x, by)
    BY IdleNest, PlainTrack, Nesting DEF Levels

LEMMA LevelsNone ==
    ASSUME NEW w, IsWriter(w)
    PROVE  Levels(w, w, 0)
    BY IdleItself, TalliedNot DEF Levels

LEMMA SoundPushed ==
    ASSUME NEW w, NEW msg \in Seq(Tokens), NEW opn \in Seq(Items), NEW rest, Sound(w, msg, opn, rest),
           NEW item, NEW o, Pushed(opn, item, o)
    PROVE  /\ item.how = "start" => Sound(Nest(w, 1), msg, o, rest)
           /\ item.how = "bytes" => Sound(w, msg, o, rest)
<1>1. IsWriter(w)
    BY DEF Sound, Firm
<1>2. item.how # "build" => Aside(opn, o)
    BY AsidePushed
<1>3. CASE item.how = "start"
    <2>1. Reframes(w, msg, opn, o, 1)
        BY <1>3, FramePushed DEF Reframes, Level
    <2>. DEFINE x == Nest(w, 1)
    <2>2. Levels(w, x, 1)
        BY <1>1, LevelsNest
    <2>. HIDE DEF x
    <2>3. Sound(x, msg, o, rest)
        BY <1>2, <1>3, <2>1, <2>2, SoundAside
    <2>. QED
        BY <1>3, <2>3 DEF x
<1>4. CASE item.how = "bytes"
    <2>1. Reframes(w, msg, opn, o, 0)
        BY <1>4, FramePushed DEF Reframes, Level
    <2>2. Levels(w, w, 0)
        BY <1>1, LevelsNone
    <2>3. Sound(w, msg, o, rest)
        BY <1>2, <1>4, <2>1, <2>2, SoundAside
    <2>. QED
        BY <1>4, <2>3
<1>. QED
    BY <1>3, <1>4

LEMMA SoundPopped ==
    ASSUME NEW w, NEW msg \in Seq(Tokens), NEW opn \in Seq(Items), NEW rest, Sound(w, msg, opn, rest),
           NEW o, Popped(opn, o)
    PROVE  /\ opn[Len(opn)].how = "start" => Sound(Nest(w, -1), msg, o, rest)
           /\ opn[Len(opn)].how = "bytes" => Sound(w, msg, o, rest)
<1>1. IsWriter(w)
    BY DEF Sound, Firm
<1>2. Aside(opn, o)
    BY AsidePopped
<1>3. CASE opn[Len(opn)].how = "start"
    <2>1. 0 - Level(opn[Len(opn)].how) = -1
        BY <1>3 DEF Level
    <2>2. Reframes(w, msg, opn, o, -1)
        BY <1>3, <2>1, FramePopped DEF Reframes
    <2>. DEFINE x == Nest(w, -1)
    <2>3. Levels(w, x, -1)
        BY <1>1, LevelsNest
    <2>. HIDE DEF x
    <2>4. Sound(x, msg, o, rest)
        BY <1>2, <2>2, <2>3, SoundAside
    <2>. QED
        BY <1>3, <2>4 DEF x
<1>4. CASE opn[Len(opn)].how = "bytes"
    <2>1. 0 - Level(opn[Len(opn)].how) = 0
        BY <1>4 DEF Level
    <2>2. Reframes(w, msg, opn, o, 0)
        BY <1>4, <2>1, FramePopped DEF Reframes
    <2>3. Levels(w, w, 0)
        BY <1>1, LevelsNone
    <2>4. Sound(w, msg, o, rest)
        BY <1>2, <2>2, <2>3, SoundAside
    <2>. QED
        BY <1>4, <2>4
<1>. QED
    BY <1>3, <1>4

\* Some of the bytes of an object are written.
LEMMA SoundAdvanced ==
    ASSUME NEW w, NEW msg \in Seq(Tokens), NEW opn \in Seq(Items), NEW rest, Sound(w, msg, opn, rest),
           opn[Len(opn)].how = "bytes", NEW count, NEW o, Advanced(opn, count, o),
           NEW x, NEW more \in Bytes, Says(w, x, more, FALSE), NEW left \in Bytes, rest = more \o left
    PROVE  Sound(x, msg, o, left)
<1>0. Firm(w) /\ rest \in Bytes /\ IsWriter(w)
    BY DEF Sound, Firm
<1>1. Carries(msg, opn, msg, o) /\ (NoBuild(opn) => NoBuild(o))
    BY AsideAdvanced, AsideCarries
<1>2. CASE w.error # "ok"
    <2>1. Idle(w, x)
        BY <1>2 DEF Says
    <2>2. Stays(w, x) /\ Firm(x) /\ x.error # "ok"
        BY <1>0, <1>2, <2>1, IdleStays, FirmIdle DEF Idle
    <2>3. Broken(w, msg, opn)
        BY <1>2 DEF Sound
    <2>4. Broken(x, msg, o)
        BY <1>1, <2>2, <2>3, BrokenOn
    <2>. QED
        BY <2>2, <2>4 DEF Sound
<1>3. CASE w.error = "ok" /\ Plain(w, msg, opn, rest)
    <2>1. PICK bytes : Holds(w, bytes) /\ bytes \o rest = Wire(msg)
        BY <1>3 DEF Plain
    <2>2. w.current = 0 /\ w.builds = <<>> /\ NoBuild(o)
        BY <1>1, <1>3 DEF Plain
    <2>3. Holds(x, bytes \o more) /\ Beside(w, x)
        BY <1>3, <2>1, <2>2 DEF Says
    <2>4. bytes \in Bytes
        BY <2>1, HeldBytes
    <2>5. (bytes \o more) \o left = Wire(msg)
        BY <2>1, <2>4, Rejoin
    <2>6. Firm(x) /\ x.current = 0 /\ x.builds = <<>>
        BY <1>0, <2>2, <2>3, FirmBeside DEF Beside
    <2>7. x.error # "ok" => Broken(x, msg, o)
        BY <2>2, <2>3, <2>5, <2>6, PlainBroken
    <2>8. Plain(x, msg, o, left)
        BY <2>2, <2>3, <2>5, <2>6 DEF Plain
    <2>. QED
        BY <2>6, <2>7, <2>8 DEF Sound
<1>4. CASE w.error = "ok" /\ Inside(w, msg, opn, rest)
    <2>1. PICK m, bodies : Diverted(w, msg, rest, m, bodies) /\ FrameOf(w.builds, w.current, msg, opn, m)
        BY <1>4 DEF Inside
    <2>2. w.current \in 1..Len(w.builds) /\ w.builds \in Seq(BuildRecords) /\ w.current # 0
        BY <2>1, InsideTop
    <2>3. Building(w, bodies)
        BY <2>1 DEF Diverted
    <2>4. /\ Onward(w, x) /\ x.error \in {"ok", "memory"}
          /\ x.error = "ok" => Moved(w, x, 0, 0) /\ Building(x, MoreBody(bodies, more))
        BY <1>4, <2>2, <2>3 DEF Says
    <2>5. Firm(x)
        BY <1>0, <2>4, FirmOnward
    <2>6. CASE x.error # "ok"
        <3>1. Broken(w, msg, opn)
            BY <1>4, InsideBroken
        <3>2. Stays(w, x)
            BY <2>4, <2>6, OnwardStays
        <3>3. Broken(x, msg, o)
            BY <1>1, <3>1, <3>2, BrokenOn
        <3>. QED
            BY <2>5, <2>6, <3>3 DEF Sound
    <2>7. CASE x.error = "ok"
        <3>1. Moved(w, x, 0, 0) /\ Building(x, MoreBody(bodies, more))
            BY <2>4, <2>7
        <3>2. Lasting(w, x) /\ Len(x.builds) = Len(w.builds) /\ x.current = w.current
            BY <1>0, <1>4, <2>7, <3>1 DEF Lasting, Moved
        <3>3. Added(w, x, more, bodies)
            BY <3>1, <3>2 DEF Added
        <3>4. Diverted(x, msg, left, m, MoreBody(bodies, more))
            BY <1>0, <2>1, <3>3, DivertedMore
        <3>5. x.builds \in Seq(BuildRecords)
            BY <3>1, BodiesOf
        <3>6. Recounting(w.builds, x.builds, w.current, 0, 0)
            BY <3>1, <3>5, MovedRecounting
        <3>7. FrameOf(x.builds, x.current, msg, o, m)
            BY <2>1, <3>2, <3>6, FrameAdvanced
        <3>8. Inside(x, msg, o, left)
            BY <3>4, <3>7 DEF Inside
        <3>. QED
            BY <2>5, <2>7, <3>8 DEF Sound
    <2>. QED
        BY <2>4, <2>6, <2>7
<1>. QED
    BY <1>2, <1>3, <1>4 DEF Sound

LEMMA SoundBroken ==
    ASSUME NEW w, NEW msg \in Seq(Tokens), NEW opn, NEW rest, Sound(w, msg, opn, rest)
    PROVE  Broken(w, msg, opn)
<1>1. CASE w.error = "ok" /\ Plain(w, msg, opn, rest)
    BY <1>1, PlainBroken DEF Plain
<1>2. CASE w.error = "ok" /\ Inside(w, msg, opn, rest)
    BY <1>2, InsideBroken
<1>. QED
    BY <1>1, <1>2 DEF Sound

LEMMA SoundPlain ==
    ASSUME NEW w, NEW msg \in Seq(Tokens), NEW opn, NEW rest, w.error = "ok", Plain(w, msg, opn, rest), Firm(w),
           NEW x, \A bytes : Holds(w, bytes) => Holds(x, bytes) /\ Beside(w, x)
    PROVE  Sound(x, msg, opn, rest)
<1>1. PICK bytes : Holds(w, bytes) /\ bytes \o rest = Wire(msg)
    BY DEF Plain
<1>2. Holds(x, bytes) /\ Beside(w, x)
    BY <1>1
<1>3. Firm(x) /\ x.current = 0 /\ x.builds = <<>>
    BY <1>2, FirmBeside DEF Beside, Plain
<1>4. NoBuild(opn) /\ rest \in Bytes
    BY DEF Plain
<1>5. x.error # "ok" => Broken(x, msg, opn)
    BY <1>1, <1>2, <1>3, <1>4, PlainBroken
<1>6. Plain(x, msg, opn, rest)
    BY <1>1, <1>2, <1>3, <1>4 DEF Plain
<1>. QED
    BY <1>3, <1>4, <1>5, <1>6 DEF Sound

LEMMA InsideCurrent ==
    ASSUME NEW w, NEW msg, NEW opn, NEW rest, Inside(w, msg, opn, rest)
    PROVE  w.current # 0 /\ opn # <<>>
    BY InsideTop DEF Inside

LEMMA SoundFlushed ==
    ASSUME NEW w, NEW msg \in Seq(Tokens), NEW opn, NEW rest, Sound(w, msg, opn, rest),
           w.current = 0, w.sink # "fixed", NEW x, x = FlushMessage(w)
    PROVE  Sound(x, msg, opn, rest)
<1>1. x = w \/ (w.error = "ok" /\ x = FlushUnchecked(w))
    BY DEF FlushMessage
<1>2. CASE x = w
    BY <1>2
<1>3. CASE w.error = "ok" /\ x = FlushUnchecked(w)
    <2>1. Plain(w, msg, opn, rest) /\ Firm(w)
        BY <1>3, InsideCurrent DEF Sound
    <2>2. \A bytes : Holds(w, bytes) => Holds(x, bytes) /\ Beside(w, x)
        BY <1>3, HoldsFlush
    <2>. QED
        BY <1>3, <2>1, <2>2, SoundPlain
<1>. QED
    BY <1>1, <1>2, <1>3

LEMMA SoundFlagged ==
    ASSUME NEW w, NEW msg \in Seq(Tokens), NEW opn, NEW rest, Sound(w, msg, opn, rest),
           NEW error, error \notin {"ok", "too_big"}, NEW x, x = Flag(w, error)
    PROVE  Sound(x, msg, opn, rest)
<1>0. Firm(w) /\ IsWriter(w) /\ rest \in Bytes
    BY DEF Sound, Firm
<1>1. CASE w.error # "ok"
    <2>1. x = w
        BY <1>1 DEF Flag
    <2>. QED
        BY <2>1
<1>2. CASE w.error = "ok"
    <2>1. /\ IsWriter(x) /\ x.error = error /\ Beside(w, x) /\ x.out = w.out
        BY <1>0, <1>2, Flagging
    <2>2. Stays(w, x)
        BY <2>1 DEF Stays, Beside
    <2>3. Firm(x)
        BY <1>0, <2>1, FirmBeside
    <2>4. Broken(w, msg, opn)
        BY SoundBroken
    <2>5. Carries(msg, opn, msg, opn)
        BY DEF Carries
    <2>6. Broken(x, msg, opn)
        BY <2>2, <2>4, <2>5, BrokenOn
    <2>. QED
        BY <1>0, <2>1, <2>3, <2>6 DEF Sound
<1>. QED
    BY <1>1, <1>2

------------------------------------------------------------------------------------
(* A build is opened. *)

\* A map or an array to be built is the last token of the message, and open.
Builds(msg, opn, type, M, o) ==
    \E token, item :
        /\ token \in Tokens /\ token.tag = Tag(type, 0) /\ token.body = <<>> /\ M = Append(msg, token)
        /\ item.how = "build" /\ item.index = Len(msg) + 1 /\ item.left = -1
        /\ Pushed(Counting(opn), item, o)

LEMMA CarriesBuilt ==
    ASSUME NEW msg \in Seq(Tokens), NEW opn \in Seq(Items), NEW type, NEW M, NEW o, Builds(msg, opn, type, M, o)
    PROVE  Carries(msg, opn, M, o)
<1>1. PICK token, item :
        /\ token \in Tokens /\ token.tag = Tag(type, 0) /\ token.body = <<>> /\ M = Append(msg, token)
        /\ item.how = "build" /\ item.index = Len(msg) + 1 /\ item.left = -1
        /\ Pushed(Counting(opn), item, o)
    BY DEF Builds
<1>2. Carries(msg, opn, M, Counting(opn))
    BY <1>1, CarriesSaid
<1>. DEFINE n == Len(Counting(opn))
            l == Len(msg)
<1>3. n \in Nat /\ Len(o) = n + 1 /\ o[n + 1] = item /\ \A p \in 1..n : o[p] = Counting(opn)[p]
    BY <1>1, CountingItems DEF Pushed
<1>4. l \in Nat /\ item.index = l + 1
    BY <1>1
<1>5. n = Len(Counting(opn)) /\ l = Len(msg)
    OBVIOUS
<1>. HIDE DEF n, l
<1>6. ASSUME NEW j \in 0..l, Unbuilt(Counting(opn), j)
      PROVE  Unbuilt(o, j)
    <2>1. ASSUME NEW p \in 1..(n + 1), o[p].how = "build"
          PROVE  o[p].index > j
        <3>1. CASE p = n + 1
            BY <1>3, <1>4, <1>6, <3>1
        <3>2. CASE p \in 1..n
            BY <1>3, <1>5, <1>6, <2>1, <3>2 DEF Unbuilt
        <3>. QED
            BY <1>3, <2>1, <3>1, <3>2
    <2>. QED
        BY <1>3, <2>1 DEF Unbuilt
<1>. QED
    BY <1>2, <1>5, <1>6 DEF Carries

LEMMA PlainBuilt ==
    ASSUME NEW w, NEW msg, NEW opn, w.error = "ok", Plain(w, msg, opn, <<>>), Firm(w), Proper(msg, opn), NoBytes(opn),
           NEW type \in {"array", "map"}, BuildSize >= MinBuffer, NEW x, x = BuildCompound(w, type),
           NEW M, NEW o, Builds(msg, opn, type, M, o), Broken(w, msg, opn)
    PROVE  Sound(x, M, o, <<>>)
<1>1. msg \in Seq(Tokens) /\ opn \in Seq(Items)
    BY DEF Proper
<1>2. PICK token, item :
        /\ token \in Tokens /\ token.tag = Tag(type, 0) /\ token.body = <<>> /\ M = Append(msg, token)
        /\ item.how = "build" /\ item.index = Len(msg) + 1 /\ item.left = -1
        /\ Pushed(Counting(opn), item, o)
    BY DEF Builds
<1>3. PICK bytes : Holds(w, bytes) /\ bytes \o <<>> = Wire(msg)
    BY DEF Plain
<1>4. bytes = Wire(msg)
    BY <1>3, HeldBytes, Join, Nothings
<1>5. w.current = 0 /\ w.builds = <<>> /\ NoBuild(opn) /\ w.pages = <<>> /\ IsWriter(w)
    BY DEF Plain, Firm
<1>6. Outermost(w, x, type)
    BY <1>5, BuildOuter
<1>7. Firm(x)
    <2>1. Own(x) = Own(w) /\ Owning(w, Own(w)) /\ w.partial \in Nat /\ w.sink \in {"fixed", "stream", "file", "growable"}
        BY <1>6 DEF Outermost, Own, Firm
    <2>2. Owning(x, Own(x)) /\ (x.current = 0 => x.pages = <<>>)
        BY <1>6, <2>1 DEF Outermost
    <2>. QED
        BY <1>6, <2>1, <2>2 DEF Outermost, Firm
<1>8. CASE x.error # "ok"
    <2>1. Stays(w, x)
        BY <1>6, <1>8 DEF Outermost, Stays
    <2>2. Broken(x, M, o)
        BY <1>1, <2>1, CarriesBuilt, BrokenOn
    <2>. QED
        BY <1>7, <1>8, <2>2, Nothings DEF Sound
<1>9. CASE x.error = "ok"
    <2>1. /\ IsWriter(x) /\ x.sink = w.sink /\ x.partial = w.partial /\ x.out = w.out /\ x.current = 1
          /\ x.stash = [buffer |-> w.buffer, size |-> w.size]
          /\ Len(x.builds) = 1 /\ Fresh(x.builds[1], 0, type) /\ Building(x, << <<>> >>)
        BY <1>6, <1>9 DEF Outermost
    <2>. DEFINE n == Len(M)
                marks == [k \in 1..1 |-> n]
    <2>2. n = Len(msg) + 1 /\ n \in 1..n /\ M \in Seq(Tokens) /\ M[n] = token
        BY <1>1, <1>2
    <2>3. n = Len(M)
        OBVIOUS
    <2>. HIDE DEF n
    <2>4. marks \in [1..1 -> 1..n] /\ marks[1] = n
        BY <2>2
    <2>. HIDE DEF marks
    <2>5. Spoken(msg, M, token)
        BY <1>2 DEF Spoken
    <2>6. Diverted(x, M, <<>>, marks, << <<>> >>)
        BY <1>1, <1>2, <1>3, <1>4, <1>9, <2>1, <2>3, <2>4, <2>5, DivertedFirst
    <2>7. NoBuild(Counting(opn)) /\ Counting(opn) \in Seq(Items)
        BY <1>1, <1>5, CountingItems DEF NoBuild
    <2>8. BuildItem(item, M, n, type)
        BY <1>2, <2>2, <2>3 DEF BuildItem, Tag
    <2>9. x.builds \in Seq(BuildRecords)
        BY <2>1, BodiesOf
    <2>10. FrameOf(x.builds, 1, M, o, marks)
        BY <1>2, <2>1, <2>3, <2>4, <2>7, <2>8, <2>9, FrameFirst
    <2>11. Inside(x, M, o, <<>>)
        BY <2>1, <2>6, <2>10 DEF Inside
    <2>. QED
        BY <1>7, <1>9, <2>11, Nothings DEF Sound
<1>. QED
    BY <1>8, <1>9

Firsts(n, s, t) == t = [k \in 1..n |-> s[k]]

\* The builds before a new one.
LEMMA OldBuilds ==
    ASSUME NEW w, NEW x, NEW type, Enclosed(w, x, type), w.builds \in Seq(BuildRecords), w.current \in 1..Len(w.builds),
           x.builds \in Seq(BuildRecords), NEW old, Firsts(Len(w.builds), x.builds, old)
    PROVE  /\ Recounting(w.builds, old, w.current, IF w.builds[w.current].nested = 0 THEN 1 ELSE 0, 0)
           /\ Len(x.builds) = Len(old) + 1 /\ Len(old) = Len(w.builds)
           /\ \A k \in 1..Len(old) : x.builds[k] = old[k]
           /\ x.current = Len(old) + 1 /\ Fresh(x.builds[Len(old) + 1], w.current, type)
<1>. DEFINE n == Len(w.builds)
            c == w.current
            bs == w.builds
            cs == x.builds
            elements == IF w.builds[w.current].nested = 0 THEN 1 ELSE 0
<1>1. /\ Len(cs) = n + 1 /\ x.current = n + 1 /\ \A k \in 1..n : k # c => SameCounts(cs[k], bs[k])
      /\ Recount(bs[c], cs[c], elements, 0) /\ Fresh(cs[n + 1], c, type)
    BY DEF Enclosed
<1>2. n \in Nat /\ c \in 1..n /\ cs \in Seq(BuildRecords) /\ n = Len(bs)
    OBVIOUS
<1>3. old = [k \in 1..n |-> cs[k]]
    BY DEF Firsts
<1>. HIDE DEF n, c, bs, cs, elements
<1>4. \A k \in 1..n : cs[k] \in BuildRecords
    <2>1. \A k \in 1..n : k \in 1..Len(cs)
        BY <1>1, <1>2
    <2>. QED
        BY <1>2, <2>1
<1>5. old \in [1..n -> BuildRecords] /\ \A k \in 1..n : old[k] = cs[k]
    BY <1>3, <1>4
<1>6. old \in Seq(BuildRecords) /\ Len(old) = n
    BY <1>2, <1>5
<1>7. Recounting(bs, old, c, elements, 0)
    BY <1>1, <1>2, <1>5, <1>6 DEF Recounting
<1>. QED
    BY <1>1, <1>5, <1>6, <1>7 DEF n, c, bs, cs, elements

LEMMA EnclosedOnward ==
    ASSUME NEW w, NEW x, NEW type, Enclosed(w, x, type), Len(w.builds) \in Nat
    PROVE  Onward(w, x)
<1>1. x.current # 0
    BY DEF Enclosed
<1>. QED
    BY <1>1 DEF Enclosed, Onward

LEMMA InsideBuilt ==
    ASSUME NEW w, NEW msg, NEW opn, w.error = "ok", Inside(w, msg, opn, <<>>), Firm(w), Proper(msg, opn), NoBytes(opn),
           NEW type \in {"array", "map"}, BuildSize >= MinBuffer, NEW x, x = BuildCompound(w, type),
           NEW M, NEW o, Builds(msg, opn, type, M, o), Broken(w, msg, opn)
    PROVE  Sound(x, M, o, <<>>)
<1>1. msg \in Seq(Tokens) /\ opn \in Seq(Items) /\ \A p \in 1..Len(opn) : opn[p].index \in 1..Len(msg)
    BY DEF Proper, ProperItem
<1>2. PICK token, item :
        /\ token \in Tokens /\ token.tag = Tag(type, 0) /\ token.body = <<>> /\ M = Append(msg, token)
        /\ item.how = "build" /\ item.index = Len(msg) + 1 /\ item.left = -1
        /\ Pushed(Counting(opn), item, o)
    BY DEF Builds
<1>3. PICK m, bodies : Diverted(w, msg, <<>>, m, bodies) /\ FrameOf(w.builds, w.current, msg, opn, m)
    BY DEF Inside
<1>4. w.current \in 1..Len(w.builds) /\ w.builds \in Seq(BuildRecords) /\ Building(w, bodies) /\ IsWriter(w)
    BY <1>3, InsideTop, BodiesOf DEF Diverted
<1>5. /\ Enclosed(w, x, type) /\ x.error \in {"ok", "memory"}
      /\ x.error = "ok" => Building(x, Append(bodies, <<>>))
    BY <1>4, BuildNested
<1>6. Onward(w, x)
    BY <1>4, <1>5, EnclosedOnward
<1>7. Firm(x)
    BY <1>6, FirmOnward
<1>8. CASE x.error # "ok"
    <2>1. Stays(w, x)
        BY <1>5, <1>6, <1>8, OnwardStays
    <2>2. Broken(x, M, o)
        BY <1>1, <2>1, CarriesBuilt, BrokenOn
    <2>. QED
        BY <1>7, <1>8, <2>2, Nothings DEF Sound
<1>9. CASE x.error = "ok"
    <2>. DEFINE n == Len(w.builds)
                l == Len(M)
                old == [k \in 1..n |-> x.builds[k]]
                marks == [k \in 1..(n + 1) |-> IF k = n + 1 THEN l ELSE m[k]]
                elements == IF w.builds[w.current].nested = 0 THEN 1 ELSE 0
    <2>1. l = Len(msg) + 1 /\ l \in 1..l /\ M \in Seq(Tokens) /\ M[l] = token /\ l \in Nat
        BY <1>1, <1>2
    <2>2. Spoken(msg, M, token) /\ Grown(msg, M)
        BY <1>1, <1>2 DEF Spoken, Grown
    <2>3. Building(x, Append(bodies, <<>>)) /\ x.builds \in Seq(BuildRecords)
        BY <1>5, <1>9, BodiesOf
    <2>4. l = Len(M) /\ n = Len(w.builds) /\ Firsts(n, x.builds, old) /\ n \in Nat
        BY <1>4 DEF Firsts
    <2>. HIDE DEF n, l, old
    <2>5. /\ Recounting(w.builds, old, w.current, elements, 0)
          /\ Len(x.builds) = Len(old) + 1 /\ Len(old) = n
          /\ \A k \in 1..Len(old) : x.builds[k] = old[k]
          /\ x.current = Len(old) + 1 /\ Fresh(x.builds[Len(old) + 1], w.current, type)
        BY <1>4, <1>5, <2>3, <2>4, OldBuilds
    <2>6. Marks(n, m, msg)
        BY <1>3, <2>4 DEF Diverted
    <2>7. Marked(n, m, l, marks, l)
        <3>1. m \in [1..n -> 1..Len(msg)]
            BY <2>6 DEF Marks
        <3>2. \A k \in 1..n : m[k] \in 1..l
            BY <2>1, <3>1
        <3>. QED
            BY <2>1, <2>4, <3>2 DEF Marked
    <2>. HIDE DEF marks
    <2>8. Lasting(w, x)
        BY <1>4, <1>5, <1>9 DEF Lasting, Enclosed
    <2>9. Diverted(x, M, <<>>, marks, Append(bodies, <<>>))
        BY <1>2, <1>3, <2>2, <2>3, <2>4, <2>5, <2>7, <2>8, DivertedBuilt
    <2>10. PICK under, above : Frame(w.builds, w.current, msg, opn, m, under, above)
        BY <1>3 DEF FrameOf
    <2>11. elements = (IF w.builds[w.current].nested = 0 THEN 1 ELSE 0)
        OBVIOUS
    <2>. HIDE DEF elements
    <2>12. Frame(old, w.current, M, Counting(opn), m, under, above)
        BY <1>1, <2>2, <2>5, <2>10, <2>11, FrameSaid
    <2>13. FrameOf(old, w.current, M, Counting(opn), m)
        BY <2>12 DEF FrameOf
    <2>14. BuildItem(item, M, l, type)
        BY <1>2, <2>1, <2>4 DEF BuildItem, Tag
    <2>15. Marked(Len(old), m, l, marks, Len(M))
        BY <2>4, <2>5, <2>7
    <2>16. FrameOf(x.builds, Len(old) + 1, M, o, marks)
        BY <1>2, <2>3, <2>5, <2>13, <2>14, <2>15, FrameBuilt
    <2>17. Inside(x, M, o, <<>>)
        BY <2>5, <2>9, <2>16 DEF Inside
    <2>. QED
        BY <1>7, <1>9, <2>17, Nothings DEF Sound
<1>. QED
    BY <1>5, <1>8, <1>9

LEMMA SoundBuilt ==
    ASSUME NEW w, NEW msg, NEW opn, Sound(w, msg, opn, <<>>), Proper(msg, opn), NoBytes(opn),
           NEW type \in {"array", "map"}, BuildSize >= MinBuffer, NEW x, x = BuildCompound(w, type),
           NEW M, NEW o, Builds(msg, opn, type, M, o)
    PROVE  Sound(x, M, o, <<>>)
<1>1. msg \in Seq(Tokens) /\ opn \in Seq(Items)
    BY DEF Proper
<1>2. Broken(w, msg, opn) /\ Firm(w)
    BY <1>1, SoundBroken DEF Sound
<1>3. CASE w.error # "ok"
    <2>1. x = w
        BY <1>3 DEF BuildCompound, Then
    <2>2. Stays(w, x)
        BY <1>2, <2>1 DEF Stays, Firm
    <2>3. Broken(x, M, o)
        BY <1>1, <1>2, <2>2, CarriesBuilt, BrokenOn
    <2>. QED
        BY <1>2, <1>3, <2>1, <2>3, Nothings DEF Sound
<1>4. CASE w.error = "ok"
    <2>1. Plain(w, msg, opn, <<>>) \/ Inside(w, msg, opn, <<>>)
        BY <1>4 DEF Sound
    <2>. QED
        BY <1>2, <1>4, <2>1, PlainBuilt, InsideBuilt
<1>. QED
    BY <1>3, <1>4

------------------------------------------------------------------------------------
(* A build is completed, and the message told anew. *)

\* The message around one of its tokens.
LEMMA WireStep ==
    ASSUME NEW msg \in Seq(Tokens), NEW i \in 1..Len(msg), NEW c \in i..Len(msg)
    PROVE  /\ Wire(SubSeq(msg, 1, c)) = (Wire(SubSeq(msg, 1, i - 1)) \o Spelled(msg[i])) \o Wire(SubSeq(msg, i + 1, c))
           /\ Wire(SubSeq(msg, 1, i - 1)) \in Bytes /\ Wire(SubSeq(msg, i + 1, c)) \in Bytes
<1>. DEFINE b == i - 1
            s == SubSeq(msg, 1, b)
            t == SubSeq(msg, i, c)
            u == SubSeq(msg, i, i)
            v == SubSeq(msg, i + 1, c)
<1>1. b \in Nat /\ b + 1 = i /\ 0 <= b /\ b <= i /\ b <= c /\ c \in Nat /\ i \in Nat /\ i <= c /\ c <= Len(msg) /\ i <= Len(msg)
    OBVIOUS
<1>. HIDE DEF b
<1>2. TokenSlices(msg, 0, b, c)
    BY <1>1, TokenSlicesJoin
<1>3. TokenSlices(msg, b, i, c)
    BY <1>1, TokenSlicesJoin
<1>4. s \o t = SubSeq(msg, 1, c) /\ s \in Seq(Tokens) /\ t \in Seq(Tokens)
    <2>1. SubSeq(msg, 0 + 1, b) \o SubSeq(msg, b + 1, c) = SubSeq(msg, 0 + 1, c)
          /\ SubSeq(msg, 0 + 1, b) \in Seq(Tokens) /\ SubSeq(msg, b + 1, c) \in Seq(Tokens)
        BY <1>2 DEF TokenSlices
    <2>. QED
        BY <1>1, <2>1
<1>5. u \o v = t /\ u \in Seq(Tokens) /\ v \in Seq(Tokens)
    <2>1. SubSeq(msg, b + 1, i) \o SubSeq(msg, i + 1, c) = SubSeq(msg, b + 1, c)
          /\ SubSeq(msg, b + 1, i) \in Seq(Tokens) /\ SubSeq(msg, i + 1, c) \in Seq(Tokens)
        BY <1>3 DEF TokenSlices
    <2>. QED
        BY <1>1, <2>1
<1>6. u = <<msg[i]>> /\ msg[i] \in Tokens
    BY SliceOfOne
<1>7. Wire(u) = Spelled(msg[i])
    BY <1>6, WireOfOne
<1>8. SubSeq(msg, 1, i - 1) = s
    BY DEF b
<1>9. v = SubSeq(msg, i + 1, c)
    OBVIOUS
<1>. HIDE DEF s, t, u, v
<1>10. Wire(SubSeq(msg, 1, c)) = Wire(s) \o Wire(t)
    BY <1>4, WireJoin
<1>11. Wire(t) = Wire(u) \o Wire(v)
    BY <1>5, WireJoin
<1>12. Wire(s) \in Bytes /\ Wire(u) \in Bytes /\ Wire(v) \in Bytes
    BY <1>4, <1>5, WireBytes
<1>13. Wire(SubSeq(msg, 1, c)) = (Wire(s) \o Wire(u)) \o Wire(v)
    <2>1. (Wire(s) \o Wire(u)) \o Wire(v) = Wire(s) \o (Wire(u) \o Wire(v))
        BY <1>12, Rejoin
    <2>. QED
        BY <1>10, <1>11, <2>1
<1>. QED
    BY <1>7, <1>8, <1>9, <1>12, <1>13

LEMMA SpelledTag ==
    ASSUME NEW token \in Tokens, NEW type \in {"array", "map"}, NEW n, token.tag = Tag(type, n), token.body = <<>>
    PROVE  Spelled(token) = Encode(Tag(type, n)) /\ Valid(Tag(type, n))
<1>. DEFINE tag == Tag(type, n)
<1>1. tag.type = type /\ tag \in Tags
    BY DEF Tag, Tokens
<1>2. Valid(tag)
    BY <1>1 DEF Tags
<1>3. Encode(tag) \in Bytes
    BY <1>2, EncodedBytes
<1>4. Encode(tag) \o <<>> = Encode(tag)
    BY <1>3, Join, Nothings
<1>5. Spelled(token) = Encode(tag) \o <<>>
    BY <1>1 DEF Spelled
<1>. QED
    BY <1>2, <1>4, <1>5

\* When every build's count is in the message, the message is what the walk writes.
LEMMA DivertedTold ==
    ASSUME NEW builds \in Seq(BuildRecords), NEW n, n = Len(builds), NEW m, NEW M, Marks(n, m, M),
           NEW bodies \in Seq(Bytes), Len(bodies) = n, Behinds(n, m, M, <<>>, bodies),
           \A k \in 1..n : Counted1(builds, M, m, k)
    PROVE  \E told : Told(builds, bodies, told) /\ told[0] = Wire(Before(m, M)) /\ told[n] = Wire(M)
<1>. DEFINE l == Len(M)
            e == [k \in 0..n |-> IF k = n THEN l ELSE m[k + 1] - 1]
            told == [k \in 0..n |-> Wire(SubSeq(M, 1, e[k]))]
<1>1. /\ n \in Nat /\ n >= 1 /\ m \in [1..n -> 1..l] /\ M \in Seq(Tokens) /\ l \in Nat
      /\ \A i \in 1..n, j \in 1..n : i < j => m[i] < m[j]
      /\ \A k \in 1..n : M[m[k]].body = <<>>
    BY DEF Marks
<1>2. l = Len(M)
    OBVIOUS
<1>. HIDE DEF l
<1>3. \A k \in 1..n : m[k] \in 1..l
    BY <1>1
<1>4. e[0] = m[1] - 1 /\ e[n] = l /\ 0 \in 0..n /\ n \in 0..n
    BY <1>1
<1>5. ASSUME NEW k \in 1..n
      PROVE  /\ k - 1 \in 0..n /\ k \in 0..n /\ e[k - 1] = m[k] - 1 /\ e[k] \in m[k]..l
             /\ e[k] = IF k = n THEN l ELSE m[k + 1] - 1
    <2>1. k - 1 \in 0..n /\ k \in 0..n /\ k - 1 # n /\ (k - 1) + 1 = k
        BY <1>1, <1>5
    <2>2. e[k - 1] = m[k] - 1
        BY <2>1
    <2>3. e[k] = IF k = n THEN l ELSE m[k + 1] - 1
        BY <2>1
    <2>4. m[k] \in 1..l
        BY <1>3, <1>5
    <2>5. CASE k = n
        BY <1>1, <2>1, <2>2, <2>3, <2>4, <2>5
    <2>6. CASE k # n
        <3>1. k + 1 \in 1..n /\ k < k + 1
            BY <1>1, <1>5, <2>6
        <3>2. m[k + 1] \in 1..l /\ m[k] < m[k + 1]
            BY <1>1, <1>3, <1>5, <3>1
        <3>. HIDE DEF e
        <3>3. e[k] = m[k + 1] - 1
            BY <2>3, <2>6
        <3>4. e[k] \in m[k]..l
            BY <1>1, <2>4, <3>2, <3>3
        <3>. QED
            BY <2>1, <2>2, <2>3, <3>4
    <2>. QED
        BY <2>5, <2>6
<1>6. \A k \in 0..n : told[k] = Wire(SubSeq(M, 1, e[k]))
    OBVIOUS
<1>. HIDE DEF e, told
<1>7. told[0] = Wire(Before(m, M))
    BY <1>4, <1>6 DEF Before
<1>8. told[n] = Wire(M)
    <2>1. SubSeq(M, 1, l) = M
        BY <1>1, <1>2
    <2>. QED
        BY <1>4, <1>6, <2>1
<1>9. told[0] \in Bytes
    <2>1. 1 \in 1..n /\ m[1] \in 1..Len(M) /\ l \in m[1]..Len(M)
        BY <1>1, <1>2, <1>3
    <2>2. Wire(SubSeq(M, 1, m[1] - 1)) \in Bytes
        BY <1>1, <2>1, WireStep
    <2>. QED
        BY <1>7, <2>2 DEF Before
<1>10. ASSUME NEW k \in 1..n
       PROVE  /\ Valid(Tag(builds[k].type, builds[k].count))
              /\ told[k] = (told[k - 1] \o Encode(Tag(builds[k].type, builds[k].count))) \o bodies[k]
    <2>. DEFINE i == m[k]
                c == e[k]
                type == builds[k].type
                count == builds[k].count
    <2>1. i \in 1..Len(M) /\ c \in i..Len(M) /\ e[k - 1] = i - 1 /\ k - 1 \in 0..n /\ k \in 0..n
        BY <1>2, <1>3, <1>5, <1>10
    <2>2. type \in {"array", "map"}
        <3>1. builds[k] \in BuildRecords
            BY <1>10
        <3>. QED
            BY <3>1, ElementsOf
    <2>3. M[i].tag = Tag(type, count) /\ M[i].body = <<>> /\ M[i] \in Tokens
        <3>1. M[i].tag = Tag(type, count)
            BY <1>10 DEF Counted1
        <3>2. M[i].body = <<>>
            BY <1>1, <1>10
        <3>. QED
            BY <1>1, <2>1, <3>1, <3>2
    <2>4. bodies[k] = Wire(SubSeq(M, i + 1, c))
        <3>1. CASE k = n
            <4>1. bodies[n] \o <<>> = Wire(SubSeq(M, m[n] + 1, l))
                BY <1>2 DEF Behinds
            <4>2. bodies[n] \in Bytes
                BY <1>1, <1>10
            <4>3. bodies[n] = Wire(SubSeq(M, m[n] + 1, l))
                BY <4>1, <4>2, Join, Nothings
            <4>. QED
                BY <1>4, <3>1, <4>3
        <3>2. CASE k # n
            <4>1. k \in 1..(n - 1)
                BY <1>1, <1>10, <3>2
            <4>2. bodies[k] = Wire(SubSeq(M, m[k] + 1, m[k + 1] - 1))
                BY <4>1 DEF Behinds
            <4>3. e[k] = m[k + 1] - 1
                BY <1>5, <1>10, <3>2
            <4>. QED
                BY <4>2, <4>3
        <3>. QED
            BY <3>1, <3>2
    <2>5. told[k] = Wire(SubSeq(M, 1, c)) /\ told[k - 1] = Wire(SubSeq(M, 1, i - 1))
        BY <1>6, <2>1
    <2>. HIDE DEF i, c, type, count
    <2>6. Wire(SubSeq(M, 1, c)) = (Wire(SubSeq(M, 1, i - 1)) \o Spelled(M[i])) \o Wire(SubSeq(M, i + 1, c))
        BY <1>1, <2>1, WireStep
    <2>7. Spelled(M[i]) = Encode(Tag(type, count)) /\ Valid(Tag(type, count))
        BY <2>2, <2>3, SpelledTag
    <2>8. /\ Valid(Tag(type, count))
          /\ told[k] = (told[k - 1] \o Encode(Tag(type, count))) \o bodies[k]
        BY <2>4, <2>5, <2>6, <2>7
    <2>. QED
        BY <2>8 DEF type, count
<1>11. Told(builds, bodies, told)
    BY <1>9, <1>10 DEF Told
<1>. QED
    BY <1>7, <1>8, <1>11

\* The count the latest open build gets in the message.
Elements1(opn) == -1 - opn[Len(opn)].left
BuiltTag(msg, opn) ==
    LET type == msg[opn[Len(opn)].index].tag.type
    IN  Tag(type, IF type = "map" THEN Elements1(opn) \div 2 ELSE Elements1(opn))
Completing(msg, opn, M, o) ==
    /\ opn # <<>> /\ opn[Len(opn)].how = "build"
    /\ msg[opn[Len(opn)].index].tag.type = "map" => Elements1(opn) % 2 = 0
    /\ Retold(msg, opn[Len(opn)].index, BuiltTag(msg, opn), M) /\ Popped(opn, o)

LEMMA CarriesCompleted ==
    ASSUME NEW msg, NEW opn, Proper(msg, opn), NEW M, NEW o, Completing(msg, opn, M, o)
    PROVE  Carries(msg, opn, M, o)
<1>. DEFINE l == Len(opn)
            i == opn[l].index
            n == Len(msg)
<1>1. /\ l \in Nat /\ l >= 1 /\ Len(o) = l - 1 /\ \A p \in 1..(l - 1) : o[p] = opn[p]
    <2>1. Len(opn) \in Nat
        BY DEF Proper
    <2>. QED
        BY <2>1 DEF Completing, Popped
<1>2. msg \in Seq(Tokens) /\ M \in Seq(Tokens) /\ Len(M) = n /\ n \in Nat /\ \A k \in 1..n : k # i => M[k] = msg[k]
    BY DEF Proper, Completing, Retold
<1>3. opn[l].how = "build"
    BY DEF Completing
<1>4. l = Len(opn) /\ n = Len(msg)
    OBVIOUS
<1>. HIDE DEF l, n, i
<1>5. ASSUME NEW j \in 0..n, Unbuilt(opn, j)
      PROVE  Unbuilt(o, j) /\ SubSeq(M, 1, j) = SubSeq(msg, 1, j)
    <2>1. i > j
        BY <1>1, <1>3, <1>4, <1>5 DEF Unbuilt, i
    <2>2. \A k \in (0 + 1)..j : k \in 1..n /\ k # i
        BY <1>2, <1>5, <2>1
    <2>3. \A k \in (0 + 1)..j : M[k] = msg[k]
        BY <1>2, <2>2
    <2>4. 0 \in Nat /\ j \in Nat /\ j <= Len(msg) /\ j <= Len(M)
        BY <1>2, <1>4, <1>5
    <2>5. SubSeq(M, 0 + 1, j) = SubSeq(msg, 0 + 1, j)
        BY <1>2, <2>3, <2>4, SlicesAgree
    <2>6. \A p \in 1..Len(o) : p \in 1..l /\ o[p] = opn[p]
        BY <1>1
    <2>7. Unbuilt(o, j)
        BY <1>4, <1>5, <2>6 DEF Unbuilt
    <2>. QED
        BY <2>5, <2>7
<1>. QED
    BY <1>2, <1>4, <1>5 DEF Carries

\* The writer's count is the one the message gets.
LEMMA CompletingCounts ==
    ASSUME NEW builds, NEW current, NEW msg, NEW opn, NEW m, NEW under, NEW above,
           Frame(builds, current, msg, opn, m, under, above), Marks(Len(builds), m, msg),
           NEW M, NEW o, Completing(msg, opn, M, o)
    PROVE  /\ builds[current].half = FALSE /\ builds[current].nested = 0 /\ builds[current].parent \in Nat
           /\ current \in 1..Len(builds) /\ m[current] = opn[Len(opn)].index
           /\ Completes(builds, current, msg, opn, m, M)
<1>. DEFINE l == Len(opn)
            i == opn[l].index
            b == builds[current]
            type == msg[i].tag.type
            elements == Elements1(opn)
<1>1. /\ opn[l].how = "build" /\ (type = "map" => elements % 2 = 0)
      /\ Retold(msg, i, Tag(type, IF type = "map" THEN elements \div 2 ELSE elements), M)
    BY DEF Completing, BuiltTag
<1>2. l \in Nat /\ l >= 1 /\ b.nested = 0
    BY <1>1, FrameTop
<1>3. current = under[l] /\ current \in 1..Len(builds) /\ builds \in Seq(BuildRecords)
    BY DEF Frame, Current
<1>4. Filling(builds, msg, opn, m, under, above, l)
    BY <1>1, <1>2 DEF Frame
<1>5. /\ m[current] = i /\ b.type = type /\ elements = Elements(b)
      /\ (b.type = "array" => b.half = FALSE)
    BY <1>3, <1>4 DEF Filling, Elements1
<1>6. b \in BuildRecords
    BY <1>3
<1>. HIDE DEF b, elements, type
<1>7. b.half = FALSE /\ b.count = (IF b.type = "map" THEN elements \div 2 ELSE elements) /\ b.parent \in Nat
    BY <1>1, <1>5, <1>6, CountFound, ElementsOf
<1>8. Retold(msg, i, Tag(b.type, b.count), M)
    BY <1>1, <1>5, <1>7
<1>9. \A k \in 1..Len(builds) : m[k] = m[current] => k = current
    <2>1. ASSUME NEW k \in 1..Len(builds), k # current
          PROVE  m[k] # m[current]
        <3>1. /\ Len(builds) \in Nat /\ m \in [1..Len(builds) -> 1..Len(msg)] /\ Len(msg) \in Nat
              /\ \A p \in 1..Len(builds), q \in 1..Len(builds) : p < q => m[p] < m[q]
            BY DEF Marks
        <3>2. k < current \/ current < k
            BY <1>3, <2>1, <3>1
        <3>3. m[k] < m[current] \/ m[current] < m[k]
            BY <1>3, <3>1, <3>2
        <3>4. m[k] \in 1..Len(msg) /\ m[current] \in 1..Len(msg)
            BY <1>3, <3>1
        <3>. QED
            BY <3>1, <3>3, <3>4
    <2>. QED
        BY <2>1
<1>10. Completes(builds, current, msg, opn, m, M)
    BY <1>1, <1>8, <1>9 DEF Completes, b
<1>. QED
    BY <1>2, <1>3, <1>5, <1>7, <1>10 DEF b

LEMMA InsideCompleted ==
    ASSUME NEW w, NEW msg, NEW opn, w.error = "ok", Inside(w, msg, opn, <<>>), Firm(w), Proper(msg, opn),
           NEW M, NEW o, Completing(msg, opn, M, o), NEW x, x = CompleteCompound(w)
    PROVE  Sound(x, M, o, <<>>)
<1>1. msg \in Seq(Tokens) /\ opn \in Seq(Items) /\ \A p \in 1..Len(opn) : opn[p].index \in 1..Len(msg)
    BY DEF Proper, ProperItem
<1>2. PICK m, bodies : Diverted(w, msg, <<>>, m, bodies) /\ FrameOf(w.builds, w.current, msg, opn, m)
    BY DEF Inside
<1>3. PICK under, above : Frame(w.builds, w.current, msg, opn, m, under, above)
    BY <1>2 DEF FrameOf
<1>. DEFINE n == Len(w.builds)
            c == w.current
            i == opn[Len(opn)].index
            parent == w.builds[w.current].parent
<1>4. Marks(n, m, msg) /\ Behinds(n, m, msg, <<>>, bodies) /\ Building(w, bodies)
      /\ Holds(Restored(w), Wire(Before(m, msg)))
    BY <1>2 DEF Diverted
<1>5. bodies \in Seq(Bytes) /\ Len(bodies) = n /\ IsWriter(w) /\ w.builds \in Seq(BuildRecords) /\ n \in Nat
    BY <1>4, BodiesOf
<1>6. /\ w.builds[c].half = FALSE /\ w.builds[c].nested = 0 /\ parent \in Nat
      /\ c \in 1..n /\ m[c] = i /\ Completes(w.builds, c, msg, opn, m, M)
    BY <1>3, <1>4, CompletingCounts
<1>7. Retold(msg, m[c], BuiltTag(msg, opn), M) /\ M \in Seq(Tokens) /\ Popped(opn, o)
    BY <1>6 DEF Completing, Retold
<1>8. w.heap \in Int
    BY DEF Firm, Owning
<1>9. CASE parent # 0
    <2>1. Ended(w, x, parent) /\ x.error = "ok" /\ Building(x, bodies)
        BY <1>4, <1>6, <1>9, CompleteNested
    <2>2. /\ Len(x.builds) = n /\ x.builds \in Seq(BuildRecords) /\ x.current = parent
          /\ \A k \in 1..n : SameCounts(x.builds[k], w.builds[k])
        BY <2>1, BodiesOf DEF Ended
    <2>3. Lasting(w, x)
        BY <1>5, <2>1 DEF Lasting, Ended
    <2>4. Onward(w, x)
        BY <1>9, <2>1 DEF Onward, Ended
    <2>5. Firm(x)
        BY <2>4, FirmOnward
    <2>. HIDE DEF c, parent
    <2>6. Diverted(x, M, <<>>, m, bodies)
        BY <1>2, <1>6, <1>7, <2>1, <2>2, <2>3, DivertedRetold
    <2>7. FrameOf(x.builds, parent, M, o, m)
        BY <1>1, <1>3, <1>6, <1>7, <1>9, <2>2, FrameEnded DEF c, parent
    <2>8. Inside(x, M, o, <<>>)
        BY <2>2, <2>6, <2>7 DEF Inside
    <2>. QED
        BY <2>1, <2>5, <2>8, Nothings DEF Sound
<1>10. CASE parent = 0
    <2>1. NoBuild(o) /\ \A k \in 1..n : Counted1(w.builds, M, m, k)
        BY <1>3, <1>6, <1>7, <1>10, AllCounted
    <2>2. Marks(n, m, M) /\ Before(m, M) = Before(m, msg) /\ Behinds(n, m, M, <<>>, bodies)
        BY <1>4, <1>6, <1>7, RetoldMarks
    <2>3. PICK told : Told(w.builds, bodies, told) /\ told[0] = Wire(Before(m, M)) /\ told[n] = Wire(M)
        BY <1>5, <2>1, <2>2, DivertedTold
    <2>4. Holds(Restored(w), told[0])
        BY <1>4, <2>2, <2>3
    <2>5. Holds(x, told[n]) /\ Resolved(w, x)
        BY <1>4, <1>6, <1>8, <1>10, <2>3, <2>4, CompleteOuter
    <2>6. Holds(x, Wire(M)) /\ x.current = 0 /\ x.pages = <<>> /\ x.builds = <<>>
        BY <2>3, <2>5 DEF Resolved
    <2>7. Firm(x)
        <3>1. x.sink = w.sink /\ x.partial = w.partial /\ IsWriter(x)
            BY <2>5 DEF Resolved, Holds
        <3>2. Owning(w, Own(w)) /\ Own(x) = Own(w)
            BY <3>1 DEF Firm, Own
        <3>3. Owning(x, Own(x))
            BY <2>5, <3>2 DEF Resolved
        <3>. QED
            BY <2>6, <3>1, <3>3 DEF Firm
    <2>8. Wire(M) \in Bytes
        BY <1>7, WireBytes
    <2>9. Wire(M) \o <<>> = Wire(M) /\ <<>> \in Bytes
        BY <2>8, Join, Nothings
    <2>10. x.error # "ok" => Broken(x, M, o)
        BY <1>7, <2>1, <2>6, <2>9, PlainBroken
    <2>11. Plain(x, M, o, <<>>)
        BY <2>1, <2>6, <2>9 DEF Plain
    <2>. QED
        BY <2>7, <2>9, <2>10, <2>11 DEF Sound
<1>. QED
    BY <1>9, <1>10

LEMMA SoundCompleted ==
    ASSUME NEW w, NEW msg, NEW opn, Sound(w, msg, opn, <<>>), Proper(msg, opn),
           NEW M, NEW o, Completing(msg, opn, M, o), NEW x, x = CompleteCompound(w)
    PROVE  Sound(x, M, o, <<>>)
<1>1. Firm(w) /\ <<>> \in Bytes
    BY Nothings DEF Sound
<1>2. CASE w.error # "ok"
    <2>1. x = w
        BY <1>2 DEF CompleteCompound
    <2>2. Broken(w, msg, opn) /\ Stays(w, x)
        BY <1>1, <1>2, <2>1 DEF Sound, Stays, Firm
    <2>3. Broken(x, M, o)
        BY <2>2, CarriesCompleted, BrokenOn
    <2>. QED
        BY <1>1, <1>2, <2>1, <2>3 DEF Sound
<1>3. CASE w.error = "ok" /\ Plain(w, msg, opn, <<>>)
    <2>1. Len(opn) \in 1..Len(opn) /\ opn[Len(opn)].how = "build"
        <3>1. opn \in Seq(Items) /\ opn # <<>> /\ opn[Len(opn)].how = "build"
            BY DEF Proper, Completing
        <3>. QED
            BY <3>1
    <2>2. FALSE
        BY <1>3, <2>1 DEF Plain, NoBuild
    <2>. QED
        BY <2>2
<1>4. CASE w.error = "ok" /\ Inside(w, msg, opn, <<>>)
    BY <1>1, <1>4, InsideCompleted
<1>. QED
    BY <1>2, <1>3, <1>4 DEF Sound

------------------------------------------------------------------------------------
(* The writer is destroyed. *)

\* The end of a writer: what is open in a builder is dropped, then the sink is torn down.
Teardown(r) ==
    CASE r.sink = "growable" -> GrowableTeardown(r)
      [] r.sink = "fixed" -> [r EXCEPT !.out = r.buffer]
      [] OTHER -> LET f == IF r.error = "ok" /\ r.buffer # <<>> THEN Send(r, r.buffer) ELSE r
                      closed == IF Fails(f) THEN Flag(f, "io") ELSE f
                  IN  IF r.sink = "file" THEN [closed EXCEPT !.heap = @ - 1] ELSE f
Dropped(w) ==
    IF w.current = 0 THEN w ELSE [Restored(Flag(w, "bug")) EXCEPT !.heap = @ - Len(w.pages)]

LEMMA DestroyIs ==
    ASSUME NEW w
    PROVE  DestroyWriter(w) = Teardown(Dropped(w))
    BY DEF DestroyWriter, Teardown, Dropped

LEMMA HeapSet ==
    ASSUME NEW w, IsWriter(w), NEW n, NEW x, x = [w EXCEPT !.heap = n]
    PROVE  /\ IsWriter(x) /\ x.heap = n /\ x.sink = w.sink /\ x.size = w.size /\ x.error = w.error
           /\ x.out = w.out /\ x.buffer = w.buffer /\ x.partial = w.partial /\ x.luck = w.luck
    BY DEF IsWriter, Fields

LEMMA OutSet ==
    ASSUME NEW w, IsWriter(w), NEW bytes, NEW x, x = [w EXCEPT !.out = bytes]
    PROVE  /\ IsWriter(x) /\ x.out = bytes /\ x.sink = w.sink /\ x.size = w.size /\ x.error = w.error
           /\ x.heap = w.heap /\ x.buffer = w.buffer /\ x.partial = w.partial /\ x.luck = w.luck
    BY DEF IsWriter, Fields

LEMMA DroppedIs ==
    ASSUME NEW w, Firm(w), w.current = 0 \/ w.error # "ok", NEW r, r = Dropped(w)
    PROVE  /\ IsWriter(r) /\ r.sink = w.sink /\ r.error = w.error /\ r.out = w.out /\ r.heap = Own(r)
           /\ w.current = 0 => r = w
<1>1. IsWriter(w) /\ Len(w.pages) \in Nat /\ w.heap = Own(w) + Len(w.pages) /\ Own(w) \in {0, 1}
    BY DEF Firm, Owning, Own
<1>2. CASE w.current = 0
    <2>1. r = w /\ w.pages = <<>>
        BY <1>2 DEF Dropped, Firm
    <2>2. w.heap = Own(w)
        BY <1>1, <2>1
    <2>. QED
        BY <1>1, <2>1, <2>2
<1>3. CASE w.current # 0
    <2>. DEFINE y == Restored(w)
                n == y.heap - Len(w.pages)
    <2>1. Flag(w, "bug") = w
        BY <1>3 DEF Flag
    <2>2. r = [y EXCEPT !.heap = n]
        BY <1>3, <2>1 DEF Dropped
    <2>3. IsWriter(y) /\ y.sink = w.sink /\ y.error = w.error /\ y.out = w.out /\ y.heap = w.heap
        BY <1>1, Restoring
    <2>4. n = Own(w)
        BY <1>1, <2>3
    <2>. HIDE DEF y, n
    <2>5. IsWriter(r) /\ r.heap = n /\ r.sink = y.sink /\ r.error = y.error /\ r.out = y.out
        BY <2>2, <2>3, HeapSet
    <2>. QED
        BY <1>3, <2>3, <2>4, <2>5 DEF Own
<1>. QED
    BY <1>2, <1>3

\* What the teardown leaves of the writer.
TornDown(r, x) == x.sink = r.sink /\ x.heap = 0

LEMMA GrowableTornDown ==
    ASSUME NEW r, IsWriter(r), r.sink = "growable", r.heap = Own(r), NEW x, x = GrowableTeardown(r)
    PROVE  /\ TornDown(r, x)
           /\ r.error # "ok" => x.error = r.error /\ x.out = r.out
           /\ r.error = "ok" => \/ x.error = "memory" /\ x.out = r.out
                                \/ x.error = "ok" /\ x.out = r.buffer
<1>. DEFINE n == r.heap - 1
            freed == [r EXCEPT !.heap = n, !.buffer = <<>>]
<1>1. n = 0
    BY DEF Own
<1>. HIDE DEF n
<1>2. /\ IsWriter(freed) /\ freed.heap = n /\ freed.sink = r.sink /\ freed.error = r.error /\ freed.out = r.out
    BY DEF IsWriter, Fields
<1>3. \/ r.error # "ok" /\ x = freed
      \/ r.error = "ok" /\ x = Flag(freed, "memory")
      \/ r.error = "ok" /\ x = [freed EXCEPT !.out = r.buffer]
    BY DEF GrowableTeardown, n
<1>. HIDE DEF freed
<1>4. CASE r.error # "ok" /\ x = freed
    BY <1>1, <1>2, <1>4 DEF TornDown
<1>5. CASE r.error = "ok" /\ x = Flag(freed, "memory")
    <2>1. x.error = "memory" /\ x.out = freed.out /\ Beside(freed, x)
        BY <1>2, <1>5, Flagging
    <2>. QED
        BY <1>1, <1>2, <1>5, <2>1 DEF TornDown, Beside
<1>6. CASE r.error = "ok" /\ x = [freed EXCEPT !.out = r.buffer]
    <2>1. x.out = r.buffer /\ x.sink = freed.sink /\ x.error = freed.error /\ x.heap = freed.heap
        BY <1>2, <1>6, OutSet
    <2>. QED
        BY <1>1, <1>2, <1>6, <2>1 DEF TornDown
<1>. QED
    BY <1>3, <1>4, <1>5, <1>6

LEMMA LastSend ==
    ASSUME NEW r, NEW bytes, Holds(r, bytes), r.error = "ok", NEW f, f = Send(r, r.buffer)
    PROVE  /\ IsWriter(f) /\ f.sink = r.sink /\ f.heap = r.heap /\ f.out \in Bytes /\ Begins(f.out, bytes)
           /\ f.error \in {"ok", "io"} /\ (f.error = "ok" => f.out = bytes)
<1>1. IsWriter(r) /\ r.out \in Bytes /\ r.partial \in Nat /\ r.buffer \in Bytes /\ bytes = r.out \o r.buffer
    BY DEF Holds
<1>. DEFINE n == Least(r.partial, Len(r.buffer))
            part == SubSeq(r.buffer, 1, n)
            others == SubSeq(r.buffer, n + 1, Len(r.buffer))
            some == r.out \o part
            all == r.out \o r.buffer
            less == [r EXCEPT !.out = some]
            more == [Spent(r) EXCEPT !.out = all]
<1>2. n \in 0..Len(r.buffer)
    BY <1>1 DEF Least
<1>3. f = Flag(less, "io") \/ f = [Spent(r) EXCEPT !.out = Spent(r).out \o r.buffer]
    BY DEF Send
<1>4. IsWriter(Spent(r)) /\ Spent(r).sink = r.sink /\ Spent(r).heap = r.heap /\ Spent(r).error = r.error
      /\ Spent(r).out = r.out
    BY <1>1, Spending DEF Beside
<1>5. f = Flag(less, "io") \/ f = more
    BY <1>3, <1>4
<1>. HIDE DEF n
<1>6. part \in Bytes /\ others \in Bytes /\ part \o others = r.buffer
    BY <1>1, <1>2, Parts
<1>. HIDE DEF part, others
<1>7. some \in Bytes /\ all = some \o others /\ all \in Bytes
    <2>1. all = r.out \o (part \o others)
        BY <1>6
    <2>2. (r.out \o part) \o others = r.out \o (part \o others)
        BY <1>1, <1>6, Rejoin
    <2>3. r.out \o part \in Bytes /\ r.out \o r.buffer \in Bytes
        BY <1>1, <1>6, Join
    <2>. QED
        BY <2>1, <2>2, <2>3
<1>8. Begins(some, all) /\ Begins(all, all)
    <2>1. all \o <<>> = all
        BY <1>7, Join, Nothings
    <2>. QED
        BY <1>6, <1>7, <2>1, Nothings DEF Begins
<1>. HIDE DEF some, all
<1>9. IsWriter(less) /\ less.out = some /\ less.sink = r.sink /\ less.heap = r.heap /\ less.error = r.error
    BY <1>1, OutSet
<1>10. IsWriter(more) /\ more.out = all /\ more.sink = r.sink /\ more.heap = r.heap /\ more.error = r.error
    BY <1>4, OutSet
<1>11. all = bytes
    BY <1>1 DEF all
<1>. HIDE DEF less, more
<1>12. CASE f = Flag(less, "io")
    <2>1. IsWriter(f) /\ f.error = "io" /\ f.out = some /\ Beside(less, f)
        BY <1>9, <1>12, Flagging
    <2>. QED
        BY <1>7, <1>8, <1>9, <1>11, <2>1 DEF Beside
<1>13. CASE f = more
    BY <1>7, <1>8, <1>10, <1>11, <1>13
<1>. QED
    BY <1>5, <1>12, <1>13

LEMMA SentTornDown ==
    ASSUME NEW r, IsWriter(r), r.sink \in {"stream", "file"}, r.heap = Own(r),
           r.error = "ok" => \E bytes : Holds(r, bytes), NEW x, x = Teardown(r)
    PROVE  /\ TornDown(r, x)
           /\ r.error # "ok" => x.error = r.error /\ x.out = r.out
           /\ r.error = "ok" => \A bytes : Holds(r, bytes) =>
                /\ x.out \in Bytes /\ Begins(x.out, bytes)
                /\ x.error \in {"ok", "io"} /\ (x.error = "ok" => x.out = bytes)
<1>. DEFINE f == IF r.error = "ok" /\ r.buffer # <<>> THEN Send(r, r.buffer) ELSE r
            closed == IF Fails(f) THEN Flag(f, "io") ELSE f
<1>1. x = IF r.sink = "file" THEN [closed EXCEPT !.heap = closed.heap - 1] ELSE f
    BY DEF Teardown
<1>2. r.error # "ok" => f = r
    OBVIOUS
<1>3. r.error = "ok" => \A bytes : Holds(r, bytes) =>
        /\ IsWriter(f) /\ f.sink = r.sink /\ f.heap = r.heap /\ f.out \in Bytes /\ Begins(f.out, bytes)
        /\ f.error \in {"ok", "io"} /\ (f.error = "ok" => f.out = bytes)
    <2>1. ASSUME r.error = "ok", NEW bytes, Holds(r, bytes), r.buffer = <<>>
          PROVE  r.out \in Bytes /\ Begins(r.out, bytes) /\ r.out = bytes
        BY <2>1, HeldBytes, Join, Nothings DEF Holds
    <2>2. ASSUME r.error = "ok", NEW bytes, Holds(r, bytes)
          PROVE  /\ IsWriter(f) /\ f.sink = r.sink /\ f.heap = r.heap /\ f.out \in Bytes /\ Begins(f.out, bytes)
                 /\ f.error \in {"ok", "io"} /\ (f.error = "ok" => f.out = bytes)
        BY <2>1, <2>2, LastSend
    <2>. QED
        BY <2>2
<1>4. IsWriter(f) /\ f.sink = r.sink /\ f.heap = r.heap
    BY <1>2, <1>3
<1>5. IsWriter(closed) /\ closed.sink = r.sink /\ closed.heap = r.heap /\ closed.out = f.out
      /\ closed.error \in {f.error, "io"} /\ (f.error # "ok" => closed.error = f.error)
    <2>. HIDE DEF f
    <2>1. CASE closed = f
        BY <1>4, <2>1
    <2>2. CASE closed = Flag(f, "io")
        <3>. HIDE DEF closed
        <3>1. IsWriter(closed) /\ closed.error = (IF f.error = "ok" THEN "io" ELSE f.error)
              /\ closed.out = f.out /\ Beside(f, closed)
            BY <1>4, <2>2, Flagging
        <3>. QED
            BY <1>4, <3>1 DEF Beside
    <2>. QED
        BY <2>1, <2>2
<1>. HIDE DEF f, closed
<1>6. /\ TornDown(r, x) /\ x.out = f.out
      /\ x.error \in {f.error, "io"} /\ (f.error # "ok" => x.error = f.error)
    <2>1. CASE r.sink = "file"
        <3>. DEFINE n == closed.heap - 1
        <3>1. n = 0
            BY <1>5, <2>1 DEF Own
        <3>2. x = [closed EXCEPT !.heap = n]
            BY <1>1, <2>1
        <3>. HIDE DEF n
        <3>3. x.heap = n /\ x.sink = closed.sink /\ x.error = closed.error /\ x.out = closed.out
            BY <1>5, <3>2, HeapSet
        <3>. QED
            BY <1>5, <3>1, <3>3 DEF TornDown
    <2>2. CASE r.sink = "stream"
        <3>1. x = f
            BY <1>1, <2>2
        <3>2. f.heap = 0
            BY <1>4, <2>2 DEF Own
        <3>. QED
            BY <1>4, <3>1, <3>2 DEF TornDown
    <2>. QED
        BY <2>1, <2>2
<1>7. r.error # "ok" => x.error = r.error /\ x.out = r.out
    BY <1>2, <1>6
<1>8. ASSUME r.error = "ok", NEW bytes, Holds(r, bytes)
      PROVE  /\ x.out \in Bytes /\ Begins(x.out, bytes)
             /\ x.error \in {"ok", "io"} /\ (x.error = "ok" => x.out = bytes)
    <2>1. /\ f.out \in Bytes /\ Begins(f.out, bytes)
          /\ f.error \in {"ok", "io"} /\ (f.error = "ok" => f.out = bytes)
        BY <1>3, <1>8
    <2>. QED
        BY <1>6, <2>1
<1>. QED
    BY <1>6, <1>7, <1>8

LEMMA BrokenBegins ==
    ASSUME NEW w, NEW msg \in Seq(Tokens), NEW opn, Broken(w, msg, opn)
    PROVE  BrokenAt(w, Wire(msg)) /\ IsPrefix(w.out, Wire(msg))
<1>1. PICK j \in 0..Len(msg) : BrokenAt(w, Wire(SubSeq(msg, 1, j)))
    BY DEF Broken
<1>. DEFINE a == Wire(SubSeq(msg, 1, j))
            b == Wire(SubSeq(msg, j + 1, Len(msg)))
            all == Wire(msg)
<1>2. SubSeq(msg, j + 1, Len(msg)) \in Seq(Tokens) /\ all = a \o b
    BY WireParts
<1>3. b \in Bytes
    BY <1>2, WireBytes
<1>. HIDE DEF a, b, all
<1>4. BrokenAt(w, a)
    BY <1>1 DEF a
<1>5. a \in Bytes /\ w.out \in Bytes /\ Begins(w.out, a)
    BY <1>4 DEF BrokenAt
<1>6. all \in Bytes /\ Len(all) = Len(a) + Len(b) /\ Len(a) \in Nat /\ Len(b) \in Nat
    BY <1>2, <1>3, <1>5, Join
<1>7. Begins(w.out, all)
    BY <1>2, <1>3, <1>5, BeginsFurther
<1>. DEFINE n == Len(a)
            k == Len(all)
            l == Len(b)
<1>8. k = n + l /\ n \in Nat /\ l \in Nat
    BY <1>6
<1>9. w.sink = "fixed" /\ w.error = "too_big" => w.current = 0 /\ w.size \in Nat /\ n > w.size
    BY <1>4 DEF BrokenAt
<1>. HIDE DEF n, k, l
<1>10. w.sink = "fixed" /\ w.error = "too_big" => w.current = 0 /\ w.size \in Nat /\ k > w.size
    BY <1>8, <1>9
<1>11. w.sink \in {"fixed", "growable"} => w.out = <<>>
    BY <1>4 DEF BrokenAt
<1>12. BrokenAt(w, all)
    BY <1>5, <1>6, <1>7, <1>10, <1>11 DEF BrokenAt, k
<1>13. IsPrefix(w.out, all)
    BY <1>5, <1>6, <1>7, BeginsPrefix
<1>. QED
    BY <1>12, <1>13 DEF all

\* What a destroyed writer leaves.
Done(c, msg) ==
    /\ c.heap = 0
    /\ c.error = "ok" => c.out = Wire(msg)
    /\ (c.fixed => c.error = "ok") => IsPrefix(c.out, Wire(msg))
    /\ c.fixed /\ c.error = "too_big" => Len(Wire(msg)) > c.size

LEMMA WholePrefix ==
    ASSUME NEW msg \in Seq(Tokens)
    PROVE  IsPrefix(Wire(msg), Wire(msg)) /\ Wire(msg) \in Bytes
<1>1. Wire(msg) \in Bytes
    BY WireBytes
<1>2. Wire(msg) \o <<>> = Wire(msg)
    BY <1>1, Join, Nothings
<1>3. Begins(Wire(msg), Wire(msg))
    BY <1>2, Nothings DEF Begins
<1>. QED
    BY <1>1, <1>3, BeginsPrefix

LEMMA ClosedIs ==
    ASSUME NEW x, NEW c, c = Closed(x)
    PROVE  /\ c.sink = "closed" /\ c.fixed = (x.sink = "fixed") /\ c.size = x.size /\ c.error = x.error
           /\ c.out = x.out /\ c.heap = x.heap
    BY DEF Closed

LEMMA BrokenDestroyed ==
    ASSUME NEW w, NEW msg \in Seq(Tokens), NEW opn, Broken(w, msg, opn), Firm(w), w.error # "ok",
           NEW x, x = DestroyWriter(w), NEW c, c = Closed(x)
    PROVE  Done(c, msg) /\ c.error # "ok"
<1>1. BrokenAt(w, Wire(msg)) /\ IsPrefix(w.out, Wire(msg))
    BY BrokenBegins
<1>. DEFINE r == Dropped(w)
<1>2. /\ IsWriter(r) /\ r.sink = w.sink /\ r.error = w.error /\ r.out = w.out /\ r.heap = Own(r)
      /\ w.current = 0 => r = w
    BY DroppedIs
<1>3. x = Teardown(r)
    BY DestroyIs
<1>4. c.sink = "closed" /\ c.fixed = (x.sink = "fixed") /\ c.size = x.size /\ c.error = x.error
      /\ c.out = x.out /\ c.heap = x.heap
    BY ClosedIs
<1>. HIDE DEF r
<1>5. CASE r.sink = "growable"
    <2>1. x = GrowableTeardown(r)
        BY <1>3, <1>5 DEF Teardown
    <2>2. TornDown(r, x) /\ x.error = r.error /\ x.out = r.out
        BY <1>2, <1>5, <2>1, GrowableTornDown
    <2>. QED
        BY <1>1, <1>2, <1>4, <1>5, <2>2 DEF Done, TornDown
<1>6. CASE r.sink = "fixed"
    <2>. DEFINE bytes == r.buffer
    <2>1. x = [r EXCEPT !.out = bytes]
        BY <1>3, <1>6 DEF Teardown
    <2>. HIDE DEF bytes
    <2>2. x.sink = r.sink /\ x.size = r.size /\ x.error = r.error /\ x.heap = r.heap
        BY <1>2, <2>1, OutSet
    <2>3. r.heap = 0
        BY <1>2, <1>6 DEF Own
    <2>4. x.error = "too_big" => Len(Wire(msg)) > x.size
        <3>1. r.error = "too_big" => w.current = 0 /\ Len(Wire(msg)) > w.size
            BY <1>1, <1>2, <1>6 DEF BrokenAt
        <3>. QED
            BY <1>2, <2>2, <3>1
    <2>. QED
        BY <1>2, <1>4, <1>6, <2>2, <2>3, <2>4 DEF Done
<1>7. CASE r.sink \in {"stream", "file"}
    <2>1. TornDown(r, x) /\ x.error = r.error /\ x.out = r.out
        BY <1>2, <1>3, <1>7, SentTornDown
    <2>. QED
        BY <1>1, <1>2, <1>4, <1>7, <2>1 DEF Done, TornDown
<1>. QED
    BY <1>2, <1>5, <1>6, <1>7 DEF Firm

LEMMA PlainDestroyed ==
    ASSUME NEW w, NEW msg \in Seq(Tokens), Holds(w, Wire(msg)), Firm(w), w.error = "ok", w.current = 0,
           NEW x, x = DestroyWriter(w), NEW c, c = Closed(x)
    PROVE  Done(c, msg)
<1>1. w.heap = Own(w) /\ IsWriter(w) /\ Dropped(w) = w
    <2>1. Dropped(w) = w
        BY DEF Dropped
    <2>. QED
        BY <2>1, DroppedIs
<1>2. x = Teardown(w)
    BY <1>1, DestroyIs
<1>3. c.sink = "closed" /\ c.fixed = (x.sink = "fixed") /\ c.size = x.size /\ c.error = x.error
      /\ c.out = x.out /\ c.heap = x.heap
    BY ClosedIs
<1>4. IsPrefix(Wire(msg), Wire(msg)) /\ Wire(msg) \in Bytes
    BY WholePrefix
<1>5. w.out \in Bytes /\ w.buffer \in Bytes /\ Wire(msg) = w.out \o w.buffer
      /\ (w.sink \in {"fixed", "growable"} => w.out = <<>>)
    BY DEF Holds
<1>6. w.sink \in {"fixed", "growable"} => w.buffer = Wire(msg)
    BY <1>5, Join
<1>7. IsPrefix(w.out, Wire(msg))
    BY <1>4, <1>5, HeldBytes, BeginsPrefix
<1>8. CASE w.sink = "growable"
    <2>1. x = GrowableTeardown(w)
        BY <1>2, <1>8 DEF Teardown
    <2>2. /\ TornDown(w, x)
          /\ \/ x.error = "memory" /\ x.out = w.out
             \/ x.error = "ok" /\ x.out = w.buffer
        BY <1>1, <1>8, <2>1, GrowableTornDown
    <2>. QED
        BY <1>3, <1>4, <1>6, <1>7, <1>8, <2>2 DEF Done, TornDown
<1>9. CASE w.sink = "fixed"
    <2>. DEFINE bytes == w.buffer
    <2>1. x = [w EXCEPT !.out = bytes]
        BY <1>2, <1>9 DEF Teardown
    <2>. HIDE DEF bytes
    <2>2. x.sink = w.sink /\ x.size = w.size /\ x.error = w.error /\ x.heap = w.heap /\ x.out = bytes
        BY <1>1, <2>1, OutSet
    <2>3. w.heap = 0
        BY <1>1, <1>9 DEF Own
    <2>. QED
        BY <1>3, <1>4, <1>6, <1>9, <2>2, <2>3 DEF Done, bytes
<1>10. CASE w.sink \in {"stream", "file"}
    <2>1. /\ TornDown(w, x) /\ x.out \in Bytes /\ Begins(x.out, Wire(msg))
          /\ x.error \in {"ok", "io"} /\ (x.error = "ok" => x.out = Wire(msg))
        BY <1>1, <1>2, <1>10, SentTornDown
    <2>2. IsPrefix(x.out, Wire(msg))
        BY <1>4, <2>1, BeginsPrefix
    <2>. QED
        BY <1>3, <1>10, <2>1, <2>2 DEF Done, TornDown
<1>. QED
    BY <1>8, <1>9, <1>10 DEF Firm

LEMMA SoundDestroyed ==
    ASSUME NEW w, NEW msg, NEW opn, Proper(msg, opn), Sound(w, msg, opn, Rest(msg, opn)), opn = <<>> \/ w.error # "ok",
           NEW c, c = Closed(DestroyWriter(w))
    PROVE  Done(c, msg) /\ c.sink = "closed" /\ (w.error # "ok" => c.error # "ok")
<1>1. msg \in Seq(Tokens) /\ Firm(w)
    BY DEF Proper, Sound
<1>2. c.sink = "closed"
    BY ClosedIs
<1>3. CASE w.error # "ok"
    <2>1. Broken(w, msg, opn)
        BY <1>3 DEF Sound
    <2>. QED
        BY <1>1, <1>2, <1>3, <2>1, BrokenDestroyed
<1>4. CASE w.error = "ok"
    <2>1. opn = <<>> /\ Rest(msg, opn) = <<>>
        BY <1>4 DEF Rest
    <2>2. Plain(w, msg, opn, <<>>)
        BY <1>4, <2>1, InsideCurrent DEF Sound
    <2>3. PICK bytes : Holds(w, bytes) /\ bytes \o <<>> = Wire(msg)
        BY <2>2 DEF Plain
    <2>4. bytes = Wire(msg)
        BY <2>3, HeldBytes, Join, Nothings
    <2>5. Holds(w, Wire(msg)) /\ w.current = 0
        BY <2>2, <2>3, <2>4 DEF Plain
    <2>. QED
        BY <1>1, <1>2, <1>4, <2>5, PlainDestroyed
<1>. QED
    BY <1>3, <1>4

------------------------------------------------------------------------------------
(* A new writer. *)

Unowned(w, x) == x = [Flag(w, "memory") EXCEPT !.sink = "fixed", !.size = 0]

LEMMA NewFlagged ==
    ASSUME NEW w, IsWriter(w), w.error = "ok", NEW x, Unowned(w, x)
    PROVE  /\ IsWriter(x) /\ x.error = "memory" /\ x.sink = "fixed" /\ x.size = 0 /\ x.out = w.out /\ x.heap = w.heap
           /\ x.pages = w.pages /\ x.current = w.current /\ x.partial = w.partial
<1>. DEFINE f == Flag(w, "memory")
<1>1. IsWriter(f) /\ f.error = "memory" /\ f.out = w.out /\ Beside(w, f)
    BY Flagging
<1>. HIDE DEF f
<1>2. x = [f EXCEPT !.sink = "fixed", !.size = 0]
    BY DEF f, Unowned
<1>3. /\ IsWriter(x) /\ x.error = f.error /\ x.sink = "fixed" /\ x.size = 0 /\ x.out = f.out /\ x.heap = f.heap
      /\ x.pages = f.pages /\ x.current = f.current /\ x.partial = f.partial
    BY <1>1, <1>2 DEF IsWriter, Fields
<1>. QED
    BY <1>1, <1>3 DEF Beside

LEMMA NewSound ==
    ASSUME NEW sink \in {"fixed", "stream", "file", "growable"}, NEW size \in Nat, NEW luck, NEW partial \in Nat,
           NEW x, x = NewWriter(sink, size, luck, partial)
    PROVE  Sound(x, <<>>, <<>>, <<>>)
<1>. DEFINE w == [sink |-> sink, size |-> size, luck |-> luck, partial |-> partial, error |-> "ok",
                  buffer |-> <<>>, out |-> <<>>, heap |-> 0,
                  pages |-> <<>>, builds |-> <<>>, current |-> 0, stash |-> <<>>]
            owned == [Spent(w) EXCEPT !.heap = 1]
<1>1. \/ sink \notin {"file", "growable"} /\ x = w
      \/ sink \in {"file", "growable"} /\ x = owned
      \/ Unowned(w, x)
    BY DEF NewWriter, Unowned
<1>2. /\ IsWriter(w) /\ w.sink = sink /\ w.size = size /\ w.partial = partial /\ w.error = "ok" /\ w.buffer = <<>>
      /\ w.out = <<>> /\ w.heap = 0 /\ w.pages = <<>> /\ w.builds = <<>> /\ w.current = 0
    BY DEF IsWriter, Fields
<1>. HIDE DEF w
<1>3. <<>> \in Bytes /\ <<>> \o <<>> = <<>> /\ Wire(<<>>) = <<>> /\ <<>> \in Seq(Tokens) /\ Begins(<<>>, <<>>)
    <2>1. <<>> \in Bytes /\ <<>> \o <<>> = <<>>
        BY Nothings, Join
    <2>2. <<>> \in Seq(Tokens)
        OBVIOUS
    <2>3. Wire(<<>>) = <<>>
        BY <2>2, WireBytes
    <2>. QED
        BY <2>1, <2>2, <2>3 DEF Begins
<1>4. NoBuild(<<>>) /\ Unbuilt(<<>>, 0)
    BY DEF NoBuild, Unbuilt
<1>5. ASSUME IsWriter(x), x.sink = sink, x.size = size, x.partial = partial, x.error = "ok", x.buffer = <<>>,
             x.out = <<>>, x.heap = Own(x), x.pages = <<>>, x.builds = <<>>, x.current = 0
      PROVE  Sound(x, <<>>, <<>>, <<>>)
    <2>1. Own(x) \in Nat /\ Len(x.pages) = 0
        BY <1>5 DEF Own
    <2>2. Owning(x, Own(x))
        BY <1>5, <2>1 DEF Owning
    <2>3. Firm(x)
        BY <1>5, <2>2 DEF Firm
    <2>4. Holds(x, <<>>)
        BY <1>3, <1>5 DEF Holds
    <2>5. Plain(x, <<>>, <<>>, <<>>)
        BY <1>3, <1>4, <1>5, <2>4 DEF Plain
    <2>. QED
        BY <1>3, <1>5, <2>3, <2>5 DEF Sound
<1>6. CASE sink \notin {"file", "growable"} /\ x = w
    <2>1. x.heap = Own(x)
        BY <1>2, <1>6 DEF Own
    <2>. QED
        BY <1>2, <1>5, <1>6, <2>1
<1>7. CASE sink \in {"file", "growable"} /\ x = owned
    <2>. DEFINE s == Spent(w)
    <2>1. /\ IsWriter(s) /\ Beside(w, s) /\ s.size = w.size /\ s.error = w.error /\ s.out = w.out /\ s.buffer = w.buffer
        BY <1>2, Spending DEF Beside
    <2>. HIDE DEF s
    <2>2. x = [s EXCEPT !.heap = 1]
        BY <1>7 DEF s
    <2>3. /\ IsWriter(x) /\ x.sink = s.sink /\ x.size = s.size /\ x.partial = s.partial /\ x.error = s.error
          /\ x.buffer = s.buffer /\ x.out = s.out /\ x.heap = 1 /\ x.pages = s.pages /\ x.builds = s.builds
          /\ x.current = s.current
        BY <2>1, <2>2 DEF IsWriter, Fields
    <2>4. x.sink = sink
        BY <1>2, <2>1, <2>3 DEF Beside
    <2>5. x.heap = Own(x)
        BY <1>7, <2>3, <2>4 DEF Own
    <2>6. /\ x.size = size /\ x.partial = partial /\ x.error = "ok" /\ x.buffer = <<>> /\ x.out = <<>>
          /\ x.pages = <<>> /\ x.builds = <<>> /\ x.current = 0
        BY <1>2, <2>1, <2>3 DEF Beside
    <2>. QED
        BY <1>5, <2>3, <2>4, <2>5, <2>6
<1>8. CASE Unowned(w, x)
    <2>1. /\ IsWriter(x) /\ x.error = "memory" /\ x.sink = "fixed" /\ x.size = 0 /\ x.out = <<>> /\ x.heap = 0
          /\ x.pages = <<>> /\ x.current = 0 /\ x.partial = partial
        BY <1>2, <1>8, NewFlagged
    <2>2. Own(x) = 0 /\ Len(x.pages) = 0
        BY <2>1 DEF Own
    <2>3. Firm(x)
        BY <2>1, <2>2 DEF Firm, Owning
    <2>4. BrokenAt(x, <<>>)
        BY <1>3, <2>1 DEF BrokenAt
    <2>5. 0 \in 0..Len(<<>>) /\ SubSeq(<<>>, 1, 0) = <<>>
        OBVIOUS
    <2>6. Broken(x, <<>>, <<>>)
        BY <1>3, <1>4, <2>4, <2>5 DEF Broken
    <2>. QED
        BY <1>3, <2>1, <2>3, <2>6 DEF Sound
<1>. QED
    BY <1>1, <1>6, <1>7, <1>8

------------------------------------------------------------------------------------
(* The invariant while the user writes, and each action of the user. *)

\* The invariant that is inductive while the user writes.
Good(w, msg, opn) == Proper(msg, opn) /\ Sound(w, msg, opn, Rest(msg, opn))

LEMMA GoodTop ==
    ASSUME NEW w, NEW msg, NEW opn, Good(w, msg, opn), opn # <<>> => Last(opn).how # "bytes"
    PROVE  Proper(msg, opn) /\ NoBytes(opn) /\ Sound(w, msg, opn, <<>>) /\ IsWriter(w)
           /\ msg \in Seq(Tokens) /\ opn \in Seq(Items) /\ Len(msg) \in Nat
<1>1. Proper(msg, opn) /\ msg \in Seq(Tokens) /\ opn \in Seq(Items) /\ Len(msg) \in Nat
    BY DEF Good, Proper
<1>2. opn # <<>> => opn[Len(opn)].how # "bytes"
    BY <1>1, Popping
<1>3. NoBytes(opn) /\ Rest(msg, opn) = <<>>
    BY <1>1, <1>2, ProperTop
<1>. QED
    BY <1>1, <1>3 DEF Good, Sound, Firm

LEMMA NoRest ==
    ASSUME NEW msg, NEW opn \in Seq(Items), NoBytes(opn)
    PROVE  Rest(msg, opn) = <<>>
<1>1. opn # <<>> => Len(opn) \in 1..Len(opn)
    OBVIOUS
<1>. QED
    BY <1>1 DEF NoBytes, Rest

LEMMA GoodAgain ==
    ASSUME NEW w, NEW msg, NEW opn, Proper(msg, opn), NoBytes(opn), Sound(w, msg, opn, <<>>)
    PROVE  Good(w, msg, opn)
<1>1. opn \in Seq(Items)
    BY DEF Proper
<1>. QED
    BY <1>1, NoRest DEF Good

LEMMA GoodSaid ==
    ASSUME NEW w, NEW msg, NEW opn, Good(w, msg, opn), opn # <<>> => Last(opn).how # "bytes", Len(msg) < MaxTokens,
           NEW token \in Tokens, NEW x, Says(w, x, Spelled(token), TRUE)
    PROVE  Good(x, Append(msg, token), Counting(opn))
<1>. DEFINE more == Spelled(token)
            M == Append(msg, token)
            o == Counting(opn)
<1>1. Proper(msg, opn) /\ NoBytes(opn) /\ Sound(w, msg, opn, <<>>)
    BY GoodTop
<1>2. Proper(M, o) /\ NoBytes(o)
    BY <1>1, ProperSaid
<1>3. more \in Bytes
    BY SpelledBytes
<1>4. Spelled(token) = more \o <<>> /\ <<>> \in Bytes /\ Says(w, x, more, TRUE)
    BY <1>3, Join, Nothings
<1>. HIDE DEF more
<1>5. Sound(x, M, o, <<>>)
    BY <1>1, <1>3, <1>4, SoundSaid
<1>. QED
    BY <1>2, <1>5, GoodAgain

\* The user opens a plain map or array.
LEMMA GoodStarted ==
    ASSUME NEW y, NEW M, NEW oo, Good(y, M, oo), NoBytes(oo), Len(M) >= 1,
           NEW item, item.how = "start", item.index = Len(M), NEW o, Pushed(oo, item, o),
           NEW x, x = Nest(y, 1)
    PROVE  Good(x, M, o)
<1>1. Proper(M, oo) /\ M \in Seq(Tokens) /\ oo \in Seq(Items) /\ Sound(y, M, oo, <<>>)
    BY NoRest DEF Good, Proper
<1>2. Sound(x, M, o, <<>>)
    BY <1>1, SoundPushed
<1>3. Proper(M, o)
    BY <1>1, ProperPushed
<1>. DEFINE n == Len(oo)
<1>4. n \in Nat /\ Len(o) = n + 1 /\ o[n + 1] = item /\ o \in Seq(Items)
    BY <1>1 DEF Pushed
<1>5. o[Len(o)].how # "bytes"
    BY <1>4
<1>6. Rest(M, o) = <<>>
    BY <1>5 DEF Rest
<1>. QED
    BY <1>2, <1>3, <1>6 DEF Good

\* The user opens the bytes of an object.
LEMMA GoodBytes ==
    ASSUME NEW y, NEW M, NEW oo, Proper(M, oo), NoBytes(oo), Len(M) >= 1,
           NEW body \in Bytes, M[Len(M)].body = body, Sound(y, M, oo, body),
           NEW item, item.how = "bytes", item.index = Len(M), item.left = Len(body), NEW o, Pushed(oo, item, o)
    PROVE  Good(y, M, o)
<1>1. M \in Seq(Tokens) /\ oo \in Seq(Items)
    BY DEF Proper
<1>2. Sound(y, M, o, body)
    BY <1>1, SoundPushed
<1>. DEFINE n == Len(oo)
            k == Len(body)
<1>3. k \in Nat /\ item.left \in 0..Len(M[Len(M)].body)
    OBVIOUS
<1>4. Proper(M, o)
    BY <1>3, ProperPushed
<1>5. n \in Nat /\ Len(o) = n + 1 /\ o[n + 1] = item /\ o \in Seq(Items)
    BY <1>1 DEF Pushed
<1>6. o # <<>> /\ o[Len(o)] = item
    BY <1>5
<1>7. Rest(M, o) = SubSeq(body, k - k + 1, k)
    BY <1>6 DEF Rest
<1>8. SubSeq(body, k - k + 1, k) = body
    <2>1. SubSeq(body, 1, k) = body
        BY DEF Bytes, Octets
    <2>. HIDE DEF k
    <2>2. k - k + 1 = 1
        BY <1>3
    <2>. QED
        BY <2>1, <2>2
<1>. QED
    BY <1>2, <1>4, <1>7, <1>8 DEF Good

\* One lemma per action of the user: what it does to the writer, the message and what
\* is open.
LEMMA CountedIs ==
    Counted = Counting(open)
<1>. QED
    BY DEF Counted, Counting

LEMMA TokenOf ==
    ASSUME NEW tag \in Tags, NEW body \in Bytes
    PROVE  [tag |-> tag, body |-> body] \in Tokens
<1>. QED
    BY DEF Tokens

LEMMA AtTop ==
    ASSUME Good(writer, message, open), MayWrite
    PROVE  /\ open # <<>> => Last(open).how # "bytes"
           /\ Len(message) < MaxTokens /\ IsWriter(writer)
<1>. QED
    BY GoodTop DEF MayWrite

LEMMA ScalarTag ==
    ASSUME NEW tag \in Scalars
    PROVE  tag \in Tags /\ Valid(tag) /\ tag.type # "ext" /\ tag.type \notin {"str", "bin", "array", "map"}
<1>1. tag \in [type : {"nil", "bool", "uint", "int", "float", "double"}, value : Int] /\ Valid(tag)
    BY StreamAssumption
<1>. QED
    BY <1>1 DEF Tags, Kinds

LEMMA SpelledScalar ==
    ASSUME NEW tag \in Tags, tag.type # "ext", Encode(tag) \in Bytes
    PROVE  Spelled([tag |-> tag, body |-> <<>>]) = Encode(tag)
<1>1. Encode(tag) \o <<>> = Encode(tag)
    BY Join
<1>. QED
    BY <1>1 DEF Spelled

LEMMA GoodScalar ==
    ASSUME Good(writer, message, open), NEW tag \in Scalars, WriteAScalar(tag)
    PROVE  Good(writer', message', open')
<1>. DEFINE token == [tag |-> tag, body |-> <<>>]
            x == writer'
<1>1. /\ MayWrite /\ writer' = WriteTag(writer, tag) /\ message' = Append(message, token) /\ open' = Counting(open)
    BY CountedIs DEF WriteAScalar, Say
<1>2. tag \in Tags /\ Valid(tag) /\ tag.type # "ext"
    BY ScalarTag
<1>3. token \in Tokens
    BY <1>2, TokenOf, Nothings
<1>4. Says(writer, writer', Encode(tag), TRUE)
    BY <1>1, <1>2, AtTop, SaysTag
<1>5. Encode(tag) \in Bytes
    BY <1>2, EncodedBytes
<1>6. Spelled(token) = Encode(tag)
    BY <1>2, <1>5, SpelledScalar
<1>7. Says(writer, x, Spelled(token), TRUE)
    BY <1>4, <1>6
<1>8. Good(writer, message, open) /\ (open # <<>> => Last(open).how # "bytes") /\ Len(message) < MaxTokens
    BY <1>1, AtTop
<1>. HIDE DEF token, x
<1>9. Good(x, Append(message, token), Counting(open))
    BY <1>3, <1>7, <1>8, GoodSaid
<1>. QED
    BY <1>1, <1>9 DEF x

LEMMA GoodForeign ==
    ASSUME Good(writer, message, open), WriteAForeign
    PROVE  Good(writer', message', open')
<1>. DEFINE tag == Foreign.tag
            body == Foreign.body
            token == [tag |-> tag, body |-> body]
            x == writer'
<1>1. /\ MayWrite /\ writer' = WriteObjectBytes(writer, body) /\ message' = Append(message, token)
      /\ open' = Counting(open)
    BY CountedIs DEF WriteAForeign, Say
<1>2. tag \in Tags /\ tag.type = "ext"
    BY DEF Foreign, Tag, Tags, Kinds
<1>3. body \in Bytes /\ Len(body) = 3
    BY DEF Foreign, Bytes, Octets
<1>4. token \in Tokens
    BY <1>2, <1>3, TokenOf
<1>5. Spelled(token) = body
    <2>1. <<>> \o body = body
        BY <1>3, Join
    <2>. QED
        BY <2>1, <1>2 DEF Spelled
<1>6. Says(writer, x, Spelled(token), TRUE)
    <2>1. IsWriter(writer)
        BY <1>1, AtTop
    <2>2. Len(body) > 0
        BY <1>3
    <2>. HIDE DEF body
    <2>3. Says(writer, x, body, TRUE)
        BY <2>1, <2>2, <1>1, <1>3, SaysObject
    <2>. QED
        BY <2>3, <1>5
<1>7. Good(writer, message, open) /\ (open # <<>> => Last(open).how # "bytes") /\ Len(message) < MaxTokens
    BY <1>1, AtTop
<1>. HIDE DEF token, x
<1>8. Good(x, Append(message, token), Counting(open))
    BY <1>4, <1>6, <1>7, GoodSaid
<1>. QED
    BY <1>1, <1>8 DEF x

LEMMA TextBytes ==
    ASSUME NEW text \in Texts
    PROVE  text \in Bytes /\ Len(text) \in Nat /\ Len(text) < Weight[4]
<1>1. text \in Seq(0..(Base - 1)) /\ Len(text) < Weight[4] /\ Base \in 4..256
    BY StreamAssumption, FixAssumption
<1>2. ASSUME NEW i \in 1..Len(text)
      PROVE  text[i] \in 0..255
    <2>. DEFINE b == Base - 1
                t == text[i]
    <2>1. t \in 0..b
        BY <1>1
    <2>2. b \in Int /\ b <= 255
        BY <1>1
    <2>. HIDE DEF b, t
    <2>3. t \in 0..255
        BY <2>1, <2>2
    <2>. QED
        BY <2>3 DEF t
<1>. DEFINE n == Len(text)
<1>3. n \in Nat /\ text = [i \in 1..n |-> text[i]]
    BY <1>1
<1>. HIDE DEF n
<1>4. text \in [1..n -> 0..255]
    BY <1>2, <1>3 DEF n
<1>5. text \in Seq(0..255)
    BY <1>3, <1>4
<1>. QED
    BY <1>1, <1>3, <1>5 DEF Bytes, Octets, n

\* The token of bytes with their header.
TextToken(type, text) == [tag |-> Tag(type, Len(text)), body |-> text]
LEMMA TextTokens ==
    ASSUME NEW type \in {"str", "bin"}, NEW text \in Texts
    PROVE  /\ TextToken(type, text) \in Tokens /\ Valid(Tag(type, Len(text)))
           /\ Spelled(TextToken(type, text)) = Encode(Tag(type, Len(text))) \o text
           /\ Encode(Tag(type, Len(text))) \in Bytes /\ TextToken(type, text).body = text
<1>. DEFINE n == Len(text)
<1>1. text \in Bytes /\ n \in Nat /\ n < Weight[4]
    BY TextBytes
<1>. HIDE DEF n
<1>2. Valid(Tag(type, n)) /\ Tag(type, n) \in Tags /\ Tag(type, n).type = type
    BY <1>1, ValidCount
<1>3. Tag(type, n).type # "ext"
    BY <1>2
<1>. QED
    BY <1>1, <1>2, <1>3, TokenOf, EncodedBytes DEF n, TextToken, Spelled

LEMMA GoodStr ==
    ASSUME Good(writer, message, open), NEW text \in Texts, WriteAStr(text)
    PROVE  Good(writer', message', open')
<1>. DEFINE token == TextToken("str", text)
            x == writer'
<1>1. MayWrite /\ writer' = WriteStr(writer, text) /\ message' = Append(message, token) /\ open' = Counting(open)
    BY CountedIs DEF WriteAStr, Say, TextToken
<1>2. token \in Tokens /\ Spelled(token) = Encode(Tag("str", Len(text))) \o text
    BY TextTokens
<1>3. IsWriter(writer) /\ text \in Bytes /\ Len(text) < Weight[4]
    BY <1>1, AtTop, TextBytes
<1>4. Says(writer, x, Spelled(token), TRUE)
    BY <1>1, <1>2, <1>3, SaysStr
<1>5. Good(writer, message, open) /\ (open # <<>> => Last(open).how # "bytes") /\ Len(message) < MaxTokens
    BY <1>1, AtTop
<1>. HIDE DEF token, x
<1>6. Good(x, Append(message, token), Counting(open))
    BY <1>2, <1>4, <1>5, GoodSaid
<1>. QED
    BY <1>1, <1>6 DEF x

LEMMA OpeningIs ==
    ASSUME NEW how \in {"bytes", "start", "build"}, NEW left \in Int, open \in Seq(Items), Len(message) \in Nat,
           NEW item, item = [how |-> how, index |-> Len(message) + 1, left |-> left]
    PROVE  Pushed(Counting(open), item, Opening(how, left)) /\ item \in Items
<1>1. item \in Items
    BY DEF Items
<1>2. Counting(open) \in Seq(Items)
    BY CountingItems
<1>. QED
    BY <1>1, <1>2, CountedIs, Pushing DEF Opening

LEMMA GoodStartBytes ==
    ASSUME Good(writer, message, open), NEW text \in Texts, StartBytes("bin", text)
    PROVE  Good(writer', message', open')
<1>. DEFINE token == TextToken("bin", text)
            tag == Tag("bin", Len(text))
            more == Encode(tag)
            item == [how |-> "bytes", index |-> Len(message) + 1, left |-> Len(text)]
            M == Append(message, token)
            oo == Counting(open)
            x == writer'
            o == Opening("bytes", Len(text))
<1>1. MayWrite /\ writer' = WriteTag(writer, tag) /\ message' = M /\ open' = o
    BY DEF StartBytes, Say, TextToken
<1>2. token \in Tokens /\ Spelled(token) = more \o text /\ more \in Bytes /\ Valid(tag) /\ token.body = text
    BY TextTokens
<1>3. IsWriter(writer) /\ text \in Bytes /\ Len(text) \in Nat /\ Len(message) < MaxTokens
      /\ (open # <<>> => Last(open).how # "bytes")
    BY <1>1, AtTop, TextBytes
<1>4. Says(writer, x, more, TRUE)
    BY <1>1, <1>2, <1>3, SaysTag
<1>5. Proper(message, open) /\ NoBytes(open) /\ Sound(writer, message, open, <<>>) /\ message \in Seq(Tokens)
      /\ open \in Seq(Items) /\ Len(message) \in Nat
    BY <1>3, GoodTop
<1>6. Pushed(oo, item, o)
    BY <1>3, <1>5, OpeningIs
<1>7. item.how = "bytes" /\ item.index = Len(message) + 1 /\ item.left = Len(text)
    OBVIOUS
<1>8. Len(M) = Len(message) + 1 /\ M[Len(message) + 1] = token
    BY <1>2, <1>5
<1>. HIDE DEF token, tag, more, item, x, o, oo
<1>9. Proper(M, oo) /\ NoBytes(oo)
    BY <1>2, <1>3, <1>5, ProperSaid DEF oo
<1>10. Sound(x, M, oo, text)
    BY <1>2, <1>3, <1>4, <1>5, SoundSaid DEF oo
<1>11. Len(M) >= 1 /\ item.index = Len(M) /\ M[Len(M)].body = text
    BY <1>2, <1>5, <1>7, <1>8
<1>. HIDE DEF M
<1>12. Good(x, M, o)
    BY <1>3, <1>6, <1>7, <1>9, <1>10, <1>11, GoodBytes
<1>. QED
    BY <1>1, <1>12 DEF x

LEMMA OpenTop ==
    ASSUME Good(writer, message, open), open # <<>>
    PROVE  /\ Proper(message, open) /\ message \in Seq(Tokens) /\ open \in Seq(Items) /\ Len(message) \in Nat
           /\ Len(open) \in 1..Len(open) /\ Last(open) = open[Len(open)] /\ Popped(open, Front(open))
           /\ open[Len(open)].left \in Int /\ ProperItem(message, open, Len(open)) /\ IsWriter(writer)
<1>1. Proper(message, open) /\ message \in Seq(Tokens) /\ open \in Seq(Items) /\ IsWriter(writer)
    BY DEF Good, Proper, Sound, Firm
<1>2. Len(open) \in 1..Len(open) /\ open[Len(open)] \in Items
    BY <1>1
<1>3. open[Len(open)].left \in Int /\ ProperItem(message, open, Len(open))
    BY <1>1, <1>2 DEF Items, Proper
<1>. QED
    BY <1>1, <1>2, <1>3, Popping

LEMMA LastToken ==
    ASSUME NEW msg \in Seq(Tokens), Len(msg) >= 1
    PROVE  Last(msg) = msg[Len(msg)]
<1>. QED
    BY DEF Last

LEMMA GoodSomeBytes ==
    ASSUME Good(writer, message, open), NEW count, WriteSomeBytes(count)
    PROVE  Good(writer', message', open')
<1>. DEFINE body == message[Len(message)].body
            left == open[Len(open)].left
            from == Len(body) - left
            more == SubSeq(body, from + 1, from + count)
            x == writer'
            o == open'
<1>1. open # <<>> /\ Last(open).how = "bytes" /\ count \in 1..Last(open).left
    BY DEF WriteSomeBytes, Unwritten
<1>2. Proper(message, open) /\ message \in Seq(Tokens) /\ open \in Seq(Items) /\ Last(open) = open[Len(open)]
      /\ left \in Int /\ ProperItem(message, open, Len(open)) /\ Len(open) \in 1..Len(open) /\ IsWriter(writer)
    BY <1>1, OpenTop
<1>3. open[Len(open)].how = "bytes" /\ count \in 1..left /\ count \in Int
    BY <1>1, <1>2
<1>4. Len(message) >= 1
    BY <1>2 DEF ProperItem
<1>5. Last(message).body = body
    BY <1>2, <1>4, LastToken
<1>6. writer' = WriteBytes(writer, more) /\ o = [open EXCEPT ![Len(open)].left = open[Len(open)].left - count]
      /\ message' = message
    BY <1>2, <1>5 DEF WriteSomeBytes
<1>7. Advanced(open, count, o)
    <2>. HIDE DEF o
    <2>. QED
        BY <1>1, <1>2, <1>3, <1>6, Advancing
<1>8. /\ Proper(message, o) /\ more \in Bytes /\ Len(more) > 0
      /\ Rest(message, open) = more \o Rest(message, o) /\ Rest(message, o) \in Bytes
    <2>1. NextPart(message, open, count, more)
        BY DEF NextPart
    <2>2. count \in 1..open[Len(open)].left
        BY <1>3
    <2>. HIDE DEF more, o
    <2>3. PartOf(message, open, more, o)
        BY <1>1, <1>2, <1>3, <1>7, <2>1, <2>2, PartAdvanced
    <2>. QED
        BY <2>3 DEF PartOf
<1>9. Says(writer, x, more, FALSE)
    <2>. HIDE DEF more
    <2>. QED
        BY <1>2, <1>6, <1>8, SaysBytes
<1>10. Sound(writer, message, open, Rest(message, open))
    BY DEF Good
<1>. HIDE DEF more, o, x
<1>11. Sound(x, message, o, Rest(message, o))
    BY <1>2, <1>3, <1>7, <1>8, <1>9, <1>10, SoundAdvanced
<1>. QED
    BY <1>6, <1>8, <1>11 DEF Good, x, o

LEMMA GoodPopped ==
    ASSUME Good(writer, message, open), open # <<>>, open[Len(open)].how \in {"bytes", "start"},
           open[Len(open)].how = "bytes" => open[Len(open)].left = 0,
           NEW x, x = IF open[Len(open)].how = "start" THEN Nest(writer, -1) ELSE writer
    PROVE  Good(x, message, Front(open))
<1>. DEFINE o == Front(open)
            rest == Rest(message, open)
<1>1. Proper(message, open) /\ message \in Seq(Tokens) /\ open \in Seq(Items) /\ Popped(open, o)
      /\ Len(open) \in 1..Len(open) /\ ProperItem(message, open, Len(open))
    BY OpenTop
<1>2. rest = <<>>
    <2>1. CASE open[Len(open)].how = "start"
        BY <2>1 DEF Rest
    <2>2. CASE open[Len(open)].how = "bytes"
        <3>. DEFINE body == message[Len(message)].body
                    n == Len(body)
        <3>1. open[Len(open)].left = 0
            BY <2>2
        <3>2. n \in Nat
            <4>1. Len(message) \in 1..Len(message)
                BY <1>1 DEF ProperItem
            <4>2. message[Len(message)] \in Tokens
                BY <1>1, <4>1
            <4>. QED
                BY <4>2 DEF Tokens, Bytes
        <3>3. rest = SubSeq(body, n - 0 + 1, n)
            BY <2>2, <3>1 DEF Rest
        <3>4. body \in Bytes
            <4>1. Len(message) \in 1..Len(message)
                BY <1>1 DEF ProperItem
            <4>2. message[Len(message)] \in Tokens
                BY <1>1, <4>1
            <4>. QED
                BY <4>2 DEF Tokens
        <3>. HIDE DEF n
        <3>5. n - 0 + 1 > n
            BY <3>2
        <3>. QED
            BY <3>2, <3>3, <3>4, <3>5 DEF Bytes
    <2>. QED
        BY <2>1, <2>2
<1>3. Sound(writer, message, open, <<>>)
    BY <1>2 DEF Good
<1>. HIDE DEF o
<1>4. Sound(x, message, o, <<>>)
    BY <1>1, <1>3, SoundPopped
<1>5. Proper(message, o) /\ NoBytes(o)
    BY <1>1, ProperPopped
<1>. QED
    BY <1>4, <1>5, GoodAgain DEF o

LEMMA GoodFinishBytes ==
    ASSUME Good(writer, message, open), FinishBytes
    PROVE  Good(writer', message', open')
<1>1. open # <<>> /\ Last(open).how = "bytes" /\ Last(open).left = 0 /\ open' = Front(open)
      /\ writer' = writer /\ message' = message
    BY DEF FinishBytes
<1>2. Last(open) = open[Len(open)]
    BY <1>1, OpenTop
<1>3. open[Len(open)].how = "bytes" /\ open[Len(open)].left = 0
    BY <1>1, <1>2
<1>4. writer = IF open[Len(open)].how = "start" THEN Nest(writer, -1) ELSE writer
    BY <1>3
<1>5. Good(writer, message, Front(open))
    BY <1>1, <1>3, <1>4, GoodPopped
<1>. QED
    BY <1>1, <1>5

LEMMA GoodFinish ==
    ASSUME Good(writer, message, open), Finish
    PROVE  Good(writer', message', open')
<1>. DEFINE x == Nest(writer, -1)
<1>1. open # <<>> /\ Last(open).how = "start" /\ open' = Front(open) /\ writer' = x /\ message' = message
    BY DEF Finish, FinishCompound
<1>2. Last(open) = open[Len(open)]
    BY <1>1, OpenTop
<1>3. open[Len(open)].how = "start"
    BY <1>1, <1>2
<1>4. x = IF open[Len(open)].how = "start" THEN Nest(writer, -1) ELSE writer
    BY <1>3
<1>. HIDE DEF x
<1>5. Good(x, message, Front(open))
    BY <1>1, <1>3, <1>4, GoodPopped
<1>. QED
    BY <1>1, <1>5

\* The token of what is opened for a number of elements or pairs.
CountToken(type, n) == [tag |-> Tag(type, n), body |-> <<>>]
LEMMA CountTokens ==
    ASSUME NEW type \in {"array", "map"}, NEW n \in Nat, n < Weight[4]
    PROVE  /\ CountToken(type, n) \in Tokens /\ Valid(Tag(type, n)) /\ Tag(type, n).type = type /\ Tag(type, n).value = n
           /\ Spelled(CountToken(type, n)) = Encode(Tag(type, n))
<1>1. Valid(Tag(type, n)) /\ Tag(type, n) \in Tags /\ Tag(type, n).type = type /\ Tag(type, n).value = n
    BY ValidCount
<1>2. Tag(type, n).type # "ext" /\ Encode(Tag(type, n)) \in Bytes
    BY <1>1, EncodedBytes
<1>. QED
    BY <1>1, <1>2, TokenOf, Nothings, SpelledScalar DEF CountToken

LEMMA HeldNumber ==
    ASSUME NEW type \in {"array", "map"}, NEW n \in Nat, n < Weight[4]
    PROVE  Holding(Tag(type, n)) \in Int
<1>. DEFINE tag == Tag(type, n)
<1>1. tag.type \in {"array", "map"} /\ tag.value \in Nat
    BY CountTokens
<1>. QED
    BY <1>1 DEF Holding

LEMMA GoodStart ==
    ASSUME Good(writer, message, open), NEW type \in {"array", "map"}, NEW n \in Counts, Start(type, n)
    PROVE  Good(writer', message', open')
<1>. DEFINE token == CountToken(type, n)
            tag == Tag(type, n)
            left == Holding(tag)
            item == [how |-> "start", index |-> Len(message) + 1, left |-> left]
            M == Append(message, token)
            oo == Counting(open)
            y == WriteTag(writer, tag)
            o == Opening("start", left)
<1>1. MayWrite /\ writer' = Nest(y, 1) /\ message' = M /\ open' = o
    BY DEF Start, Say, CountToken, StartCompound
<1>2. n \in Nat /\ n < Weight[4]
    BY StreamAssumption
<1>3. token \in Tokens /\ Spelled(token) = Encode(tag) /\ Valid(tag) /\ left \in Int
    BY <1>2, CountTokens, HeldNumber
<1>4. IsWriter(writer) /\ Len(message) < MaxTokens /\ (open # <<>> => Last(open).how # "bytes")
    BY <1>1, AtTop
<1>5. Says(writer, y, Spelled(token), TRUE)
    BY <1>3, <1>4, SaysTag
<1>6. Proper(message, open) /\ NoBytes(open) /\ message \in Seq(Tokens)
      /\ open \in Seq(Items) /\ Len(message) \in Nat
    BY <1>4, GoodTop
<1>7. Pushed(oo, item, o)
    BY <1>3, <1>6, OpeningIs
<1>8. item.how = "start" /\ item.index = Len(message) + 1
    OBVIOUS
<1>9. Len(M) = Len(message) + 1
    BY <1>3, <1>6
<1>. HIDE DEF token, tag, item, y, o, oo
<1>10. NoBytes(oo)
    BY <1>3, <1>4, <1>6, ProperSaid DEF oo
<1>11. Good(y, M, oo)
    BY <1>3, <1>4, <1>5, GoodSaid DEF oo
<1>12. Len(M) >= 1 /\ item.index = Len(M)
    BY <1>6, <1>8, <1>9
<1>. HIDE DEF M
<1>. DEFINE x == Nest(y, 1)
<1>13. x = Nest(y, 1)
    OBVIOUS
<1>. HIDE DEF x
<1>14. Good(x, M, o)
    BY <1>7, <1>8, <1>10, <1>11, <1>12, <1>13, GoodStarted
<1>. QED
    BY <1>1, <1>13, <1>14

LEMMA GoodBuild ==
    ASSUME Good(writer, message, open), NEW type \in {"array", "map"}, Build(type), BuildSize >= MinBuffer
    PROVE  Good(writer', message', open')
<1>. DEFINE token == CountToken(type, 0)
            item == [how |-> "build", index |-> Len(message) + 1, left |-> -1]
            M == Append(message, token)
            oo == Counting(open)
            x == BuildCompound(writer, type)
            o == Opening("build", -1)
<1>1. MayWrite /\ writer' = x /\ message' = M /\ open' = o
    BY DEF Build, Say, CountToken
<1>2. token \in Tokens /\ token.tag = Tag(type, 0) /\ token.body = <<>> /\ token.tag.type = type
    <2>1. 0 \in Nat /\ 0 < Weight[4]
        <3>1. 4 \in 0..8
            OBVIOUS
        <3>2. Weight[4] \in Nat \ {0}
            BY <3>1, WeightOf
        <3>. QED
            BY <3>2
    <2>. QED
        BY <2>1, CountTokens DEF CountToken
<1>3. IsWriter(writer) /\ Len(message) < MaxTokens /\ (open # <<>> => Last(open).how # "bytes")
    BY <1>1, AtTop
<1>4. Proper(message, open) /\ NoBytes(open) /\ message \in Seq(Tokens) /\ Sound(writer, message, open, <<>>)
      /\ open \in Seq(Items) /\ Len(message) \in Nat
    BY <1>3, GoodTop
<1>5. Pushed(oo, item, o)
    BY <1>4, OpeningIs
<1>6. item.how = "build" /\ item.index = Len(message) + 1 /\ item.left = -1
    OBVIOUS
<1>7. Len(M) = Len(message) + 1 /\ M[Len(M)] = token
    BY <1>2, <1>4
<1>. HIDE DEF token, item, o, oo, M
<1>8. Builds(message, open, type, M, o)
    BY <1>2, <1>5, <1>6 DEF Builds, M, oo
<1>9. x = BuildCompound(writer, type)
    OBVIOUS
<1>. HIDE DEF x
<1>10. Sound(x, M, o, <<>>)
    BY <1>4, <1>8, <1>9, SoundBuilt
<1>11. Proper(M, oo) /\ NoBytes(oo)
    BY <1>2, <1>3, <1>4, ProperSaid DEF M, oo
<1>12. item.index = Len(M) /\ Len(M) >= 1 /\ M[Len(M)].tag.type \in {"array", "map"}
    BY <1>2, <1>4, <1>6, <1>7
<1>13. Proper(M, o)
    BY <1>5, <1>6, <1>11, <1>12, ProperPushed
<1>14. Rest(M, o) = <<>>
    <2>1. oo \in Seq(Items) /\ Len(oo) \in Nat
        BY <1>11 DEF Proper
    <2>. DEFINE n == Len(oo)
    <2>2. n \in Nat /\ Len(o) = n + 1 /\ o[n + 1] = item
        BY <1>5, <2>1 DEF Pushed
    <2>3. o[Len(o)].how # "bytes"
        BY <1>6, <2>2
    <2>. QED
        BY <2>3 DEF Rest
<1>. QED
    BY <1>1, <1>10, <1>13, <1>14 DEF Good

LEMMA GoodFlush ==
    ASSUME Good(writer, message, open), Flush
    PROVE  Good(writer', message', open')
<1>1. writer.current = 0 /\ writer.sink # "fixed" /\ writer' = FlushMessage(writer)
      /\ message' = message /\ open' = open
    BY DEF Flush
<1>2. Proper(message, open) /\ message \in Seq(Tokens) /\ Sound(writer, message, open, Rest(message, open))
    BY DEF Good, Proper
<1>. DEFINE x == FlushMessage(writer)
<1>3. x = FlushMessage(writer)
    OBVIOUS
<1>. HIDE DEF x
<1>4. Sound(x, message, open, Rest(message, open))
    BY <1>1, <1>2, <1>3, SoundFlushed
<1>. QED
    BY <1>1, <1>2, <1>3, <1>4 DEF Good

LEMMA GoodGivenUp ==
    ASSUME Good(writer, message, open), GiveUp
    PROVE  Good(writer', message', open')
<1>1. writer' = Flag(writer, "data") /\ message' = message /\ open' = open
    BY DEF GiveUp
<1>2. Proper(message, open) /\ message \in Seq(Tokens) /\ Sound(writer, message, open, Rest(message, open))
    BY DEF Good, Proper
<1>. DEFINE x == Flag(writer, "data")
<1>3. x = Flag(writer, "data") /\ "data" \notin {"ok", "too_big"}
    OBVIOUS
<1>. HIDE DEF x
<1>4. Sound(x, message, open, Rest(message, open))
    BY <1>2, <1>3, SoundFlagged
<1>. QED
    BY <1>1, <1>2, <1>3, <1>4 DEF Good

\* What the user's completing of a build does to the message.
LEMMA CompletingIs ==
    ASSUME Good(writer, message, open), Complete
    PROVE  Completing(message, open, message', open') /\ Good(writer, message, open)
           /\ writer' = CompleteCompound(writer)
<1>. DEFINE top == open[Len(open)]
            i == top.index
            elements == -1 - top.left
            type == message[i].tag.type
            n == IF type = "map" THEN elements \div 2 ELSE elements
            tag == Tag(type, n)
<1>1. open # <<>> /\ Last(open).how = "build"
    BY DEF Complete
<1>2. /\ Proper(message, open) /\ message \in Seq(Tokens) /\ open \in Seq(Items) /\ Len(message) \in Nat
      /\ Len(open) \in 1..Len(open) /\ Last(open) = top /\ Popped(open, Front(open))
      /\ top.left \in Int /\ ProperItem(message, open, Len(open))
    BY <1>1, OpenTop
<1>3. top.how = "build"
    BY <1>1, <1>2
<1>4. i \in 1..Len(message) /\ type \in {"array", "map"} /\ elements \in 0..Len(message)
    BY <1>2, <1>3 DEF ProperItem
<1>5. /\ type = "map" => elements % 2 = 0
      /\ message' = [message EXCEPT ![i].tag.value = n]
      /\ writer' = CompleteCompound(writer) /\ open' = Front(open)
    BY <1>2 DEF Complete
<1>6. n \in Nat /\ n < Weight[4]
    <2>1. Len(message) <= MaxTokens
        BY <1>2 DEF Proper
    <2>2. MaxTokens \in Nat /\ MaxTokens < Weight[4]
        BY StreamAssumption
    <2>3. 4 \in 0..8
        OBVIOUS
    <2>4. Weight[4] \in Nat
        BY <2>3, WeightOf
    <2>. DEFINE k == Len(message)
                w == Weight[4]
    <2>5. k \in Nat /\ w \in Nat /\ elements \in 0..k /\ k < w
        BY <1>2, <1>4, <2>1, <2>2, <2>4
    <2>. HIDE DEF k, w, elements
    <2>6. elements \in Nat /\ elements < w /\ elements \div 2 \in Nat /\ elements \div 2 < w
        BY <2>5
    <2>. QED
        BY <2>6 DEF w
<1>7. Retold(message, i, tag, message')
    <2>. DEFINE m == message'
    <2>1. m = [message EXCEPT ![i].tag.value = n]
        BY <1>5
    <2>2. message[i].tag.type = type
        OBVIOUS
    <2>. HIDE DEF m, i, n, type
    <2>3. Retold(message, i, Tag(type, n), m)
        BY <1>2, <1>4, <1>6, <2>1, <2>2, Retelling
    <2>. QED
        BY <2>3 DEF m
<1>8. tag = BuiltTag(message, open)
    BY DEF BuiltTag, Elements1
<1>9. type = "map" => Elements1(open) % 2 = 0
    BY <1>5 DEF Elements1
<1>. DEFINE o == open'
            m == message'
<1>10. Popped(open, o) /\ o = Front(open)
    BY <1>2, <1>5
<1>11. Retold(message, i, BuiltTag(message, open), m)
    BY <1>7, <1>8
<1>12. open # <<>> /\ open[Len(open)].how = "build"
       /\ (message[open[Len(open)].index].tag.type = "map" => Elements1(open) % 2 = 0)
       /\ Retold(message, open[Len(open)].index, BuiltTag(message, open), m)
    BY <1>1, <1>3, <1>9, <1>11
<1>. HIDE DEF o, m
<1>13. Completing(message, open, m, o)
    BY <1>10, <1>12 DEF Completing
<1>. QED
    BY <1>5, <1>13 DEF o, m

LEMMA GoodCompleted ==
    ASSUME NEW w, NEW msg, NEW opn, Good(w, msg, opn), NEW M, NEW o, Completing(msg, opn, M, o),
           NEW x, x = CompleteCompound(w)
    PROVE  Good(x, M, o)
<1>1. Proper(msg, opn) /\ opn \in Seq(Items) /\ opn # <<>> /\ opn[Len(opn)].how = "build" /\ Popped(opn, o)
      /\ Retold(msg, opn[Len(opn)].index, BuiltTag(msg, opn), M)
    BY DEF Good, Proper, Completing
<1>2. NoBytes(opn) /\ Rest(msg, opn) = <<>>
    BY <1>1, ProperTop
<1>3. Sound(x, M, o, <<>>)
    <2>1. Sound(w, msg, opn, <<>>)
        BY <1>2 DEF Good
    <2>. QED
        BY <1>1, <2>1, SoundCompleted
<1>4. Proper(M, opn)
    BY <1>1, <1>2, ProperRetold
<1>5. Proper(M, o) /\ NoBytes(o)
    BY <1>1, <1>4, ProperPopped
<1>. QED
    BY <1>3, <1>5, GoodAgain

LEMMA GoodComplete ==
    ASSUME Good(writer, message, open), Complete
    PROVE  Good(writer', message', open')
<1>. DEFINE x == writer'
            M == message'
            o == open'
<1>1. Completing(message, open, M, o) /\ x = CompleteCompound(writer)
    BY CompletingIs
<1>. HIDE DEF x, M, o
<1>2. Good(x, M, o)
    BY <1>1, GoodCompleted
<1>. QED
    BY <1>2 DEF x, M, o

------------------------------------------------------------------------------------
(* The invariant of the specification. *)

\* The inductive invariant: while the user writes, the writer holds what was said; when
\* the writer is gone, what it left is what it should be.
StreamInv ==
    /\ Writing => Good(writer, message, open)
    /\ IsClosed => Done(writer, message)

LEMMA ProperNone ==
    Proper(<<>>, <<>>) /\ Rest(<<>>, <<>>) = <<>>
<1>1. MaxTokens \in Nat
    BY StreamAssumption
<1>. QED
    BY <1>1 DEF Proper, Rest

LEMMA GoodInit ==
    ASSUME Init
    PROVE  Good(writer, message, open)
<1>1. PICK sink \in Sinks, size \in Capacities, luck \in Lucks, partial \in Partials :
          writer = NewWriter(sink, size, luck, partial)
    BY DEF Init
<1>2. sink \in {"fixed", "stream", "file", "growable"} /\ size \in Nat /\ partial \in Nat
    BY StreamAssumption
<1>3. Sound(writer, <<>>, <<>>, <<>>)
    BY <1>1, <1>2, NewSound
<1>4. message = <<>> /\ open = <<>>
    BY DEF Init
<1>. QED
    BY <1>3, <1>4, ProperNone DEF Good

LEMMA GoodSink ==
    ASSUME NEW w, NEW msg, NEW opn, Good(w, msg, opn)
    PROVE  w.sink # "closed"
<1>1. Firm(w)
    BY DEF Good, Sound
<1>. QED
    BY <1>1 DEF Firm

LEMMA StreamInit ==
    ASSUME Init
    PROVE  StreamInv
<1>1. Good(writer, message, open)
    BY GoodInit
<1>2. writer.sink # "closed"
    BY <1>1, GoodSink
<1>. QED
    BY <1>1, <1>2 DEF StreamInv, IsClosed

LEMMA WhileWriting ==
    ASSUME Good(writer', message', open')
    PROVE  StreamInv'
<1>. DEFINE w == writer'
            msg == message'
            opn == open'
<1>1. Good(w, msg, opn)
    OBVIOUS
<1>. HIDE DEF w, msg, opn
<1>2. w.sink # "closed"
    BY <1>1, GoodSink
<1>. QED
    BY <1>1, <1>2 DEF StreamInv, IsClosed, w, msg, opn

LEMMA StreamUnchanged ==
    ASSUME StreamInv, UNCHANGED <<writer, message, open>>
    PROVE  StreamInv'
<1>. QED
    BY DEF StreamInv, Writing, IsClosed

LEMMA StreamDestroyed ==
    ASSUME StreamInv, Destroy
    PROVE  StreamInv'
<1>1. Writing /\ (open = <<>> \/ writer.error # "ok") /\ writer' = Closed(DestroyWriter(writer))
      /\ message' = message
    BY DEF Destroy
<1>2. Proper(message, open) /\ Sound(writer, message, open, Rest(message, open))
    BY <1>1 DEF StreamInv, Good
<1>. DEFINE c == writer'
<1>3. c = Closed(DestroyWriter(writer))
    BY <1>1
<1>. HIDE DEF c
<1>4. Done(c, message) /\ c.sink = "closed"
    BY <1>1, <1>2, <1>3, SoundDestroyed
<1>. QED
    BY <1>1, <1>4 DEF StreamInv, Writing, c

LEMMA StreamArrived ==
    ASSUME NEW kind, NEW size, NEW chunk, Arrive(kind, size, chunk)
    PROVE  StreamInv'
<1>1. writer' = Nothing
    BY DEF Arrive
<1>2. ~Writing' /\ ~IsClosed'
    BY <1>1 DEF Writing, IsClosed
<1>. QED
    BY <1>2 DEF StreamInv

\* A step of the user who writes is one of those above.
Written1 ==
    \/ \E tag \in Scalars : WriteAScalar(tag)
    \/ WriteAForeign
    \/ \E text \in Texts : WriteAStr(text)
    \/ \E text \in Texts : StartBytes("bin", text)
    \/ \E count \in {Piece, Unwritten} : WriteSomeBytes(count)
    \/ FinishBytes
    \/ \E type \in {"array", "map"}, count \in Counts : Start(type, count)
    \/ Finish
    \/ \E type \in {"array", "map"} : Build(type)
    \/ Complete
    \/ Flush
    \/ GiveUp

LEMMA WritingStep ==
    ASSUME Written1
    PROVE  Writing
<1>. QED
    BY DEF Written1, WriteAScalar, WriteAForeign, WriteAStr, StartBytes, WriteSomeBytes, FinishBytes, Start, Finish,
           Build, Complete, Flush, GiveUp, MayWrite

LEMMA GoodWritten ==
    ASSUME Good(writer, message, open), Written1, BuildSize >= MinBuffer
    PROVE  Good(writer', message', open')
<1>1. CASE \E tag \in Scalars : WriteAScalar(tag)
    BY <1>1, GoodScalar
<1>2. CASE WriteAForeign
    BY <1>2, GoodForeign
<1>3. CASE \E text \in Texts : WriteAStr(text)
    BY <1>3, GoodStr
<1>4. CASE \E text \in Texts : StartBytes("bin", text)
    BY <1>4, GoodStartBytes
<1>5. CASE \E count \in {Piece, Unwritten} : WriteSomeBytes(count)
    BY <1>5, GoodSomeBytes
<1>6. CASE FinishBytes
    BY <1>6, GoodFinishBytes
<1>7. CASE \E type \in {"array", "map"}, count \in Counts : Start(type, count)
    BY <1>7, GoodStart
<1>8. CASE Finish
    BY <1>8, GoodFinish
<1>9. CASE \E type \in {"array", "map"} : Build(type)
    BY <1>9, GoodBuild
<1>10. CASE Complete
    BY <1>10, GoodComplete
<1>11. CASE Flush
    BY <1>11, GoodFlush
<1>12. CASE GiveUp
    BY <1>12, GoodGivenUp
<1>. QED
    BY <1>1, <1>2, <1>3, <1>4, <1>5, <1>6, <1>7, <1>8, <1>9, <1>10, <1>11, <1>12 DEF Written1

LEMMA StreamWritten ==
    ASSUME StreamInv, Written1, BuildSize >= MinBuffer
    PROVE  StreamInv'
<1>1. Good(writer, message, open)
    BY WritingStep DEF StreamInv
<1>. QED
    BY <1>1, GoodWritten, WhileWriting

\* Reading leaves all that alone.
Beyond ==
    \/ ReadATag
    \/ PeekATag
    \/ \E how \in {"copy", "in place", "either", "skip"}, count \in {Piece, due} : ReadSomeBytes(how, count)
    \/ DiscardAnObject
    \/ \E type \in IntTypes : ExpectANumber(type)
    \/ ExpectANil
    \/ \E value \in BOOLEAN : ExpectABool(value)
    \/ \E type \in {"array", "map"}, max \in Counts : ExpectACompound(type, max)
    \/ \E size \in BufferSizes : ExpectAText(size) \/ ExpectABlob(size)
    \/ \E found \in {{}, {0}} : ExpectAKey(Keys, found)
Rarely ==
    \/ \E type \in IntTypes : ExpectARange(type)
    \/ \E tag \in Scalars : ExpectATag(tag) \/ (IsNumber(tag) /\ ExpectAMatch(tag.value))
    \/ \E isStrict \in BOOLEAN : ExpectAFloat(isStrict)
    \/ \E max \in Counts, orNil \in BOOLEAN, canAllocate \in BOOLEAN : ExpectAllocated(max, orNil, canAllocate)
    \/ \E text \in Texts, canAllocate \in BOOLEAN :
        ExpectARareText(Len(text), canAllocate) \/ ExpectARareBlob(Len(text), canAllocate)
    \/ \E text \in Texts : ExpectThisText(text)
    \/ ExpectOneOf(Keys)
    \/ ExpectAnUnusedKey({1}, 2)

LEMMA ReadingKeeps ==
    ASSUME Beyond
    PROVE  UNCHANGED <<writer, message, open>>
<1>. QED
    BY DEF Beyond, ReadATag, PeekATag, ReadSomeBytes, DiscardAnObject, ExpectANumber, ExpectANil, ExpectABool,
           ExpectACompound, ExpectAText, ExpectABlob, ExpectAKey, Take

LEMMA RarelyKeeps ==
    ASSUME Rarely
    PROVE  UNCHANGED <<writer, message, open>>
<1>. QED
    BY DEF Rarely, ExpectARange, ExpectATag, ExpectAMatch, ExpectAFloat, ExpectAllocated, ExpectARareText,
           ExpectARareBlob, ExpectThisText, ExpectOneOf, ExpectAnUnusedKey, Expecting, Departing, Take

LEMMA StreamStep ==
    ASSUME StreamInv, [Next]_vars, BuildSize >= MinBuffer
    PROVE  StreamInv'
<1>1. CASE Written1
    BY <1>1, StreamWritten
<1>2. CASE Destroy
    BY <1>2, StreamDestroyed
<1>3. CASE \E kind \in Sources, size \in BufferSizes, chunk \in Chunks : Arrive(kind, size, chunk)
    BY <1>3, StreamArrived
<1>4. CASE Beyond
    BY <1>4, ReadingKeeps, StreamUnchanged
<1>5. CASE Rarely
    BY <1>5, RarelyKeeps, StreamUnchanged
<1>6. CASE UNCHANGED vars
    BY <1>6, StreamUnchanged DEF vars
<1>. QED
    BY <1>1, <1>2, <1>3, <1>4, <1>5, <1>6 DEF Next, Written1, Beyond, Rarely

------------------------------------------------------------------------------------
(* What is proved of the writer. *)

\* A build is as large as the smallest buffer: so it is where a pointer has 8 bytes.
\* Where it has 4 it is not, and the run Builder32 shows what happens.
WideBuilds == BuildSize >= MinBuffer

\* What is proved about every reachable state: while the user writes, the writer holds
\* exactly what was said, and what a writer leaves behind is what it should be.
THEOREM WriterAlwaysSound == WideBuilds => (Spec => []StreamInv)
<1>. SUFFICES ASSUME WideBuilds PROVE Spec => []StreamInv
    OBVIOUS
<1>1. BuildSize >= MinBuffer
    BY DEF WideBuilds
<1>2. Init => StreamInv
    BY StreamInit
<1>3. StreamInv /\ [Next]_vars => StreamInv'
    BY <1>1, StreamStep
<1>. QED
    BY <1>2, <1>3, PTL DEF Spec

\* mpack_writer_destroy() without an error has passed on the whole message: every tag
\* with its final count, every byte once and in its place.
THEOREM AlwaysWrittenWhole == WideBuilds => (Spec => []WrittenWhole)
<1>. SUFFICES ASSUME WideBuilds PROVE Spec => []WrittenWhole
    OBVIOUS
<1>1. StreamInv => WrittenWhole
    BY DEF StreamInv, WrittenWhole, Done
<1>2. Spec => []StreamInv
    BY WriterAlwaysSound
<1>. QED
    BY <1>1, <1>2, PTL

\* What a sink has got is the beginning of the message, after any failure too.
THEOREM AlwaysOnlyTheMessage == WideBuilds => (Spec => []OnlyTheMessage)
<1>. SUFFICES ASSUME WideBuilds PROVE Spec => []OnlyTheMessage
    OBVIOUS
<1>1. ASSUME StreamInv PROVE OnlyTheMessage
    <2>1. CASE writer = Nothing
        BY <2>1 DEF OnlyTheMessage
    <2>2. CASE IsClosed
        BY <1>1, <2>2 DEF StreamInv, Done, OnlyTheMessage
    <2>3. CASE Writing
        <3>1. Good(writer, message, open)
            BY <1>1, <2>3 DEF StreamInv
        <3>2. message \in Seq(Tokens) /\ Sound(writer, message, open, Rest(message, open))
            BY <3>1 DEF Good, Proper
        <3>3. IsPrefix(writer.out, Wire(message))
            BY <3>2, SoundBroken, BrokenBegins
        <3>. QED
            BY <3>3 DEF OnlyTheMessage
    <2>. QED
        BY <2>1, <2>2, <2>3 DEF Writing, IsClosed
<1>2. Spec => []StreamInv
    BY WriterAlwaysSound
<1>. QED
    BY <1>1, <1>2, PTL

\* A fixed buffer is never too small for a message it could hold.
THEOREM FitsAreNeverRefused == WideBuilds => (Spec => []FitsNeverRefused)
<1>. SUFFICES ASSUME WideBuilds PROVE Spec => []FitsNeverRefused
    OBVIOUS
<1>1. StreamInv => FitsNeverRefused
    BY DEF StreamInv, FitsNeverRefused, Done
<1>2. Spec => []StreamInv
    BY WriterAlwaysSound
<1>. QED
    BY <1>1, <1>2, PTL

\* A writer that is destroyed has freed every page and every buffer it allocated,
\* whatever failed on the way and whatever was left open.
THEOREM MemoryAlwaysReturned == WideBuilds => (Spec => []MemoryReturned)
<1>. SUFFICES ASSUME WideBuilds PROVE Spec => []MemoryReturned
    OBVIOUS
<1>1. StreamInv => MemoryReturned
    BY DEF StreamInv, MemoryReturned, Done
<1>2. Spec => []StreamInv
    BY WriterAlwaysSound
<1>. QED
    BY <1>1, <1>2, PTL
====================================================================================
