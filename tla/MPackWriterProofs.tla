----------------------------- MODULE MPackWriterProofs -----------------------------
(* What the writer of mpack does with bytes: those it is given are those it has       *)
(* handed on and those in its buffer, and those of a builder come back from its       *)
(* pages in their order.                                                              *)
EXTENDS MPackStream, SequenceTheorems, WellFoundedInduction, TLAPS

Octets == 0..255
Bytes == Seq(Octets)

------------------------------------------------------------------------------------
(* Numbers. *)

\* Every set of natural numbers that is not empty has a least element.
LEMMA LeastNumber ==
    ASSUME NEW S, S \subseteq Nat, S # {}
    PROVE  \E m \in S : \A n \in S : m <= n
<1>. DEFINE R == {z \in Nat \X Nat : z[1] < z[2]}
<1>1. IsWellFoundedOn(R, Nat)
    BY NatLessThanWellFounded DEF OpToRel
<1>2. PICK m \in S : \A n \in S : ~(<<n, m>> \in R)
    <2>. HIDE DEF R
    <2>. QED
        BY <1>1, WFMin
<1>3. \A n \in S : ~(n < m)
    BY <1>2
<1>. QED
    BY <1>3

\* What starts at zero and goes on from each number to the next goes all the way.
LEMMA AllTheWay ==
    ASSUME NEW N \in Nat, NEW S, 0 \in S, \A i \in 1..N : i - 1 \in S => i \in S
    PROVE  \A i \in 0..N : i \in S
<1>. DEFINE T == {i \in 0..N : i \notin S}
<1>1. SUFFICES ASSUME T # {}
               PROVE  FALSE
    OBVIOUS
<1>2. PICK m \in T : \A i \in T : m <= i
    <2>1. T \subseteq Nat
        OBVIOUS
    <2>. HIDE DEF T
    <2>. QED
        BY <1>1, <2>1, LeastNumber
<1>3. m \in 1..N /\ m - 1 \in 0..N
    OBVIOUS
<1>4. m - 1 \notin T
    BY <1>2, <1>3
<1>. QED
    BY <1>2, <1>3, <1>4

------------------------------------------------------------------------------------
(* Bytes. *)

LEMMA Join ==
    ASSUME NEW a \in Bytes, NEW b \in Bytes
    PROVE  /\ a \o b \in Bytes
           /\ Len(a \o b) = Len(a) + Len(b)
           /\ \A i \in 1..Len(a) : (a \o b)[i] = a[i]
           /\ \A i \in 1..Len(b) : (a \o b)[Len(a) + i] = b[i]
           /\ a \o <<>> = a /\ <<>> \o a = a
BY DEF Bytes

LEMMA Rejoin ==
    ASSUME NEW a \in Bytes, NEW b \in Bytes, NEW c \in Bytes
    PROVE  (a \o b) \o c = a \o (b \o c)
BY ConcatAssociative DEF Bytes

\* The same of three sequences that are named.
Rejoined(a, b, c) == (a \o b) \o c = a \o (b \o c)
Joined(a, b) == a \o b \in Bytes /\ Len(a \o b) = Len(a) + Len(b)

LEMMA Rejoins ==
    ASSUME NEW a \in Bytes, NEW b \in Bytes, NEW c \in Bytes
    PROVE  Rejoined(a, b, c)
BY Rejoin DEF Rejoined

LEMMA Joins ==
    ASSUME NEW a \in Bytes, NEW b \in Bytes
    PROVE  Joined(a, b)
BY Join DEF Joined

\* The first bytes and the others.
LEMMA Parts ==
    ASSUME NEW s \in Bytes, NEW n \in 0..Len(s)
    PROVE  /\ SubSeq(s, 1, n) \in Bytes /\ Len(SubSeq(s, 1, n)) = n
           /\ SubSeq(s, n + 1, Len(s)) \in Bytes /\ Len(SubSeq(s, n + 1, Len(s))) = Len(s) - n
           /\ SubSeq(s, 1, n) \o SubSeq(s, n + 1, Len(s)) = s
<1>1. SubSeq(s, 1, Len(s)) = s
    BY SubSeqFull DEF Bytes
<1>2. 1 \in 1..(Len(s) + 1) /\ n \in (1 - 1)..Len(s) /\ Len(s) \in n..Len(s)
    BY DEF Bytes
<1>3. SubSeq(s, 1, n) \o SubSeq(s, n + 1, Len(s)) = SubSeq(s, 1, Len(s))
    BY <1>2, ConcatAdjacentSubSeq DEF Bytes
<1>4. SubSeq(s, 1, n) \in Bytes /\ Len(SubSeq(s, 1, n)) = n
    BY <1>2 DEF Bytes
<1>5. SubSeq(s, n + 1, Len(s)) \in Bytes /\ Len(SubSeq(s, n + 1, Len(s))) = Len(s) - n
    BY <1>2 DEF Bytes
<1>. QED
    BY <1>1, <1>3, <1>4, <1>5

\* One sequence is the beginning of another.
Begins(a, b) == \E c \in Bytes : b = a \o c

LEMMA BeginsFurther ==
    ASSUME NEW a \in Bytes, NEW b \in Bytes, NEW c \in Bytes, Begins(a, b)
    PROVE  Begins(a, b \o c)
<1>1. PICK d \in Bytes : b = a \o d
    BY DEF Begins
<1>2. (a \o d) \o c = a \o (d \o c)
    BY <1>1, Rejoin
<1>3. d \o c \in Bytes
    BY <1>1, Join
<1>4. b \o c = a \o (d \o c)
    BY <1>1, <1>2
<1>. QED
    BY <1>3, <1>4 DEF Begins

LEMMA BeginsPrefix ==
    ASSUME NEW a \in Bytes, NEW b \in Bytes, Begins(a, b)
    PROVE  IsPrefix(a, b) /\ Len(a) <= Len(b)
<1>1. PICK c \in Bytes : b = a \o c
    BY DEF Begins
<1>2. Len(b) = Len(a) + Len(c) /\ Len(a) \in Nat /\ Len(c) \in Nat
    BY <1>1, Join DEF Bytes
<1>3. SubSeq(b, 1, Len(a)) = SubSeq(a, 1, Len(a))
    <2>1. SubSeq(b, 1, Len(a)) = [i \in 1..Len(a) |-> b[i]]
        BY <1>2 DEF Bytes
    <2>2. SubSeq(a, 1, Len(a)) = [i \in 1..Len(a) |-> a[i]]
        BY DEF Bytes
    <2>3. \A i \in 1..Len(a) : b[i] = a[i]
        BY <1>1, Join
    <2>. QED
        BY <2>1, <2>2, <2>3
<1>. QED
    BY <1>2, <1>3 DEF IsPrefix

------------------------------------------------------------------------------------
(* The encoded tags. *)

\* The recursion of Weight has a solution, however far it goes.
LEMMA WeightExists ==
    ASSUME NEW n \in Nat
    PROVE  \E f : f = [i \in 0..n |-> IF i = 0 THEN 1 ELSE Base * f[i - 1]]
<1>. DEFINE F(f, m) == [i \in 0..m |-> IF i = 0 THEN 1 ELSE Base * f[i - 1]]
            S == {m \in Nat : ~\E f : f = F(f, m)}
<1>1. SUFFICES ASSUME S # {}
               PROVE  FALSE
    OBVIOUS
<1>2. PICK m \in S : \A i \in S : m <= i
    BY <1>1, LeastNumber
<1>3. m # 0
    <2>1. [i \in 0..0 |-> 1] = F([i \in 0..0 |-> 1], 0)
        OBVIOUS
    <2>. QED
        BY <2>1
<1>4. m - 1 \in Nat /\ m - 1 \notin S
    <2>1. m \in Nat
        OBVIOUS
    <2>. HIDE DEF S
    <2>. QED
        BY <1>2, <1>3, <2>1
<1>5. PICK f : f = F(f, m - 1)
    BY <1>4
<1>. DEFINE next == [i \in 0..m |-> IF i = 0 THEN 1 ELSE Base * f[i - 1]]
<1>6. \A i \in 0..(m - 1) : next[i] = f[i]
    <2>. SUFFICES ASSUME NEW i \in 0..(m - 1)
                  PROVE  next[i] = f[i]
        OBVIOUS
    <2>1. f[i] = IF i = 0 THEN 1 ELSE Base * f[i - 1]
        BY <1>5
    <2>2. i \in 0..m
        OBVIOUS
    <2>. QED
        BY <2>1, <2>2
<1>7. next = F(next, m)
    <2>1. \A i \in 0..m : i # 0 => i - 1 \in 0..(m - 1)
        OBVIOUS
    <2>2. \A i \in 0..m : i # 0 => next[i - 1] = f[i - 1]
        <3>. HIDE DEF next
        <3>. QED
            BY <1>6, <2>1
    <2>. QED
        BY <2>2
<1>. QED
    BY <1>7

LEMMA WeightOf ==
    /\ Weight[0] = 1
    /\ \A n \in 1..8 : Weight[n] = Base * Weight[n - 1]
    /\ \A n \in 0..8 : Weight[n] \in Nat \ {0}
<1>. DEFINE F(f) == [n \in 0..8 |-> IF n = 0 THEN 1 ELSE Base * f[n - 1]]
<1>1. \E f : f = F(f)
    BY WeightExists
<1>2. Weight = CHOOSE f : f = F(f)
    BY DEF Weight
<1>3. Weight = F(Weight)
    BY <1>1, <1>2
<1>4. Weight[0] = 1
    BY <1>3
<1>5. \A n \in 1..8 : Weight[n] = Base * Weight[n - 1]
    <2>1. \A n \in 1..8 : n \in 0..8 /\ n # 0
        OBVIOUS
    <2>. QED
        BY <1>3, <2>1
<1>6. \A n \in 0..8 : Weight[n] \in Nat \ {0}
    <2>. DEFINE T == {n \in 0..8 : Weight[n] \in Nat \ {0}}
    <2>1. 0 \in T
        BY <1>4
    <2>2. ASSUME NEW n \in 1..8, n - 1 \in T
          PROVE  n \in T
        <3>1. Base \in Nat \ {0}
            BY FixAssumption
        <3>2. Weight[n] = Base * Weight[n - 1] /\ Weight[n - 1] \in Nat \ {0}
            BY <1>5, <2>2
        <3>3. Base * Weight[n - 1] \in Nat \ {0}
            BY <3>1, <3>2
        <3>. QED
            BY <3>2, <3>3
    <2>. HIDE DEF T
    <2>3. \A n \in 0..8 : n \in T
        BY <2>1, <2>2, AllTheWay
    <2>. QED
        BY <2>3 DEF T
<1>. QED
    BY <1>4, <1>5, <1>6

LEMMA StoredBytes ==
    ASSUME NEW n \in Int, NEW width \in 0..8
    PROVE  Store(n, width) \in Bytes /\ Len(Store(n, width)) = width
<1>1. \A i \in 1..width : (n \div Weight[width - i]) % Base \in Octets
    <2>. SUFFICES ASSUME NEW i \in 1..width
                  PROVE  (n \div Weight[width - i]) % Base \in Octets
        OBVIOUS
    <2>1. width - i \in 0..8
        OBVIOUS
    <2>2. Weight[width - i] \in Nat \ {0}
        BY <2>1, WeightOf
    <2>3. n \div Weight[width - i] \in Int
        BY <2>2
    <2>4. Base \in 2..256
        BY FixAssumption
    <2>. QED
        BY <2>3, <2>4 DEF Octets
<1>. QED
    BY <1>1 DEF Store, Bytes

\* The narrowest format is one that fits.
LEMMA NarrowestFits ==
    ASSUME NEW tag, NEW f \in Formats, Fits(tag, f)
    PROVE  /\ Narrowest(tag) \in Formats /\ Fits(tag, Narrowest(tag))
           /\ \A g \in Formats : Fits(tag, g) => Narrowest(tag).width <= g.width
<1>. DEFINE S == {g.width : g \in {h \in Formats : Fits(tag, h)}}
<1>1. S \subseteq Nat
    BY DEF Formats, Format
<1>2. f.width \in S
    OBVIOUS
<1>3. PICK m \in S : \A n \in S : m <= n
    <2>. HIDE DEF S
    <2>. QED
        BY <1>1, <1>2, LeastNumber
<1>4. PICK g \in Formats : Fits(tag, g) /\ g.width = m
    OBVIOUS
<1>5. \A h \in Formats : Fits(tag, h) => g.width <= h.width
    BY <1>3, <1>4
<1>. HIDE DEF S
<1>. QED
    BY <1>4, <1>5 DEF Narrowest

LEMMA FormatKinds ==
    ASSUME NEW f \in Formats
    PROVE  f.code \in 196..223 /\ f.width \in {1, 2, 4, 8}
BY DEF Formats, Format

\* A tag is encoded in one to nine bytes.
LEMMA EncodedBytes ==
    ASSUME NEW tag, Valid(tag)
    PROVE  Encode(tag) \in Bytes /\ Len(Encode(tag)) \in 1..9
<1>. DEFINE n == tag.value
            single(b) == b \in Octets => <<b>> \in Bytes /\ Len(<<b>>) \in 1..9
<1>0. \A b : single(b)
    BY DEF Bytes
<1>. HIDE DEF n
<1>f. FixUint \in 0..127 /\ FixInt \in -32..-1 /\ FixStr \in 0..31 /\ FixCount \in 0..15
    BY FixAssumption
<1>1. CASE tag.type = "nil"
    <2>1. Encode(tag) = <<192>>
        BY <1>1 DEF Encode
    <2>. QED
        BY <2>1, <1>0 DEF Octets
<1>2. CASE tag.type = "bool"
    <2>1. Encode(tag) = <<194 + n>>
        BY <1>2 DEF Encode, n
    <2>2. n \in {0, 1}
        BY <1>2 DEF Valid, n
    <2>3. 194 + n \in Octets
        BY <2>2 DEF Octets
    <2>. QED
        BY <2>1, <2>3, <1>0
<1>3. ASSUME tag.type \notin {"nil", "bool"}
      PROVE  Encode(tag) \in Bytes /\ Len(Encode(tag)) \in 1..9
    <2>1. n \in Int /\ (tag.type = "int" => n < 0) /\ (tag.type # "int" => n \in Nat)
        BY <1>3 DEF Valid, n
    <2>2. CASE tag.type = "uint" /\ n <= FixUint
        <3>1. Encode(tag) = <<n>>
            BY <2>2 DEF Encode, n
        <3>2. n \in Octets
            BY <2>1, <2>2, <1>f DEF Octets
        <3>. QED
            BY <3>1, <3>2, <1>0
    <2>3. CASE tag.type = "int" /\ n >= FixInt
        <3>1. Encode(tag) = <<256 + n>>
            BY <2>3 DEF Encode, n
        <3>2. 256 + n \in Octets
            BY <2>1, <2>3, <1>f DEF Octets
        <3>. QED
            BY <3>1, <3>2, <1>0
    <2>4. CASE tag.type = "map" /\ n <= FixCount
        <3>1. Encode(tag) = <<128 + n>>
            BY <2>4 DEF Encode, n
        <3>2. 128 + n \in Octets
            BY <2>1, <2>4, <1>f DEF Octets
        <3>. QED
            BY <3>1, <3>2, <1>0
    <2>5. CASE tag.type = "array" /\ n <= FixCount
        <3>1. Encode(tag) = <<144 + n>>
            BY <2>5 DEF Encode, n
        <3>2. 144 + n \in Octets
            BY <2>1, <2>5, <1>f DEF Octets
        <3>. QED
            BY <3>1, <3>2, <1>0
    <2>6. CASE tag.type = "str" /\ n <= FixStr
        <3>1. Encode(tag) = <<160 + n>>
            BY <2>6 DEF Encode, n
        <3>2. 160 + n \in Octets
            BY <2>1, <2>6, <1>f DEF Octets
        <3>. QED
            BY <3>1, <3>2, <1>0
    <2>7. CASE /\ ~(tag.type = "uint" /\ n <= FixUint) /\ ~(tag.type = "int" /\ n >= FixInt)
               /\ ~(tag.type = "map" /\ n <= FixCount) /\ ~(tag.type = "array" /\ n <= FixCount)
               /\ ~(tag.type = "str" /\ n <= FixStr)
        <3>. DEFINE f == Narrowest(tag)
        <3>1. Encode(tag) = <<f.code>> \o Store(n, f.width)
            BY <1>3, <2>7 DEF Encode, n
        <3>2. f \in Formats
            <4>1. PICK g \in Formats : Fits(tag, g)
                BY <1>3 DEF Valid
            <4>. QED
                BY <4>1, NarrowestFits
        <3>. HIDE DEF f
        <3>3. f.code \in Octets /\ f.width \in 1..8
            BY <3>2, FormatKinds DEF Octets
        <3>4. Store(n, f.width) \in Bytes /\ Len(Store(n, f.width)) = f.width
            <4>1. f.width \in 0..8 /\ n \in Int
                BY <2>1, <3>3
            <4>. QED
                BY <4>1, StoredBytes
        <3>5. <<f.code>> \in Bytes /\ Len(<<f.code>>) = 1
            BY <3>3 DEF Bytes
        <3>. QED
            BY <3>1, <3>3, <3>4, <3>5, Join
    <2>. QED
        BY <2>2, <2>3, <2>4, <2>5, <2>6, <2>7
<1>. QED
    BY <1>1, <1>2, <1>3

------------------------------------------------------------------------------------
(* The bytes of a message. *)

\* The recursive function of FlattenSeq exists, so that it satisfies its equation.
LEMMA FlattenExists ==
    ASSUME NEW seqs, NEW n \in Nat
    PROVE  \E f : f = [i \in 1..n |-> IF i = 1 THEN seqs[i] ELSE f[i - 1] \o seqs[i]]
<1>. DEFINE F(f, m) == [i \in 1..m |-> IF i = 1 THEN seqs[i] ELSE f[i - 1] \o seqs[i]]
            S == {m \in Nat : ~\E f : f = F(f, m)}
<1>1. SUFFICES ASSUME S # {}
               PROVE  FALSE
    OBVIOUS
<1>2. PICK m \in S : \A i \in S : m <= i
    BY <1>1, LeastNumber
<1>3. m # 0
    <2>1. <<>> = F(<<>>, 0)
        OBVIOUS
    <2>. QED
        BY <2>1
<1>4. m - 1 \in Nat /\ m - 1 \notin S
    <2>1. m \in Nat
        OBVIOUS
    <2>. HIDE DEF S
    <2>. QED
        BY <1>2, <1>3, <2>1
<1>5. PICK f : f = F(f, m - 1)
    BY <1>4
<1>. DEFINE next == [i \in 1..m |-> IF i = 1 THEN seqs[i] ELSE f[i - 1] \o seqs[i]]
<1>6. \A i \in 1..(m - 1) : next[i] = f[i]
    <2>. SUFFICES ASSUME NEW i \in 1..(m - 1)
                  PROVE  next[i] = f[i]
        OBVIOUS
    <2>1. f[i] = IF i = 1 THEN seqs[i] ELSE f[i - 1] \o seqs[i]
        BY <1>5
    <2>2. i \in 1..m
        OBVIOUS
    <2>. QED
        BY <2>1, <2>2
<1>7. next = F(next, m)
    <2>1. \A i \in 1..m : i # 1 => i - 1 \in 1..(m - 1)
        OBVIOUS
    <2>2. \A i \in 1..m : i # 1 => next[i - 1] = f[i - 1]
        <3>. HIDE DEF next
        <3>. QED
            BY <1>6, <2>1
    <2>. QED
        BY <2>2
<1>. QED
    BY <1>7

\* What FlattenSeq returns, piece by piece.
LEMMA FlattenIs ==
    ASSUME NEW seqs \in Seq(Bytes)
    PROVE  \E f : /\ f[0] = <<>> /\ FlattenSeq(seqs) = f[Len(seqs)]
                  /\ \A i \in 1..Len(seqs) : f[i] = f[i - 1] \o seqs[i]
                  /\ \A i \in 0..Len(seqs) : f[i] \in Bytes
<1>. DEFINE N == Len(seqs)
            F(f) == [i \in 1..N |-> IF i = 1 THEN seqs[i] ELSE f[i - 1] \o seqs[i]]
<1>1. N \in Nat /\ \A i \in 1..N : seqs[i] \in Bytes
    OBVIOUS
<1>2. PICK h : h = F(h) /\ (N # 0 => FlattenSeq(seqs) = h[N])
    <2>. DEFINE flatten == CHOOSE f : f = F(f)
    <2>1. flatten = F(flatten)
        <3>1. \E f : f = F(f)
            BY <1>1, FlattenExists
        <3>. QED
            BY <3>1
    <2>2. N # 0 => FlattenSeq(seqs) = flatten[N]
        BY DEF FlattenSeq
    <2>. HIDE DEF flatten, F
    <2>. QED
        BY <2>1, <2>2
<1>. DEFINE f == [i \in 0..N |-> IF i = 0 THEN <<>> ELSE h[i]]
<1>3. f[0] = <<>> /\ \A i \in 1..N : f[i] = h[i]
    BY <1>1
<1>4. \A i \in 1..N : h[i] = IF i = 1 THEN seqs[i] ELSE h[i - 1] \o seqs[i]
    BY <1>2
<1>. HIDE DEF f, F
<1>5. \A i \in 1..N : f[i] = f[i - 1] \o seqs[i]
    <2>. SUFFICES ASSUME NEW i \in 1..N
                  PROVE  f[i] = f[i - 1] \o seqs[i]
        OBVIOUS
    <2>1. CASE i = 1
        <3>1. f[i - 1] = <<>> /\ f[i] = seqs[i]
            BY <1>3, <1>4, <2>1
        <3>2. <<>> \o seqs[i] = seqs[i]
            BY <1>1, Join
        <3>. QED
            BY <3>1, <3>2
    <2>2. CASE i # 1
        <3>1. i - 1 \in 1..N
            BY <2>2, <1>1
        <3>. QED
            BY <1>3, <1>4, <2>2, <3>1
    <2>. QED
        BY <2>1, <2>2
<1>6. \A i \in 0..N : f[i] \in Bytes
    <2>. DEFINE S == {i \in 0..N : f[i] \in Bytes}
    <2>0. <<>> \in Bytes
        BY DEF Bytes
    <2>1. 0 \in S
        BY <1>1, <1>3, <2>0
    <2>2. \A i \in 1..N : i - 1 \in S => i \in S
        <3>. SUFFICES ASSUME NEW i \in 1..N, f[i - 1] \in Bytes
                      PROVE  f[i] \in Bytes
            BY <1>1
        <3>1. f[i - 1] \o seqs[i] \in Bytes
            BY <1>1, Join
        <3>. QED
            BY <1>5, <3>1
    <2>. HIDE DEF S
    <2>3. \A i \in 0..N : i \in S
        BY <1>1, <2>1, <2>2, AllTheWay
    <2>. QED
        BY <2>3 DEF S
<1>7. FlattenSeq(seqs) = f[N]
    <2>1. CASE N = 0
        <3>1. seqs = <<>> /\ FlattenSeq(seqs) = seqs
            BY <2>1 DEF FlattenSeq
        <3>. QED
            BY <3>1, <2>1, <1>3
    <2>2. CASE N # 0
        BY <2>2, <1>1, <1>2, <1>3
    <2>. QED
        BY <2>1, <2>2
<1>. QED
    BY <1>3, <1>5, <1>6, <1>7

LEMMA FlattenAppend ==
    ASSUME NEW seqs \in Seq(Bytes), NEW b \in Bytes
    PROVE  /\ FlattenSeq(seqs) \in Bytes
           /\ FlattenSeq(Append(seqs, b)) = FlattenSeq(seqs) \o b
<1>. DEFINE more == Append(seqs, b)
            N == Len(seqs)
<1>1. more \in Seq(Bytes) /\ Len(more) = N + 1 /\ more[N + 1] = b /\ N \in Nat
      /\ \A i \in 1..N : more[i] = seqs[i]
    OBVIOUS
<1>2. PICK f : /\ f[0] = <<>> /\ FlattenSeq(seqs) = f[N]
               /\ \A i \in 1..N : f[i] = f[i - 1] \o seqs[i]
               /\ \A i \in 0..N : f[i] \in Bytes
    BY FlattenIs
<1>. HIDE DEF more
<1>3. PICK g : /\ g[0] = <<>> /\ FlattenSeq(more) = g[Len(more)]
               /\ \A i \in 1..Len(more) : g[i] = g[i - 1] \o more[i]
               /\ \A i \in 0..Len(more) : g[i] \in Bytes
    BY <1>1, FlattenIs
<1>. HIDE DEF N
<1>4. \A i \in 1..N : g[i] = g[i - 1] \o seqs[i]
    <2>. SUFFICES ASSUME NEW i \in 1..N
                  PROVE  g[i] = g[i - 1] \o seqs[i]
        OBVIOUS
    <2>1. i \in 1..Len(more)
        BY <1>1
    <2>2. more[i] = seqs[i]
        BY <1>1
    <2>. QED
        BY <1>3, <2>1, <2>2
<1>5. f[N] = g[N]
    <2>. DEFINE S == {i \in 0..N : f[i] = g[i]}
    <2>1. 0 \in S
        BY <1>1, <1>2, <1>3
    <2>2. \A i \in 1..N : i - 1 \in S => i \in S
        <3>. SUFFICES ASSUME NEW i \in 1..N, f[i - 1] = g[i - 1]
                      PROVE  f[i] = g[i]
            BY <1>1
        <3>. QED
            BY <1>2, <1>4
    <2>. HIDE DEF S
    <2>3. \A i \in 0..N : i \in S
        BY <1>1, <2>1, <2>2, AllTheWay
    <2>. QED
        BY <1>1, <2>3 DEF S
<1>6. g[N + 1] = g[N] \o b
    <2>1. N + 1 \in 1..Len(more) /\ (N + 1) - 1 = N
        BY <1>1
    <2>. QED
        BY <1>1, <1>3, <2>1
<1>. QED
    BY <1>1, <1>2, <1>3, <1>5, <1>6 DEF more, N

Kinds == {"nil", "bool", "uint", "int", "float", "double", "str", "bin", "array", "map", "ext"}
Tags == {tag \in [type : Kinds, value : Int] : tag.type = "ext" \/ Valid(tag)}
Tokens == [tag : Tags, body : Bytes]
Spelled(token) == (IF token.tag.type = "ext" THEN <<>> ELSE Encode(token.tag)) \o token.body

LEMMA SpelledBytes ==
    ASSUME NEW token \in Tokens
    PROVE  Spelled(token) \in Bytes
<1>1. token.body \in Bytes /\ token.tag \in Tags
    BY DEF Tokens
<1>2. CASE token.tag.type = "ext"
    <2>1. <<>> \in Bytes
        BY DEF Bytes
    <2>. QED
        BY <1>1, <1>2, <2>1, Join DEF Spelled
<1>3. CASE token.tag.type # "ext"
    <2>1. Valid(token.tag)
        BY <1>1, <1>3 DEF Tags
    <2>2. Encode(token.tag) \in Bytes
        BY <2>1, EncodedBytes
    <2>. QED
        BY <1>1, <1>3, <2>2, Join DEF Spelled
<1>. QED
    BY <1>2, <1>3

LEMMA WireAppend ==
    ASSUME NEW tokens \in Seq(Tokens), NEW token \in Tokens
    PROVE  /\ Wire(tokens) \in Bytes /\ Wire(<<>>) = <<>>
           /\ Wire(Append(tokens, token)) = Wire(tokens) \o Spelled(token)
<1>. DEFINE seqs == [i \in DOMAIN tokens |-> Spelled(tokens[i])]
            more == Append(tokens, token)
            N == Len(tokens)
<1>1. N \in Nat /\ DOMAIN tokens = 1..N /\ DOMAIN more = 1..(N + 1)
      /\ more[N + 1] = token /\ \A i \in 1..N : more[i] = tokens[i] /\ tokens[i] \in Tokens
    OBVIOUS
<1>2. \A i \in 1..N : Spelled(tokens[i]) \in Bytes
    BY <1>1, SpelledBytes
<1>3. seqs \in Seq(Bytes)
    BY <1>1, <1>2, IsASeq
<1>4. Spelled(token) \in Bytes
    BY SpelledBytes
<1>5. Wire(tokens) = FlattenSeq(seqs)
    BY DEF Wire, Spelled
<1>6. Wire(more) = FlattenSeq([i \in DOMAIN more |-> Spelled(more[i])])
    BY DEF Wire, Spelled
<1>7. [i \in DOMAIN more |-> Spelled(more[i])] = Append(seqs, Spelled(token))
    <2>. DEFINE both == [i \in DOMAIN more |-> Spelled(more[i])]
    <2>1. \A i \in 1..(N + 1) : more[i] \in Tokens
        BY <1>1
    <2>2. \A i \in 1..(N + 1) : Spelled(more[i]) \in Bytes
        BY <2>1, SpelledBytes
    <2>3. both = [i \in 1..(N + 1) |-> Spelled(more[i])] /\ N + 1 \in Nat
        BY <1>1
    <2>4. both \in Seq(Bytes) /\ Len(both) = N + 1
        <3>. HIDE DEF more
        <3>. QED
            BY <2>2, <2>3, IsASeq
    <2>5. Len(seqs) = N /\ \A i \in 1..N : seqs[i] = Spelled(tokens[i])
        BY <1>1, <1>3
    <2>. HIDE DEF seqs, more
    <2>6. /\ Append(seqs, Spelled(token)) \in Seq(Bytes) /\ Len(Append(seqs, Spelled(token))) = N + 1
          /\ \A i \in 1..N : Append(seqs, Spelled(token))[i] = seqs[i]
          /\ Append(seqs, Spelled(token))[N + 1] = Spelled(token)
        BY <1>3, <1>4, <2>5, AppendProperties
    <2>7. \A i \in 1..(N + 1) : both[i] = Append(seqs, Spelled(token))[i]
        <3>. SUFFICES ASSUME NEW i \in 1..(N + 1)
                      PROVE  both[i] = Append(seqs, Spelled(token))[i]
            OBVIOUS
        <3>1. both[i] = Spelled(more[i])
            BY <2>3
        <3>2. CASE i = N + 1
            BY <3>1, <3>2, <1>1, <2>6
        <3>3. CASE i # N + 1
            <4>1. i \in 1..N
                BY <3>3, <1>1
            <4>2. more[i] = tokens[i]
                BY <4>1, <1>1
            <4>. QED
                BY <3>1, <4>1, <4>2, <2>5, <2>6
        <3>. QED
            BY <3>2, <3>3
    <2>. HIDE DEF both
    <2>8. both = Append(seqs, Spelled(token))
        BY <2>4, <2>6, <2>7, SeqEqual
    <2>. QED
        BY <2>8 DEF both
<1>. HIDE DEF seqs
<1>8. FlattenSeq(seqs) \in Bytes /\ FlattenSeq(Append(seqs, Spelled(token))) = FlattenSeq(seqs) \o Spelled(token)
    BY <1>3, <1>4, FlattenAppend
<1>9. Wire(<<>>) = <<>>
    <2>1. Wire(<<>>) = FlattenSeq([i \in {} |-> Spelled(<<>>[i])])
        BY DEF Wire, Spelled
    <2>2. [i \in {} |-> Spelled(<<>>[i])] = <<>>
        OBVIOUS
    <2>3. FlattenSeq(<<>>) = <<>>
        BY DEF FlattenSeq
    <2>. QED
        BY <2>1, <2>2, <2>3
<1>. QED
    BY <1>5, <1>6, <1>7, <1>8, <1>9

LEMMA AToken == \E token : token \in Tokens
<1>1. Tag("nil", 0) \in [type : Kinds, value : Int]
    BY DEF Tag, Kinds
<1>2. Valid(Tag("nil", 0))
    BY DEF Valid, Tag
<1>3. Tag("nil", 0) \in Tags
    BY <1>1, <1>2 DEF Tags
<1>4. <<>> \in Bytes
    BY DEF Bytes
<1>5. [tag |-> Tag("nil", 0), body |-> <<>>] \in Tokens
    BY <1>3, <1>4 DEF Tokens
<1>. QED
    BY <1>5

LEMMA WireBytes ==
    ASSUME NEW tokens \in Seq(Tokens)
    PROVE  Wire(tokens) \in Bytes /\ Wire(<<>>) = <<>>
BY AToken, WireAppend

LEMMA WireOfOne ==
    ASSUME NEW token \in Tokens
    PROVE  Wire(<<token>>) = Spelled(token) /\ Wire(<<>>) = <<>>
<1>1. <<>> \in Seq(Tokens) /\ Append(<<>>, token) = <<token>>
    OBVIOUS
<1>2. Wire(Append(<<>>, token)) = Wire(<<>>) \o Spelled(token) /\ Wire(<<>>) = <<>>
    BY <1>1, WireAppend
<1>3. <<>> \o Spelled(token) = Spelled(token)
    BY SpelledBytes, Join
<1>. QED
    BY <1>1, <1>2, <1>3

LEMMA RejoinTokens ==
    ASSUME NEW a \in Seq(Tokens), NEW b \in Seq(Tokens), NEW c \in Seq(Tokens)
    PROVE  (a \o b) \o c = a \o (b \o c)
BY ConcatAssociative

LEMMA WireJoin ==
    ASSUME NEW a \in Seq(Tokens), NEW b \in Seq(Tokens)
    PROVE  Wire(a \o b) = Wire(a) \o Wire(b)
<1>. DEFINE N == Len(b)
            piece(i) == SubSeq(b, 1, i)
            S == {i \in 0..N : Wire(a \o piece(i)) = Wire(a) \o Wire(piece(i))}
<1>1. N \in Nat /\ \A i \in 1..N : b[i] \in Tokens
    OBVIOUS
<1>2. \A i \in 0..N : piece(i) \in Seq(Tokens)
    OBVIOUS
<1>3. 0 \in S
    <2>1. piece(0) = <<>> /\ a \o <<>> = a
        OBVIOUS
    <2>2. Wire(<<>>) = <<>> /\ Wire(a) \in Bytes
        BY WireBytes
    <2>3. Wire(a) \o <<>> = Wire(a)
        BY <2>2, Join
    <2>4. Wire(a \o piece(0)) = Wire(a) \o Wire(piece(0))
        BY <2>1, <2>2, <2>3
    <2>5. 0 \in 0..N
        BY <1>1
    <2>. HIDE DEF piece
    <2>. QED
        BY <2>4, <2>5
<1>4. \A i \in 1..N : i - 1 \in S => i \in S
    <2>. SUFFICES ASSUME NEW i \in 1..N, Wire(a \o piece(i - 1)) = Wire(a) \o Wire(piece(i - 1))
                  PROVE  Wire(a \o piece(i)) = Wire(a) \o Wire(piece(i))
        <3>1. \A i \in 1..N : i \in 0..N
            BY <1>1
        <3>. HIDE DEF piece
        <3>. QED
            BY <3>1
    <2>1. i - 1 \in 0..N /\ piece(i - 1) \in Seq(Tokens) /\ b[i] \in Tokens
        BY <1>1, <1>2
    <2>2. piece(i) = Append(piece(i - 1), b[i])
        <3>1. 1 \in 1..Len(b) /\ i \in 1..Len(b)
            BY <1>1
        <3>2. SubSeq(b, 1, i) = SubSeq(b, 1, i - 1) \o <<b[i]>>
            BY <3>1, SubSeqRecursiveSecond
        <3>3. Append(piece(i - 1), b[i]) = piece(i - 1) \o <<b[i]>>
            BY <2>1, AppendIsConcat
        <3>. QED
            BY <3>2, <3>3
    <2>. HIDE DEF piece
    <2>3. a \o Append(piece(i - 1), b[i]) = Append(a \o piece(i - 1), b[i]) /\ a \o piece(i - 1) \in Seq(Tokens)
        <3>1. Append(piece(i - 1), b[i]) = piece(i - 1) \o <<b[i]>>
            BY <2>1, AppendIsConcat
        <3>2. a \o piece(i - 1) \in Seq(Tokens)
            BY <2>1, ConcatProperties
        <3>3. Append(a \o piece(i - 1), b[i]) = (a \o piece(i - 1)) \o <<b[i]>>
            BY <2>1, <3>2, AppendIsConcat
        <3>4. <<b[i]>> \in Seq(Tokens)
            BY <2>1
        <3>5. (a \o piece(i - 1)) \o <<b[i]>> = a \o (piece(i - 1) \o <<b[i]>>)
            <4>. DEFINE x == piece(i - 1)
                        y == <<b[i]>>
            <4>1. x \in Seq(Tokens) /\ y \in Seq(Tokens) /\ a \in Seq(Tokens)
                BY <2>1, <3>4
            <4>. HIDE DEF x, y
            <4>2. (a \o x) \o y = a \o (x \o y)
                BY <4>1, RejoinTokens
            <4>. QED
                BY <4>2 DEF x, y
        <3>. QED
            BY <3>1, <3>2, <3>3, <3>5
    <2>4. Wire(Append(a \o piece(i - 1), b[i])) = Wire(a \o piece(i - 1)) \o Spelled(b[i])
        BY <2>1, <2>3, WireAppend
    <2>5. Wire(Append(piece(i - 1), b[i])) = Wire(piece(i - 1)) \o Spelled(b[i])
        BY <2>1, WireAppend
    <2>6. (Wire(a) \o Wire(piece(i - 1))) \o Spelled(b[i]) = Wire(a) \o (Wire(piece(i - 1)) \o Spelled(b[i]))
        <3>1. Wire(a) \in Bytes /\ Wire(piece(i - 1)) \in Bytes /\ Spelled(b[i]) \in Bytes
            BY <2>1, WireBytes, SpelledBytes
        <3>. QED
            BY <3>1, Rejoin
    <2>. QED
        BY <2>2, <2>3, <2>4, <2>5, <2>6
<1>. HIDE DEF S
<1>5. \A i \in 0..N : i \in S
    BY <1>1, <1>3, <1>4, AllTheWay
<1>6. piece(N) = b
    BY SubSeqFull
<1>7. N \in 0..N
    BY <1>1
<1>. QED
    BY <1>5, <1>6, <1>7 DEF S

\* The first tokens and the others.
LEMMA WireParts ==
    ASSUME NEW tokens \in Seq(Tokens), NEW n \in 0..Len(tokens)
    PROVE  /\ SubSeq(tokens, 1, n) \in Seq(Tokens) /\ SubSeq(tokens, n + 1, Len(tokens)) \in Seq(Tokens)
           /\ Wire(tokens) = Wire(SubSeq(tokens, 1, n)) \o Wire(SubSeq(tokens, n + 1, Len(tokens)))
           /\ Begins(Wire(SubSeq(tokens, 1, n)), Wire(tokens))
<1>1. SubSeq(tokens, 1, n) \in Seq(Tokens) /\ SubSeq(tokens, n + 1, Len(tokens)) \in Seq(Tokens)
    OBVIOUS
<1>2. SubSeq(tokens, 1, n) \o SubSeq(tokens, n + 1, Len(tokens)) = tokens
    <2>1. SubSeq(tokens, 1, Len(tokens)) = tokens
        BY SubSeqFull
    <2>2. 1 \in 1..(Len(tokens) + 1) /\ n \in (1 - 1)..Len(tokens) /\ Len(tokens) \in n..Len(tokens)
        OBVIOUS
    <2>3. SubSeq(tokens, 1, n) \o SubSeq(tokens, n + 1, Len(tokens)) = SubSeq(tokens, 1, Len(tokens))
        BY <2>2, ConcatAdjacentSubSeq
    <2>. QED
        BY <2>1, <2>3
<1>3. Wire(tokens) = Wire(SubSeq(tokens, 1, n)) \o Wire(SubSeq(tokens, n + 1, Len(tokens)))
    BY <1>1, <1>2, WireJoin
<1>4. Wire(SubSeq(tokens, n + 1, Len(tokens))) \in Bytes
    BY <1>1, WireBytes
<1>. QED
    BY <1>1, <1>3, <1>4 DEF Begins

------------------------------------------------------------------------------------
(* The writer without a builder: what it has handed on and what is in its buffer.    *)

Fields == {"sink", "size", "luck", "partial", "error", "buffer", "out", "heap",
           "pages", "builds", "current", "stash"}
IsWriter(w) == w = [field \in Fields |-> w[field]]

\* What a step leaves alone when it writes without a builder.
Beside(w, x) ==
    /\ IsWriter(x)
    /\ x.sink = w.sink /\ x.partial = w.partial /\ x.heap = w.heap
    /\ x.pages = w.pages /\ x.builds = w.builds /\ x.current = w.current /\ x.stash = w.stash
    /\ w.sink = "fixed" => x.size = w.size

\* The writer has been given these bytes: it has handed them on or has them in its
\* buffer, and after an error it has handed on none but the first of them.
Holds(w, bytes) ==
    /\ IsWriter(w) /\ w.out \in Bytes /\ w.partial \in Nat
    /\ w.error = "ok" => w.buffer \in Bytes /\ bytes = w.out \o w.buffer
    /\ w.error # "ok" => Begins(w.out, bytes)
    /\ w.sink = "fixed" /\ w.error = "too_big" => Len(bytes) > w.size
    /\ w.sink = "fixed" => w.size \in Nat
    /\ w.sink \in {"fixed", "growable"} => w.out = <<>>

LEMMA HeldBytes ==
    ASSUME NEW w, NEW bytes, Holds(w, bytes)
    PROVE  bytes \in Bytes /\ Begins(w.out, bytes)
<1>1. CASE w.error = "ok"
    BY <1>1, Join DEF Holds, Begins
<1>2. CASE w.error # "ok"
    BY <1>2, Join DEF Holds, Begins
<1>. QED
    BY <1>1, <1>2

\* After an error nothing is handed on, whatever comes.
LEMMA HoldsMore ==
    ASSUME NEW w, NEW bytes, NEW more \in Bytes, Holds(w, bytes), w.error # "ok",
           NEW x, IsWriter(x), x.error = w.error, x.out = w.out, x.sink = w.sink,
           x.size = w.size, x.partial = w.partial
    PROVE  Holds(x, bytes \o more)
<1>1. bytes \in Bytes /\ w.out \in Bytes /\ Begins(w.out, bytes)
    BY HeldBytes DEF Holds
<1>2. Begins(w.out, bytes \o more)
    BY <1>1, BeginsFurther
<1>3. Len(bytes \o more) = Len(bytes) + Len(more) /\ Len(more) \in Nat /\ Len(bytes) \in Nat
    BY <1>1, Join DEF Bytes
<1>4. w.sink = "fixed" /\ w.error = "too_big" => Len(bytes \o more) > w.size
    BY <1>3 DEF Holds
<1>. QED
    BY <1>2, <1>4 DEF Holds

LEMMA Flagging ==
    ASSUME NEW w, IsWriter(w), NEW error
    PROVE  /\ IsWriter(Flag(w, error)) /\ Flag(w, error).error = IF w.error = "ok" THEN error ELSE w.error
           /\ Beside(w, Flag(w, error)) /\ Flag(w, error).size = w.size
           /\ Flag(w, error).out = w.out /\ Flag(w, error).buffer = w.buffer
BY DEF Flag, IsWriter, Fields, Beside

LEMMA HoldsFlag ==
    ASSUME NEW w, NEW bytes, NEW more \in Bytes, Holds(w, bytes), w.error = "ok", NEW error, error # "ok",
           w.sink = "fixed" /\ error = "too_big" => Len(bytes \o more) > w.size
    PROVE  Holds(Flag(w, error), bytes \o more) /\ Beside(w, Flag(w, error))
<1>. DEFINE x == Flag(w, error)
<1>1. x.error = error /\ IsWriter(x) /\ Beside(w, x) /\ x.size = w.size /\ x.out = w.out
    BY Flagging DEF Holds
<1>2. Begins(w.out, bytes \o more)
    BY HeldBytes, BeginsFurther DEF Holds
<1>. HIDE DEF x
<1>3. Holds(x, bytes \o more)
    BY <1>1, <1>2 DEF Holds, Beside
<1>. QED
    BY <1>1, <1>3 DEF x

LEMMA Spending ==
    ASSUME NEW w, IsWriter(w)
    PROVE  /\ Beside(w, Spent(w)) /\ Spent(w).size = w.size /\ Spent(w).error = w.error
           /\ Spent(w).out = w.out /\ Spent(w).buffer = w.buffer
BY DEF Spent, IsWriter, Fields, Beside

LEMMA HoldsPut ==
    ASSUME NEW w, NEW bytes, NEW more \in Bytes, Holds(w, bytes)
    PROVE  /\ Holds(Put(w, more), bytes \o more) /\ Beside(w, Put(w, more))
           /\ Put(w, more).error = w.error
<1>. DEFINE x == Put(w, more)
<1>1. /\ IsWriter(x) /\ Beside(w, x) /\ x.size = w.size /\ x.out = w.out /\ x.error = w.error
      /\ x.buffer = w.buffer \o more
    BY DEF Put, Holds, IsWriter, Fields, Beside
<1>. HIDE DEF x
<1>2. CASE w.error = "ok"
    <2>1. w.out \in Bytes /\ w.buffer \in Bytes /\ bytes = w.out \o w.buffer
        BY <1>2 DEF Holds
    <2>2. bytes \o more = w.out \o x.buffer
        <3>1. (w.out \o w.buffer) \o more = w.out \o (w.buffer \o more)
            BY <2>1, Rejoin
        <3>. QED
            BY <1>1, <2>1, <3>1
    <2>3. x.buffer \in Bytes
        BY <1>1, <2>1, Join
    <2>. QED
        BY <1>1, <1>2, <2>2, <2>3 DEF Holds, Beside, x
<1>3. CASE w.error # "ok"
    <2>1. Holds(x, bytes \o more)
        BY <1>1, <1>3, HoldsMore DEF Beside
    <2>. QED
        BY <1>1, <2>1 DEF x
<1>. QED
    BY <1>2, <1>3

\* A sink that hands on what it is given, or the first part of it.
LEMMA HoldsSend ==
    ASSUME NEW w, NEW bytes, NEW more \in Bytes, Holds(w, bytes), w.error = "ok", w.buffer = <<>>,
           w.sink \notin {"fixed", "growable"}
    PROVE  /\ Holds(Send(w, more), bytes \o more) /\ Beside(w, Send(w, more))
           /\ Send(w, more).error = "ok" => Send(w, more).buffer = <<>>
<1>. DEFINE x == Send(w, more)
            some == SubSeq(more, 1, Least(w.partial, Len(more)))
<1>1. w.out \in Bytes /\ bytes = w.out /\ w.partial \in Nat /\ Len(more) \in Nat
    <2>1. w.out \in Bytes /\ bytes = w.out \o <<>>
        BY DEF Holds
    <2>. QED
        BY <2>1, Join DEF Holds, Bytes
<1>2. CASE Fails(w)
    <2>. DEFINE y == [w EXCEPT !.out = @ \o some]
    <2>1. x = Flag(y, "io")
        BY <1>2 DEF Send
    <2>2. Least(w.partial, Len(more)) \in 0..Len(more)
        BY <1>1 DEF Least
    <2>3. some \in Bytes /\ Begins(some, more)
        BY <2>2, Parts DEF Begins
    <2>4. PICK rest \in Bytes : more = some \o rest
        BY <2>3 DEF Begins
    <2>5. (w.out \o some) \o rest = w.out \o more
        <3>. HIDE DEF some
        <3>1. (w.out \o some) \o rest = w.out \o (some \o rest)
            BY <1>1, <2>3, Rejoin
        <3>. QED
            BY <2>4, <3>1
    <2>6. Begins(w.out \o some, bytes \o more) /\ w.out \o some \in Bytes
        BY <1>1, <2>3, <2>5, Join DEF Begins
    <2>7. IsWriter(y) /\ Beside(w, y) /\ y.out = w.out \o some /\ y.error = "ok"
        BY DEF Holds, IsWriter, Fields, Beside
    <2>. HIDE DEF y, x
    <2>8. x.out = y.out /\ x.error = "io" /\ Beside(y, x) /\ IsWriter(x)
        BY <2>1, <2>7, Flagging
    <2>9. Beside(w, x)
        BY <2>7, <2>8 DEF Beside
    <2>10. Holds(x, bytes \o more)
        BY <2>6, <2>7, <2>8, <2>9 DEF Holds, Beside
    <2>. QED
        BY <2>8, <2>9, <2>10 DEF x
<1>3. CASE ~Fails(w)
    <2>1. x = [Spent(w) EXCEPT !.out = @ \o more]
        BY <1>3 DEF Send
    <2>2. Beside(w, Spent(w)) /\ Spent(w).error = w.error /\ Spent(w).out = w.out /\ Spent(w).buffer = w.buffer
        BY Spending DEF Holds
    <2>3. /\ Beside(w, x) /\ x.error = "ok" /\ x.out = w.out \o more /\ x.buffer = <<>>
        BY <2>1, <2>2 DEF Beside, IsWriter, Fields
    <2>. HIDE DEF x
    <2>4. w.out \o more \in Bytes /\ (w.out \o more) \o <<>> = w.out \o more /\ <<>> \in Bytes
        <3>1. w.out \o more \in Bytes
            BY <1>1, Join
        <3>. QED
            BY <3>1, Join DEF Bytes
    <2>5. Holds(x, bytes \o more)
        BY <1>1, <2>3, <2>4 DEF Holds, Beside
    <2>. QED
        BY <2>3, <2>5 DEF x
<1>. QED
    BY <1>2, <1>3

\* A growable buffer keeps what it has and takes more.
LEMMA HoldsGrow ==
    ASSUME NEW w, NEW bytes, NEW more \in Bytes, Holds(w, bytes), w.error = "ok", w.sink = "growable"
    PROVE  Holds(Grow(w, more), bytes \o more) /\ Beside(w, Grow(w, more))
<1>. DEFINE x == Grow(w, more)
<1>1. CASE Fails(w)
    <2>1. x = Flag(w, "memory")
        BY <1>1 DEF Grow
    <2>. QED
        BY <2>1, HoldsFlag
<1>2. CASE ~Fails(w)
    <2>. DEFINE y == Put(Spent(w), more)
                larger == Doubled(w.size, Len(w.buffer) + Len(more))
    <2>1. x = [y EXCEPT !.size = larger]
        BY <1>2 DEF Grow
    <2>2. Beside(w, Spent(w)) /\ Spent(w).error = "ok" /\ Spent(w).out = w.out /\ Spent(w).buffer = w.buffer
        BY Spending DEF Holds
    <2>3. Holds(Spent(w), bytes)
        BY <2>2 DEF Holds, Beside
    <2>4. Holds(y, bytes \o more) /\ Beside(Spent(w), y) /\ y.error = "ok"
        BY <2>2, <2>3, HoldsPut
    <2>. HIDE DEF y, larger
    <2>5. /\ IsWriter(x) /\ Beside(y, x) /\ x.error = "ok" /\ x.out = y.out /\ x.buffer = y.buffer
        <3>1. IsWriter(y) /\ y.sink = "growable"
            BY <2>2, <2>4 DEF Beside
        <3>. QED
            BY <2>1, <2>4, <3>1 DEF Beside, IsWriter, Fields
    <2>. HIDE DEF x
    <2>6. Holds(x, bytes \o more)
        <3>1. y.sink = "growable"
            BY <2>2, <2>4 DEF Beside
        <3>. QED
            BY <2>4, <2>5, <3>1 DEF Holds, Beside
    <2>7. Beside(w, x)
        BY <2>2, <2>4, <2>5 DEF Beside
    <2>. QED
        BY <2>6, <2>7 DEF x
<1>. QED
    BY <1>1, <1>2

LEMMA Nothings == <<>> \in Bytes
BY DEF Bytes

LEMMA HoldsFlush ==
    ASSUME NEW w, NEW bytes, Holds(w, bytes), w.error = "ok", w.sink # "fixed"
    PROVE  /\ Holds(FlushUnchecked(w), bytes) /\ Beside(w, FlushUnchecked(w))
           /\ w.sink # "growable" /\ FlushUnchecked(w).error = "ok" => FlushUnchecked(w).buffer = <<>>
<1>0. bytes \in Bytes /\ bytes \o <<>> = bytes /\ w.buffer \in Bytes /\ w.out \in Bytes
      /\ bytes = w.out \o w.buffer
    BY HeldBytes, Join DEF Holds
<1>1. CASE w.sink # "growable"
    <2>. DEFINE y == [w EXCEPT !.buffer = <<>>]
    <2>1. FlushUnchecked(w) = Send(y, w.buffer)
        BY <1>1 DEF FlushUnchecked
    <2>2. /\ IsWriter(y) /\ Beside(w, y) /\ y.error = "ok" /\ y.out = w.out /\ y.buffer = <<>>
          /\ y.partial = w.partial
        BY DEF Holds, IsWriter, Fields, Beside
    <2>. HIDE DEF y
    <2>3. w.out \o <<>> = w.out
        BY <1>0, Join
    <2>4. Holds(y, w.out)
        BY <2>2, <2>3, <1>1, Nothings DEF Holds, Beside
    <2>5. y.sink \notin {"fixed", "growable"}
        BY <2>2, <1>1 DEF Beside
    <2>6. /\ Holds(Send(y, w.buffer), w.out \o w.buffer) /\ Beside(y, Send(y, w.buffer))
          /\ Send(y, w.buffer).error = "ok" => Send(y, w.buffer).buffer = <<>>
        BY <1>0, <2>2, <2>4, <2>5, HoldsSend
    <2>7. Beside(w, Send(y, w.buffer))
        BY <2>2, <2>6 DEF Beside
    <2>. QED
        BY <1>0, <2>1, <2>6, <2>7
<1>2. CASE w.sink = "growable"
    <2>1. CASE w.buffer = <<>>
        <3>1. FlushUnchecked(w) = w
            BY <1>2, <2>1 DEF FlushUnchecked
        <3>2. Beside(w, w)
            BY DEF Beside, Holds
        <3>. QED
            BY <3>1, <3>2, <1>2
    <2>2. CASE w.buffer # <<>>
        <3>1. FlushUnchecked(w) = Grow(w, <<>>)
            BY <1>2, <2>2 DEF FlushUnchecked
        <3>2. Holds(Grow(w, <<>>), bytes \o <<>>) /\ Beside(w, Grow(w, <<>>))
            BY <1>2, Nothings, HoldsGrow
        <3>. QED
            BY <1>0, <1>2, <3>1, <3>2
    <2>. QED
        BY <2>1, <2>2
<1>. QED
    BY <1>1, <1>2

LEMMA BesideTwice ==
    ASSUME NEW w, NEW x, NEW y, Beside(w, x), Beside(x, y)
    PROVE  Beside(w, y)
BY DEF Beside

LEMMA BesideItself ==
    ASSUME NEW w, IsWriter(w)
    PROVE  Beside(w, w)
BY DEF Beside

\* A fixed buffer that has no room is too small for what has been written.
LEMMA NoRoom ==
    ASSUME NEW w, NEW bytes, NEW more \in Bytes, Holds(w, bytes), w.error = "ok", w.sink = "fixed",
           ~(Left(w) >= Len(more))
    PROVE  Len(bytes \o more) > w.size
<1>1. w.buffer \in Bytes /\ w.out = <<>> /\ w.size \in Nat /\ bytes = w.out \o w.buffer
    BY DEF Holds
<1>2. bytes = w.buffer
    BY <1>1, Join
<1>3. Len(bytes \o more) = Len(w.buffer) + Len(more)
    BY <1>1, <1>2, Join
<1>. QED
    BY <1>1, <1>3 DEF Left, Bytes

\* A tag or a short string.
LEMMA HoldsEncoded ==
    ASSUME NEW w, NEW bytes, NEW more \in Bytes, Holds(w, bytes), w.current = 0
    PROVE  Holds(WriteEncoded(w, more), bytes \o more) /\ Beside(w, WriteEncoded(w, more))
<1>. DEFINE x == WriteEncoded(w, more)
            e == Ensure(w, Len(more))
<1>0. IsWriter(w)
    BY DEF Holds
<1>1. CASE Left(w) >= Len(more)
    <2>1. x = Put(w, more)
        BY <1>1 DEF WriteEncoded
    <2>. QED
        BY <2>1, HoldsPut
<1>2. CASE ~(Left(w) >= Len(more))
    <2>1. x = IF e.error = "ok" THEN Put(e, more) ELSE e
        BY <1>2 DEF WriteEncoded, Then
    <2>2. CASE w.error # "ok"
        <3>1. x = w
            BY <2>1, <2>2 DEF Ensure
        <3>2. Holds(w, bytes \o more)
            BY <1>0, <2>2, HoldsMore
        <3>. QED
            BY <1>0, <3>1, <3>2, BesideItself
    <2>3. CASE w.error = "ok" /\ w.sink = "fixed"
        <3>1. e = Flag(w, "too_big")
            BY <2>3 DEF Ensure
        <3>2. x = Flag(w, "too_big")
            <4>1. e.error = "too_big"
                BY <1>0, <2>3, <3>1, Flagging
            <4>. QED
                BY <2>1, <3>1, <4>1
        <3>3. Len(bytes \o more) > w.size
            BY <1>2, <2>3, NoRoom
        <3>. QED
            BY <2>3, <3>2, <3>3, HoldsFlag
    <2>4. CASE w.error = "ok" /\ w.sink # "fixed"
        <3>. DEFINE f == FlushUnchecked(w)
        <3>1. e = IF f.error = "ok" THEN (IF Left(f) < Len(more) THEN Flag(f, "io") ELSE f) ELSE f
            BY <2>4 DEF Ensure, Then
        <3>2. Holds(f, bytes) /\ Beside(w, f)
            BY <2>4, HoldsFlush
        <3>. HIDE DEF f, e, x
        <3>3. f.sink # "fixed" /\ IsWriter(f)
            BY <2>4, <3>2 DEF Beside
        <3>4. CASE f.error # "ok"
            <4>1. x = f
                BY <2>1, <3>1, <3>4
            <4>2. Holds(f, bytes \o more)
                BY <3>2, <3>3, <3>4, HoldsMore
            <4>. QED
                BY <3>2, <4>1, <4>2 DEF x
        <3>5. CASE f.error = "ok" /\ Left(f) < Len(more)
            <4>1. x = Flag(f, "io")
                <5>1. Flag(f, "io").error = "io"
                    BY <3>3, <3>5, Flagging
                <5>. QED
                    BY <2>1, <3>1, <3>5, <5>1
            <4>2. Holds(Flag(f, "io"), bytes \o more) /\ Beside(f, Flag(f, "io"))
                BY <3>2, <3>3, <3>5, HoldsFlag
            <4>. QED
                BY <3>2, <4>1, <4>2, BesideTwice DEF x
        <3>6. CASE f.error = "ok" /\ ~(Left(f) < Len(more))
            <4>1. x = Put(f, more)
                BY <2>1, <3>1, <3>6
            <4>2. Holds(Put(f, more), bytes \o more) /\ Beside(f, Put(f, more))
                BY <3>2, HoldsPut
            <4>. QED
                BY <3>2, <4>1, <4>2, BesideTwice DEF x
        <3>. QED
            BY <3>4, <3>5, <3>6
    <2>. QED
        BY <2>2, <2>3, <2>4
<1>. QED
    BY <1>1, <1>2

\* Bytes in pieces.
LEMMA HoldsNative ==
    ASSUME NEW w, NEW bytes, NEW more \in Bytes, Holds(w, bytes), w.current = 0
    PROVE  Holds(WriteNative(w, more), bytes \o more) /\ Beside(w, WriteNative(w, more))
<1>. DEFINE x == WriteNative(w, more)
<1>0. IsWriter(w)
    BY DEF Holds
<1>1. CASE Left(w) >= Len(more)
    <2>1. x = Put(w, more)
        BY <1>1 DEF WriteNative
    <2>. QED
        BY <2>1, HoldsPut
<1>2. CASE ~(Left(w) >= Len(more)) /\ w.error # "ok"
    <2>1. x = w
        BY <1>2 DEF WriteNative
    <2>2. Holds(w, bytes \o more)
        BY <1>0, <1>2, HoldsMore
    <2>. QED
        BY <1>0, <2>1, <2>2, BesideItself
<1>3. CASE ~(Left(w) >= Len(more)) /\ w.error = "ok" /\ w.sink = "fixed"
    <2>1. x = Flag(w, "too_big")
        BY <1>3 DEF WriteNative
    <2>2. Len(bytes \o more) > w.size
        BY <1>3, NoRoom
    <2>. QED
        BY <1>3, <2>1, <2>2, HoldsFlag
<1>4. CASE ~(Left(w) >= Len(more)) /\ w.error = "ok" /\ w.sink # "fixed"
    <2>. DEFINE f == FlushUnchecked(w)
    <2>1. x = IF f.error = "ok" THEN (IF Len(more) > Left(f) THEN FlushData(f, more) ELSE Put(f, more)) ELSE f
        BY <1>4 DEF WriteNative, Then
    <2>2. /\ Holds(f, bytes) /\ Beside(w, f)
          /\ w.sink # "growable" /\ f.error = "ok" => f.buffer = <<>>
        BY <1>4, HoldsFlush
    <2>. HIDE DEF f, x
    <2>3. f.sink = w.sink /\ IsWriter(f)
        BY <2>2 DEF Beside
    <2>4. CASE f.error # "ok"
        <3>1. x = f
            BY <2>1, <2>4
        <3>2. Holds(f, bytes \o more)
            BY <2>2, <2>3, <2>4, HoldsMore
        <3>. QED
            BY <2>2, <3>1, <3>2 DEF x
    <2>5. CASE f.error = "ok" /\ Len(more) > Left(f)
        <3>1. x = FlushData(f, more)
            BY <2>1, <2>5
        <3>2. Holds(FlushData(f, more), bytes \o more) /\ Beside(f, FlushData(f, more))
            <4>1. CASE f.sink = "growable"
                BY <2>2, <2>5, <4>1, HoldsGrow DEF FlushData
            <4>2. CASE f.sink # "growable"
                <5>1. f.buffer = <<>> /\ f.sink \notin {"fixed", "growable"}
                    BY <1>4, <2>2, <2>3, <2>5, <4>2
                <5>. QED
                    BY <2>2, <2>5, <4>2, <5>1, HoldsSend DEF FlushData
            <4>. QED
                BY <4>1, <4>2
        <3>. QED
            BY <2>2, <3>1, <3>2, BesideTwice DEF x
    <2>6. CASE f.error = "ok" /\ ~(Len(more) > Left(f))
        <3>1. x = Put(f, more)
            BY <2>1, <2>6
        <3>2. Holds(Put(f, more), bytes \o more) /\ Beside(f, Put(f, more))
            BY <2>2, HoldsPut
        <3>. QED
            BY <2>2, <3>1, <3>2, BesideTwice DEF x
    <2>. QED
        BY <2>4, <2>5, <2>6
<1>. QED
    BY <1>1, <1>2, <1>3, <1>4

------------------------------------------------------------------------------------
(* The builder's pages: where its builds are and what is behind them.                *)

LEMMA Sizes ==
    /\ MinBuffer \in Nat \ {0} /\ PageSize \in Nat \ {0} /\ PageHeader \in Nat \ {0}
    /\ BuildSize \in Nat \ {0} /\ Alignment \in Nat \ {0}
    /\ PageSize >= PageHeader + Alignment - 1 + BuildSize + MinBuffer
BY SizeAssumption

LEMMA Aligned ==
    ASSUME NEW used \in Nat
    PROVE  Align(used) \in Nat /\ used <= Align(used) /\ Align(used) <= used + Alignment - 1
<1>. DEFINE a == Alignment
            q == (used + a - 1) \div a
            r == (used + a - 1) % a
<1>1. a \in Nat \ {0} /\ used + a - 1 \in Nat
    BY Sizes
<1>2. q \in Nat /\ r \in 0..(a - 1) /\ used + a - 1 = a * q + r
    <2>. DEFINE n == used + a - 1
    <2>. HIDE DEF a, n
    <2>1. n \div a \in Nat /\ n % a \in 0..(a - 1) /\ n = a * (n \div a) + (n % a)
        BY <1>1 DEF n
    <2>. QED
        BY <2>1 DEF n
<1>3. Align(used) = q * a
    BY DEF Align
<1>. HIDE DEF q, r, a
<1>4. q * a = used + a - 1 - r /\ q * a \in Nat
    BY <1>1, <1>2
<1>. QED
    BY <1>1, <1>2, <1>3, <1>4 DEF a

\* All the bytes of the pages, one page behind the other, and where each page ends.
Paged(pages, flat, edge) ==
    /\ pages \in Seq(Bytes) /\ flat \in Bytes
    /\ edge \in [0..Len(pages) -> Nat] /\ edge[0] = 0 /\ edge[Len(pages)] = Len(flat)
    /\ \A p \in 0..Len(pages), q \in 0..Len(pages) : p <= q => edge[p] <= edge[q]
    /\ \A p \in 1..Len(pages) : pages[p] = SubSeq(flat, edge[p - 1] + 1, edge[p])

\* The first bytes stay where they are when more come.
LEMMA SameSlice ==
    ASSUME NEW flat \in Bytes, NEW more \in Bytes, NEW from \in Nat, NEW to \in Nat, to <= Len(flat)
    PROVE  SubSeq(flat \o more, from + 1, to) = SubSeq(flat, from + 1, to)
<1>1. flat \o more \in Bytes /\ Len(flat \o more) = Len(flat) + Len(more)
      /\ \A i \in 1..Len(flat) : (flat \o more)[i] = flat[i]
    BY Join
<1>2. Len(flat) \in Nat /\ Len(more) \in Nat
    BY DEF Bytes
<1>. DEFINE both == flat \o more
<1>. HIDE DEF both
<1>3. SubSeq(both, from + 1, to) = [i \in 1..(to - from) |-> both[i + from]]
    <2>1. to - (from + 1) + 1 = to - from /\ \A i \in 1..(to - from) : i + (from + 1) - 1 = i + from
        OBVIOUS
    <2>2. SubSeq(both, from + 1, to) = [i \in 1..(to - (from + 1) + 1) |-> both[i + (from + 1) - 1]]
        BY <1>1, <1>2 DEF both, Bytes
    <2>. QED
        BY <2>1, <2>2
<1>4. SubSeq(flat, from + 1, to) = [i \in 1..(to - from) |-> flat[i + from]]
    <2>1. to - (from + 1) + 1 = to - from /\ \A i \in 1..(to - from) : i + (from + 1) - 1 = i + from
        OBVIOUS
    <2>2. SubSeq(flat, from + 1, to) = [i \in 1..(to - (from + 1) + 1) |-> flat[i + (from + 1) - 1]]
        BY <1>1, <1>2 DEF Bytes
    <2>. QED
        BY <2>1, <2>2
<1>5. \A i \in 1..(to - from) : both[i + from] = flat[i + from]
    BY <1>1, <1>2 DEF both
<1>. QED
    BY <1>3, <1>4, <1>5 DEF both

\* What comes is behind what was there.
\* What follows the same bytes in the same sequence is the same.
LEMMA SameRest ==
    ASSUME NEW a \in Bytes, NEW b \in Bytes, NEW c \in Bytes, a \o b = a \o c
    PROVE  b = c
<1>1. a \in Seq(Octets) /\ b \in Seq(Octets) /\ c \in Seq(Octets)
    BY DEF Bytes
<1>. QED
    BY <1>1, ConcatSimplifications

LEMMA LongerSlice ==
    ASSUME NEW flat \in Bytes, NEW more \in Bytes, NEW from \in 0..Len(flat)
    PROVE  /\ SubSeq(flat \o more, from + 1, Len(flat) + Len(more)) = SubSeq(flat, from + 1, Len(flat)) \o more
           /\ SubSeq(flat, from + 1, Len(flat)) \in Bytes
<1>. DEFINE first == SubSeq(flat, 1, from)
            rest == SubSeq(flat, from + 1, Len(flat))
            both == flat \o more
<1>1. first \in Bytes /\ rest \in Bytes /\ Len(first) = from /\ flat = first \o rest
    BY Parts
<1>. HIDE DEF first, rest
<1>2. both = first \o (rest \o more) /\ rest \o more \in Bytes
    <2>a. first \in Bytes /\ rest \in Bytes
        BY <1>1
    <2>b. both = (first \o rest) \o more
        BY <1>1
    <2>. HIDE DEF both
    <2>1. (first \o rest) \o more = first \o (rest \o more)
        BY <2>a, Rejoin, Zenon
    <2>2. rest \o more \in Bytes
        BY <2>a, Join, Zenon
    <2>. QED
        BY <2>b, <2>1, <2>2, Zenon
<1>3. both \in Bytes /\ Len(both) = Len(flat) + Len(more) /\ from \in 0..Len(both)
    BY Join DEF Bytes
<1>. HIDE DEF both
<1>4. SubSeq(both, 1, from) \o SubSeq(both, from + 1, Len(both)) = both /\ SubSeq(both, from + 1, Len(both)) \in Bytes
    BY <1>3, Parts
<1>5. SubSeq(both, 1, from) = first
    <2>. DEFINE tail == rest \o more
    <2>. HIDE DEF tail
    <2>1. SubSeq(first \o tail, 0 + 1, from) = SubSeq(first, 0 + 1, from)
        BY <1>1, <1>2, SameSlice DEF tail
    <2>2. SubSeq(first, 1, from) = first
        BY <1>1, SubSeqFull DEF Bytes
    <2>. QED
        BY <1>2, <2>1, <2>2 DEF tail
<1>6. SubSeq(both, from + 1, Len(both)) = rest \o more
    <2>. DEFINE tail == rest \o more
                end == SubSeq(both, from + 1, Len(both))
    <2>1. first \in Bytes /\ tail \in Bytes /\ end \in Bytes
        BY <1>1, <1>2, <1>4
    <2>2. first \o end = first \o tail
        BY <1>2, <1>4, <1>5
    <2>. HIDE DEF tail, end
    <2>3. end = tail
        BY <2>1, <2>2, SameRest, Zenon
    <2>. QED
        BY <2>3 DEF tail, end
<1>. QED
    BY <1>1, <1>3, <1>6 DEF rest, both

\* Bytes behind those of the last page.
Longer(pages, more) == [pages EXCEPT ![Len(pages)] = @ \o more]

LEMMA PagedLonger ==
    ASSUME NEW pages, NEW flat, NEW edge, Paged(pages, flat, edge), Len(pages) >= 1, NEW more \in Bytes
    PROVE  /\ Paged(Longer(pages, more), flat \o more, [edge EXCEPT ![Len(pages)] = @ + Len(more)])
           /\ Len(Longer(pages, more)) = Len(pages)
           /\ \A p \in 1..(Len(pages) - 1) : Longer(pages, more)[p] = pages[p]
           /\ Longer(pages, more)[Len(pages)] = pages[Len(pages)] \o more
<1>. DEFINE P == Len(pages)
            longer == Longer(pages, more)
            limit == [edge EXCEPT ![P] = @ + Len(more)]
            both == flat \o more
<1>1. /\ P \in Nat /\ P >= 1 /\ pages \in Seq(Bytes) /\ flat \in Bytes /\ edge \in [0..P -> Nat]
      /\ edge[0] = 0 /\ edge[P] = Len(flat) /\ P \in 1..P /\ P \in 0..P
      /\ \A p \in 0..P, q \in 0..P : p <= q => edge[p] <= edge[q]
      /\ \A p \in 1..P : pages[p] = SubSeq(flat, edge[p - 1] + 1, edge[p]) /\ pages[p] \in Bytes
    BY DEF Paged
<1>2. Len(more) \in Nat /\ Len(flat) \in Nat
    BY DEF Bytes
<1>e. \A p \in 0..P : edge[p] \in Nat /\ edge[p] <= Len(flat)
    <2>. SUFFICES ASSUME NEW p \in 0..P
                  PROVE  edge[p] \in Nat /\ edge[p] <= Len(flat)
        OBVIOUS
    <2>1. p <= P /\ edge[p] <= edge[P]
        BY <1>1
    <2>. QED
        BY <1>1, <2>1
<1>3. pages[P] \o more \in Bytes /\ both \in Bytes /\ Len(both) = Len(flat) + Len(more)
    BY <1>1, Join
<1>4. /\ longer \in Seq(Bytes) /\ Len(longer) = P
      /\ \A p \in 1..P : longer[p] = IF p = P THEN pages[P] \o more ELSE pages[p]
    BY <1>1, <1>3, ExceptSeq DEF Longer
<1>5. /\ limit \in [0..P -> Nat] /\ limit[P] = Len(flat) + Len(more)
      /\ \A p \in 0..P : p # P => limit[p] = edge[p]
    BY <1>1, <1>2
<1>. HIDE DEF longer, limit, both
<1>6. \A p \in 0..P, q \in 0..P : p <= q => limit[p] <= limit[q]
    <2>. SUFFICES ASSUME NEW p \in 0..P, NEW q \in 0..P, p <= q
                  PROVE  limit[p] <= limit[q]
        OBVIOUS
    <2>1. edge[p] <= edge[q] /\ edge[p] <= Len(flat) /\ edge[p] \in Nat /\ edge[q] \in Nat
        BY <1>1, <1>e
    <2>. QED
        BY <1>1, <1>2, <1>5, <2>1
<1>7. \A p \in 1..P : longer[p] = SubSeq(both, limit[p - 1] + 1, limit[p])
    <2>. SUFFICES ASSUME NEW p \in 1..P
                  PROVE  longer[p] = SubSeq(both, limit[p - 1] + 1, limit[p])
        OBVIOUS
    <2>1. p - 1 \in 0..P /\ p - 1 # P /\ p \in 0..P
        BY <1>1
    <2>2. limit[p - 1] = edge[p - 1] /\ edge[p - 1] \in Nat /\ edge[p - 1] <= Len(flat) /\ edge[p] <= Len(flat)
          /\ edge[p] \in Nat
        BY <1>e, <1>5, <2>1
    <2>3. CASE p = P
        <3>1. edge[p - 1] \in 0..Len(flat)
            BY <1>2, <2>2
        <3>2. SubSeq(both, edge[p - 1] + 1, Len(flat) + Len(more)) = SubSeq(flat, edge[p - 1] + 1, Len(flat)) \o more
            BY <1>1, <3>1, LongerSlice DEF both
        <3>3. pages[p] = SubSeq(flat, edge[p - 1] + 1, Len(flat))
            BY <1>1, <2>3
        <3>. QED
            BY <1>4, <1>5, <2>2, <2>3, <3>2, <3>3
    <2>4. CASE p # P
        <3>1. SubSeq(both, edge[p - 1] + 1, edge[p]) = SubSeq(flat, edge[p - 1] + 1, edge[p])
            <4>. DEFINE a == edge[p - 1]
                        b == edge[p]
            <4>1. flat \in Bytes /\ more \in Bytes /\ a \in Nat /\ b \in Nat /\ b <= Len(flat)
                BY <1>1, <2>2
            <4>. HIDE DEF a, b
            <4>2. SubSeq(flat \o more, a + 1, b) = SubSeq(flat, a + 1, b)
                BY <4>1, SameSlice, Zenon
            <4>. QED
                BY <4>2 DEF a, b, both
        <3>2. limit[p] = edge[p] /\ longer[p] = pages[p]
            BY <1>4, <1>5, <2>1, <2>4
        <3>. QED
            BY <1>1, <2>2, <3>1, <3>2
    <2>. QED
        BY <2>3, <2>4
<1>8. limit[0] = 0
    BY <1>1, <1>5
<1>9. Paged(longer, both, limit)
    BY <1>3, <1>4, <1>5, <1>6, <1>7, <1>8 DEF Paged
<1>10. \A p \in 1..(P - 1) : longer[p] = pages[p]
    <2>1. \A p \in 1..(P - 1) : p \in 1..P /\ p # P
        BY <1>1
    <2>. QED
        BY <1>4, <2>1
<1>. QED
    BY <1>1, <1>4, <1>9, <1>10 DEF longer, limit, both

\* Another page.
Edged(pages, edge) == [p \in 0..(Len(pages) + 1) |-> IF p <= Len(pages) THEN edge[p] ELSE edge[Len(pages)]]

LEMMA PagedMore ==
    ASSUME NEW pages, NEW flat, NEW edge, Paged(pages, flat, edge)
    PROVE  /\ Paged(Append(pages, <<>>), flat, Edged(pages, edge))
           /\ Len(Append(pages, <<>>)) = Len(pages) + 1
           /\ \A p \in 1..Len(pages) : Append(pages, <<>>)[p] = pages[p]
           /\ Append(pages, <<>>)[Len(pages) + 1] = <<>>
<1>. DEFINE P == Len(pages)
            more == Append(pages, <<>>)
            limit == Edged(pages, edge)
<1>1. /\ P \in Nat /\ pages \in Seq(Bytes) /\ flat \in Bytes /\ edge \in [0..P -> Nat]
      /\ edge[0] = 0 /\ edge[P] = Len(flat) /\ P \in 0..P
      /\ \A p \in 0..P, q \in 0..P : p <= q => edge[p] <= edge[q]
      /\ \A p \in 1..P : pages[p] = SubSeq(flat, edge[p - 1] + 1, edge[p])
    BY DEF Paged
<1>2. /\ more \in Seq(Bytes) /\ Len(more) = P + 1 /\ more[P + 1] = <<>>
      /\ \A p \in 1..P : more[p] = pages[p]
    BY <1>1, Nothings, AppendProperties
<1>3. /\ limit \in [0..(P + 1) -> Nat] /\ limit[P + 1] = Len(flat)
      /\ \A p \in 0..P : limit[p] = edge[p]
    BY <1>1 DEF Edged
<1>. HIDE DEF more, limit
<1>4. \A p \in 0..(P + 1), q \in 0..(P + 1) : p <= q => limit[p] <= limit[q]
    <2>. SUFFICES ASSUME NEW p \in 0..(P + 1), NEW q \in 0..(P + 1), p <= q
                  PROVE  limit[p] <= limit[q]
        OBVIOUS
    <2>1. CASE q \in 0..P
        <3>1. p \in 0..P
            BY <1>1, <2>1
        <3>2. edge[p] <= edge[q]
            BY <1>1, <2>1, <3>1
        <3>. QED
            BY <1>3, <2>1, <3>1, <3>2
    <2>2. CASE q = P + 1
        <3>1. limit[q] = Len(flat) /\ Len(flat) \in Nat
            BY <1>1, <1>3, <2>2
        <3>2. CASE p = P + 1
            BY <2>2, <3>1, <3>2
        <3>3. CASE p \in 0..P
            <4>1. edge[p] <= edge[P]
                BY <1>1, <3>3
            <4>. QED
                BY <1>1, <1>3, <3>1, <3>3, <4>1
        <3>. QED
            BY <1>1, <3>2, <3>3
    <2>3. q \in 0..P \/ q = P + 1
        BY <1>1
    <2>. QED
        BY <2>1, <2>2, <2>3
<1>5. \A p \in 1..(P + 1) : more[p] = SubSeq(flat, limit[p - 1] + 1, limit[p])
    <2>. SUFFICES ASSUME NEW p \in 1..(P + 1)
                  PROVE  more[p] = SubSeq(flat, limit[p - 1] + 1, limit[p])
        OBVIOUS
    <2>1. CASE p \in 1..P
        <3>1. p - 1 \in 0..P /\ p \in 0..P
            BY <1>1, <2>1
        <3>. QED
            BY <1>1, <1>2, <1>3, <2>1, <3>1
    <2>2. CASE p = P + 1
        <3>1. limit[p - 1] = Len(flat) /\ limit[p] = Len(flat)
            BY <1>1, <1>3, <2>2
        <3>2. SubSeq(flat, Len(flat) + 1, Len(flat)) = <<>>
            <4>1. Len(flat) + 1 \in Int /\ Len(flat) \in Int /\ Len(flat) < Len(flat) + 1
                BY <1>1 DEF Bytes
            <4>. QED
                BY <4>1, SubSeqEmpty
        <3>. QED
            BY <1>2, <2>2, <3>1, <3>2
    <2>. QED
        BY <1>1, <2>1, <2>2
<1>6. limit[0] = 0
    BY <1>1, <1>3
<1>7. Paged(more, flat, limit)
    BY <1>1, <1>2, <1>3, <1>4, <1>5, <1>6 DEF Paged
<1>. QED
    BY <1>2, <1>7 DEF more, limit

\* The used bytes of a page.
LEMMA PagedUsed ==
    ASSUME NEW pages, NEW flat, NEW edge, Paged(pages, flat, edge), NEW p \in 1..Len(pages)
    PROVE  /\ pages[p] \in Bytes /\ Len(pages[p]) = edge[p] - edge[p - 1]
           /\ edge[p - 1] \in Nat /\ edge[p] \in Nat /\ edge[p - 1] <= edge[p] /\ edge[p] <= Len(flat)
           /\ BytesUsed(pages[p]) = PageHeader + edge[p] - edge[p - 1]
<1>1. p - 1 \in 0..Len(pages) /\ p \in 0..Len(pages) /\ Len(pages) \in 0..Len(pages) /\ pages \in Seq(Bytes)
    BY DEF Paged
<1>2. edge[p - 1] \in Nat /\ edge[p] \in Nat /\ edge[p - 1] <= edge[p] /\ edge[p] <= Len(flat)
    <2>1. edge \in [0..Len(pages) -> Nat] /\ edge[Len(pages)] = Len(flat)
          /\ \A a \in 0..Len(pages), b \in 0..Len(pages) : a <= b => edge[a] <= edge[b]
        BY DEF Paged
    <2>2. p - 1 <= p /\ p <= Len(pages)
        BY <1>1
    <2>3. edge[p - 1] <= edge[p] /\ edge[p] <= edge[Len(pages)]
        BY <1>1, <2>1, <2>2
    <2>. QED
        BY <1>1, <2>1, <2>3
<1>3. pages[p] = SubSeq(flat, edge[p - 1] + 1, edge[p]) /\ flat \in Bytes
    BY DEF Paged
<1>4. Len(pages[p]) = edge[p] - edge[p - 1]
    <2>. DEFINE a == edge[p - 1]
                b == edge[p]
    <2>1. a \in Nat /\ b \in Nat /\ a <= b /\ b <= Len(flat)
        BY <1>2
    <2>. HIDE DEF a, b
    <2>2. Len(SubSeq(flat, a + 1, b)) = b - a
        BY <1>3, <2>1 DEF Bytes
    <2>. QED
        BY <1>3, <2>2 DEF a, b
<1>5. pages[p] \in Bytes
    BY <1>1
<1>6. PageHeader \in Nat
    BY Sizes
<1>. QED
    BY <1>2, <1>4, <1>5, <1>6 DEF BytesUsed

BuildRecords == [page : Nat, offset : Nat, parent : Nat, type : {"array", "map"}, count : Nat,
                 bytes : Nat, half : BOOLEAN, nested : Int]

\* Where among the bytes of the pages those behind a build start and end, and how far
\* into its page the end is.
Start0(b, edge) == edge[b.page - 1] + b.offset + BuildSize - PageHeader
Fin(b, edge) == Start0(b, edge) + b.bytes
EndOffset(b, end, edge) == Fin(b, edge) - edge[end - 1] + PageHeader

\* A build is in its page, and the bytes behind it end in the page end.
Within(P, b, edge, end) ==
    /\ b.page \in 1..P /\ b.offset >= PageHeader /\ Start0(b, edge) <= edge[b.page]
    /\ end \in b.page..P /\ Fin(b, edge) <= edge[end]
    /\ end = b.page \/ edge[end - 1] < Fin(b, edge)

\* The next build is where mpack_builder_resolve() looks for it.
Follows(b, end, edge, next) ==
    IF Align(EndOffset(b, end, edge)) + BuildSize <= PageSize
    THEN next.page = end /\ next.offset = Align(EndOffset(b, end, edge))
    ELSE next.page = end + 1 /\ next.offset = Align(PageHeader)

\* The bytes behind the last build reach the last page, or that page is empty and the
\* next build would be there.
Settled(P, b, end, edge) ==
    \/ end = P
    \/ end = P - 1 /\ edge[P] = edge[P - 1] /\ Align(EndOffset(b, end, edge)) + BuildSize > PageSize

Placed(P, builds, edge, ends) ==
    /\ builds \in Seq(BuildRecords) /\ Len(builds) >= 1 /\ ends \in [1..Len(builds) -> Nat]
    /\ \A k \in 1..Len(builds) : Within(P, builds[k], edge, ends[k])
    /\ \A i \in 1..Len(builds), j \in 1..Len(builds) : i < j => Start0(builds[i], edge) < Start0(builds[j], edge)
    /\ builds[1].page = 1 /\ builds[1].offset = Align(PageHeader)
    /\ \A k \in 1..(Len(builds) - 1) : Follows(builds[k], ends[k], edge, builds[k + 1])
    /\ Fin(builds[Len(builds)], edge) = edge[P]

\* Behind each build are its bytes.
Spread(pages, builds, bodies, flat, edge, ends) ==
    /\ Paged(pages, flat, edge) /\ Len(pages) >= 1
    /\ Placed(Len(pages), builds, edge, ends)
    /\ bodies \in Seq(Bytes) /\ Len(bodies) = Len(builds)
    /\ \A k \in 1..Len(builds) :
        bodies[k] = SubSeq(flat, Start0(builds[k], edge) + 1, Fin(builds[k], edge))

\* The last page may have got longer, and another may have come.
Further(P, edge, Q, limit) ==
    /\ P \in Nat /\ P >= 1 /\ Q \in {P, P + 1} /\ edge \in [0..P -> Nat] /\ limit \in [0..Q -> Nat]
    /\ \A p \in 0..(P - 1) : limit[p] = edge[p]
    /\ edge[P] <= limit[P]

LEMMA WithinGrows ==
    ASSUME NEW P, NEW Q, NEW edge, NEW limit, Further(P, edge, Q, limit),
           NEW b \in BuildRecords, NEW end, Within(P, b, edge, end)
    PROVE  /\ Within(Q, b, limit, end) /\ Start0(b, limit) = Start0(b, edge) /\ Fin(b, limit) = Fin(b, edge)
           /\ EndOffset(b, end, limit) = EndOffset(b, end, edge)
           /\ Start0(b, edge) \in Nat /\ Fin(b, edge) \in Nat /\ Start0(b, edge) <= Fin(b, edge)
           /\ EndOffset(b, end, edge) \in Nat
<1>0. /\ P \in Nat /\ P >= 1 /\ Q \in {P, P + 1} /\ edge \in [0..P -> Nat] /\ limit \in [0..Q -> Nat]
      /\ \A p \in 0..(P - 1) : limit[p] = edge[p]
      /\ edge[P] <= limit[P]
    BY DEF Further
<1>. USE <1>0
<1>1. b.page \in 1..P /\ b.page - 1 \in 0..(P - 1) /\ b.offset \in Nat /\ b.bytes \in Nat /\ b.offset >= PageHeader
    <2>. DEFINE g == b.page
    <2>1. g \in 1..P /\ b.offset >= PageHeader /\ b.offset \in Nat /\ b.bytes \in Nat
        BY DEF Within, BuildRecords
    <2>. HIDE DEF g
    <2>2. g - 1 \in 0..(P - 1)
        BY <2>1
    <2>. QED
        BY <2>1, <2>2 DEF g
<1>2. end \in 1..P /\ end - 1 \in 0..(P - 1) /\ end \in b.page..P
    BY <1>1 DEF Within
<1>3. limit[b.page - 1] = edge[b.page - 1] /\ limit[end - 1] = edge[end - 1] /\ edge[b.page - 1] \in Nat
      /\ edge[end - 1] \in Nat
    <2>1. \A p \in 0..(P - 1) : limit[p] = edge[p] /\ edge[p] \in Nat
        <3>1. \A p \in 0..(P - 1) : p \in 0..P
            OBVIOUS
        <3>. QED
            BY <3>1
    <2>. QED
        BY <1>1, <1>2, <2>1
<1>4. Start0(b, limit) = Start0(b, edge) /\ Fin(b, limit) = Fin(b, edge)
      /\ EndOffset(b, end, limit) = EndOffset(b, end, edge)
    BY <1>3 DEF Start0, Fin, EndOffset
<1>5. \A p \in 1..P : edge[p] <= limit[p] /\ edge[p] \in Nat /\ limit[p] \in Nat
    <2>. SUFFICES ASSUME NEW p \in 1..P
                  PROVE  edge[p] <= limit[p] /\ edge[p] \in Nat /\ limit[p] \in Nat
        OBVIOUS
    <2>1. p \in 0..P /\ p \in 0..Q
        OBVIOUS
    <2>2. CASE p = P
        BY <2>1, <2>2
    <2>3. CASE p # P
        <3>1. p \in 0..(P - 1)
            BY <2>3
        <3>. QED
            BY <2>1, <3>1
    <2>. QED
        BY <2>2, <2>3
<1>6. /\ Start0(b, edge) \in Nat /\ Fin(b, edge) \in Nat /\ Start0(b, edge) <= Fin(b, edge)
      /\ end = b.page => EndOffset(b, end, edge) = b.offset + BuildSize + b.bytes
      /\ EndOffset(b, end, edge) = Fin(b, edge) - edge[end - 1] + PageHeader
    <2>. DEFINE e == edge[b.page - 1]
                o == b.offset
                n == b.bytes
    <2>1. e \in Nat /\ o \in Nat /\ n \in Nat /\ o >= PageHeader
        BY <1>1, <1>3
    <2>2. Start0(b, edge) = e + o + BuildSize - PageHeader /\ Fin(b, edge) = Start0(b, edge) + n
        BY DEF Start0, Fin
    <2>3. EndOffset(b, end, edge) = Fin(b, edge) - edge[end - 1] + PageHeader
        BY DEF EndOffset
    <2>4. end = b.page => edge[end - 1] = e
        OBVIOUS
    <2>. HIDE DEF e, o, n
    <2>5. Start0(b, edge) \in Nat /\ Fin(b, edge) \in Nat /\ Start0(b, edge) <= Fin(b, edge)
        BY <2>1, <2>2, Sizes
    <2>6. end = b.page => EndOffset(b, end, edge) = o + BuildSize + n
        BY <2>1, <2>2, <2>3, <2>4, Sizes
    <2>. QED
        BY <2>3, <2>5, <2>6 DEF o, n
<1>7. Start0(b, edge) <= edge[b.page] /\ Fin(b, edge) <= edge[end] /\ (end = b.page \/ edge[end - 1] < Fin(b, edge))
    BY DEF Within
<1>8. Start0(b, limit) <= limit[b.page] /\ Fin(b, limit) <= limit[end]
    <2>. DEFINE m == edge[b.page]
                n == edge[end]
                u == limit[b.page]
                v == limit[end]
    <2>1. m \in Nat /\ n \in Nat /\ u \in Nat /\ v \in Nat /\ m <= u /\ n <= v
        BY <1>1, <1>2, <1>5
    <2>2. Start0(b, limit) <= m /\ Fin(b, limit) <= n
        BY <1>4, <1>7
    <2>3. Start0(b, limit) \in Nat /\ Fin(b, limit) \in Nat
        BY <1>4, <1>6
    <2>. HIDE DEF m, n, u, v
    <2>4. Start0(b, limit) <= u /\ Fin(b, limit) <= v
        BY <2>1, <2>2, <2>3
    <2>. QED
        BY <2>4 DEF u, v
<1>9. b.page \in 1..Q /\ end \in b.page..Q
    <2>. DEFINE n == b.page
    <2>1. n \in 1..P /\ end \in 1..P /\ end \in n..P /\ P <= Q /\ Q \in Nat
        BY <1>1, <1>2
    <2>. HIDE DEF n
    <2>2. n \in 1..Q /\ end \in n..Q
        BY <2>1
    <2>. QED
        BY <2>2 DEF n
<1>10. Within(Q, b, limit, end)
    BY <1>1, <1>3, <1>4, <1>7, <1>8, <1>9 DEF Within
<1>11. EndOffset(b, end, edge) \in Nat
    <2>1. CASE end = b.page
        <3>. DEFINE o == b.offset
                    n == b.bytes
        <3>1. EndOffset(b, end, edge) = o + BuildSize + n /\ o \in Nat /\ n \in Nat
            BY <2>1, <1>1, <1>6
        <3>. HIDE DEF o, n
        <3>. QED
            BY <3>1, Sizes
    <2>2. CASE edge[end - 1] < Fin(b, edge)
        <3>. DEFINE e == edge[end - 1]
        <3>1. e \in Nat /\ e < Fin(b, edge) /\ Fin(b, edge) \in Nat
              /\ EndOffset(b, end, edge) = Fin(b, edge) - e + PageHeader
            BY <2>2, <1>3, <1>6
        <3>. HIDE DEF e
        <3>. QED
            BY <3>1, Sizes
    <2>. QED
        BY <1>7, <2>1, <2>2
<1>. QED
    BY <1>4, <1>6, <1>10, <1>11

\* More bytes behind the last build.
Lengthened(builds, more) == [builds EXCEPT ![Len(builds)].bytes = @ + Len(more)]

\* Two builds are in one place, or one is what the other was.
SamePlace(b, c) == b.page = c.page /\ b.offset = c.offset
SameCounts(b, c) ==
    b.parent = c.parent /\ b.type = c.type /\ b.count = c.count /\ b.half = c.half /\ b.nested = c.nested

LEMMA LengthenedBuilds ==
    ASSUME NEW builds \in Seq(BuildRecords), Len(builds) >= 1, NEW more \in Bytes
    PROVE  /\ Lengthened(builds, more) \in Seq(BuildRecords) /\ Len(Lengthened(builds, more)) = Len(builds)
           /\ \A k \in 1..(Len(builds) - 1) : Lengthened(builds, more)[k] = builds[k]
           /\ Lengthened(builds, more)[Len(builds)].bytes = builds[Len(builds)].bytes + Len(more)
           /\ SamePlace(Lengthened(builds, more)[Len(builds)], builds[Len(builds)])
           /\ SameCounts(Lengthened(builds, more)[Len(builds)], builds[Len(builds)])
<1>. DEFINE n == Len(builds)
            b == builds[n]
            size == Len(more)
            last == [b EXCEPT !.bytes = @ + size]
<1>1. n \in Nat /\ n \in 1..n /\ b \in BuildRecords
    OBVIOUS
<1>2. size \in Nat
    BY DEF Bytes
<1>3. Lengthened(builds, more) = [builds EXCEPT ![n] = last]
    BY DEF Lengthened
<1>. HIDE DEF n, b, size
<1>4. last \in BuildRecords /\ last.bytes = b.bytes + size /\ SamePlace(last, b) /\ SameCounts(last, b)
    <2>1. b.bytes + size \in Nat
        <3>. DEFINE m == b.bytes
        <3>1. m \in Nat
            BY <1>1 DEF BuildRecords
        <3>. HIDE DEF m
        <3>2. m + size \in Nat
            BY <1>2, <3>1
        <3>. QED
            BY <3>2 DEF m
    <2>2. last \in BuildRecords
        BY <1>1, <2>1 DEF BuildRecords
    <2>3. last.bytes = b.bytes + size
        BY <1>1 DEF BuildRecords
    <2>4. SamePlace(last, b)
        BY <1>1 DEF BuildRecords, SamePlace
    <2>5. SameCounts(last, b)
        BY <1>1 DEF BuildRecords, SameCounts
    <2>. QED
        BY <2>2, <2>3, <2>4, <2>5
<1>. HIDE DEF last
<1>5. /\ [builds EXCEPT ![n] = last] \in Seq(BuildRecords) /\ Len([builds EXCEPT ![n] = last]) = Len(builds)
      /\ \A k \in 1..Len(builds) : [builds EXCEPT ![n] = last][k] = IF k = n THEN last ELSE builds[k]
    BY <1>1, <1>4, ExceptSeq DEF n
<1>6. \A k \in 1..(Len(builds) - 1) : k \in 1..Len(builds) /\ k # n
    BY <1>1 DEF n
<1>. QED
    BY <1>1, <1>3, <1>4, <1>5, <1>6 DEF n, b, size

LEMMA SpreadFacts ==
    ASSUME NEW pages, NEW builds, NEW bodies, NEW flat, NEW edge, NEW ends,
           Spread(pages, builds, bodies, flat, edge, ends)
    PROVE  /\ Len(pages) \in Nat /\ Len(pages) >= 1 /\ Len(builds) \in Nat /\ Len(builds) >= 1
           /\ pages \in Seq(Bytes) /\ builds \in Seq(BuildRecords) /\ flat \in Bytes /\ Len(flat) \in Nat
           /\ edge \in [0..Len(pages) -> Nat] /\ edge[Len(pages)] = Len(flat)
           /\ \A p \in 0..Len(pages) : edge[p] <= Len(flat)
           /\ Fin(builds[Len(builds)], edge) = Len(flat)
           /\ \A k \in 1..Len(builds) :
                /\ builds[k] \in BuildRecords /\ Within(Len(pages), builds[k], edge, ends[k])
                /\ Start0(builds[k], edge) \in Nat /\ Fin(builds[k], edge) \in Nat
                /\ Start0(builds[k], edge) <= Fin(builds[k], edge) /\ Fin(builds[k], edge) <= Len(flat)
                /\ ends[k] \in 1..Len(pages) /\ EndOffset(builds[k], ends[k], edge) \in Nat
<1>. DEFINE P == Len(pages)
<1>1. /\ P \in Nat /\ P >= 1 /\ Len(builds) \in Nat /\ Len(builds) >= 1
      /\ pages \in Seq(Bytes) /\ builds \in Seq(BuildRecords) /\ flat \in Bytes /\ Len(flat) \in Nat
      /\ edge \in [0..P -> Nat] /\ edge[P] = Len(flat)
    BY DEF Spread, Placed, Paged, Bytes
<1>2. \A p \in 0..P : edge[p] <= Len(flat)
    <2>. SUFFICES ASSUME NEW p \in 0..P
                  PROVE  edge[p] <= Len(flat)
        OBVIOUS
    <2>1. p <= P /\ P \in 0..P
        BY <1>1
    <2>2. edge[p] <= edge[P]
        BY <2>1 DEF Spread, Paged
    <2>. QED
        BY <1>1, <2>2
<1>3. Fin(builds[Len(builds)], edge) = Len(flat)
    BY <1>1 DEF Spread, Placed
<1>4. ASSUME NEW k \in 1..Len(builds)
      PROVE  /\ builds[k] \in BuildRecords /\ Within(P, builds[k], edge, ends[k])
             /\ Start0(builds[k], edge) \in Nat /\ Fin(builds[k], edge) \in Nat
             /\ Start0(builds[k], edge) <= Fin(builds[k], edge) /\ Fin(builds[k], edge) <= Len(flat)
             /\ ends[k] \in 1..P /\ EndOffset(builds[k], ends[k], edge) \in Nat
    <2>1. builds[k] \in BuildRecords
        BY <1>1
    <2>2. Within(P, builds[k], edge, ends[k])
        BY DEF Spread, Placed
    <2>3. P \in {P, P + 1} /\ \A p \in 0..(P - 1) : edge[p] = edge[p]
        OBVIOUS
    <2>4. edge[P] <= edge[P]
        BY <1>1
    <2>5. /\ Start0(builds[k], edge) \in Nat /\ Fin(builds[k], edge) \in Nat
          /\ Start0(builds[k], edge) <= Fin(builds[k], edge)
          /\ EndOffset(builds[k], ends[k], edge) \in Nat
        <3>1. Further(P, edge, P, edge)
            BY <1>1, <2>3, <2>4 DEF Further
        <3>. QED
            BY <2>1, <2>2, <3>1, WithinGrows
    <2>6. ends[k] \in 1..P /\ Fin(builds[k], edge) <= edge[ends[k]]
        <3>1. builds[k].page \in 1..P /\ ends[k] \in builds[k].page..P
            BY <2>2 DEF Within
        <3>2. ends[k] \in 1..P
            BY <1>1, <3>1
        <3>. QED
            BY <2>2, <3>2 DEF Within
    <2>7. edge[ends[k]] \in Nat /\ edge[ends[k]] <= Len(flat)
        <3>1. ends[k] \in 0..P
            BY <1>1, <2>6
        <3>. QED
            BY <1>1, <1>2, <3>1
    <2>8. Fin(builds[k], edge) <= Len(flat)
        BY <1>1, <2>5, <2>6, <2>7
    <2>. QED
        BY <2>1, <2>2, <2>5, <2>6, <2>8
<1>. QED
    BY <1>1, <1>2, <1>3, <1>4

------------------------------------------------------------------------------------
(* Where the builds end and pages are added. *)

\* The end of the last build moves to the end of the last page.
Stretched(P, edge, size, limit) ==
    /\ P \in Nat /\ P >= 1 /\ edge \in [0..P -> Nat] /\ edge[P - 1] <= edge[P]
    /\ size \in Nat /\ size > 0 /\ limit = [edge EXCEPT ![P] = @ + size]
LongerBuild(b, size, c) == SamePlace(c, b) /\ c.bytes = b.bytes + size

LEMMA LastWithin ==
    ASSUME NEW P, NEW edge, NEW size, NEW limit, Stretched(P, edge, size, limit),
           NEW b \in BuildRecords, NEW end, Within(P, b, edge, end), Fin(b, edge) = edge[P],
           NEW c, LongerBuild(b, size, c)
    PROVE  Within(P, c, limit, P) /\ Start0(c, limit) = Start0(b, edge) /\ Fin(c, limit) = limit[P]
<1>0. /\ P \in Nat /\ P >= 1 /\ edge \in [0..P -> Nat] /\ edge[P - 1] <= edge[P]
      /\ size \in Nat /\ size > 0 /\ limit = [edge EXCEPT ![P] = @ + size]
      /\ SamePlace(c, b) /\ c.bytes = b.bytes + size
    BY DEF Stretched, LongerBuild
<1>1. b.page \in 1..P /\ b.page - 1 \in 0..P /\ b.page - 1 # P /\ b.page \in 0..P /\ P \in 0..P /\ P - 1 \in 0..P /\ P - 1 # P
    <2>. DEFINE g == b.page
    <2>1. g \in 1..P /\ P \in Nat /\ P >= 1
        BY <1>0 DEF Within
    <2>. HIDE DEF g
    <2>2. g \in 1..P /\ g - 1 \in 0..P /\ g - 1 # P /\ g \in 0..P /\ P \in 0..P /\ P - 1 \in 0..P /\ P - 1 # P
        BY <2>1
    <2>. QED
        BY <2>2 DEF g
<1>2. c.page = b.page /\ c.offset = b.offset
    BY <1>0 DEF SamePlace
<1>3. limit \in [0..P -> Nat] /\ limit[P] = edge[P] + size /\ limit[b.page - 1] = edge[b.page - 1]
      /\ limit[P - 1] = edge[P - 1] /\ edge[P] \in Nat /\ edge[P - 1] \in Nat
    BY <1>0, <1>1
<1>4. Start0(c, limit) = Start0(b, edge)
    BY <1>2, <1>3 DEF Start0
<1>5. Start0(b, edge) \in Nat
    <2>1. P \in {P, P + 1} /\ \A p \in 0..(P - 1) : edge[p] = edge[p]
        OBVIOUS
    <2>2. edge[P] <= edge[P]
        BY <1>3
    <2>3. Further(P, edge, P, edge)
        BY <1>0, <2>1, <2>2 DEF Further
    <2>. QED
        BY <2>3, WithinGrows
<1>6. b.bytes \in Nat /\ b.offset \in Nat
    BY DEF BuildRecords
<1>7. Fin(c, limit) = limit[P]
    <2>. DEFINE s == Start0(b, edge)
                m == b.bytes
                e == edge[P]
                x == Fin(c, limit)
                y == limit[P]
    <2>1. s + m = e /\ x = s + (m + size) /\ y = e + size
        BY <1>0, <1>3, <1>4 DEF Fin
    <2>2. s \in Nat /\ m \in Nat /\ e \in Nat
        BY <1>0, <1>3, <1>5, <1>6
    <2>. HIDE DEF s, m, e, x, y
    <2>3. x = y
        BY <1>0, <2>1, <2>2
    <2>. QED
        BY <2>3 DEF x, y
<1>8. Start0(b, edge) <= limit[b.page]
    <2>. DEFINE e == edge[b.page]
                s == Start0(b, edge)
    <2>1. e \in Nat /\ s \in Nat /\ s <= e /\ (limit[b.page] = e \/ limit[b.page] = e + size)
        <3>. DEFINE g == b.page
        <3>1. g \in 0..P
            BY <1>1
        <3>2. Start0(b, edge) <= edge[g]
            BY DEF Within
        <3>. HIDE DEF g
        <3>3. edge[g] \in Nat /\ (limit[g] = edge[g] \/ limit[g] = edge[g] + size)
            BY <1>0, <3>1
        <3>. QED
            BY <1>5, <3>2, <3>3 DEF g
    <2>. HIDE DEF e, s
    <2>2. s <= limit[b.page]
        BY <1>0, <2>1
    <2>. QED
        BY <2>2 DEF s
<1>9. limit[P - 1] < limit[P]
    <2>. DEFINE d == edge[P - 1]
                e == edge[P]
    <2>1. d \in Nat /\ e \in Nat /\ d <= e /\ limit[P] = e + size /\ limit[P - 1] = d
        BY <1>0, <1>3
    <2>. HIDE DEF d, e
    <2>. QED
        BY <1>0, <2>1
<1>10. P \in c.page..P
    BY <1>0, <1>1, <1>2
<1>. QED
    BY <1>1, <1>2, <1>3, <1>4, <1>7, <1>8, <1>9, <1>10 DEF Within

\* More bytes behind the last build.
MoreBody(bodies, more) == [bodies EXCEPT ![Len(bodies)] = @ \o more]

LEMMA SpreadLonger ==
    ASSUME NEW pages, NEW builds, NEW bodies, NEW flat, NEW edge, NEW ends,
           Spread(pages, builds, bodies, flat, edge, ends), NEW more \in Bytes, Len(more) > 0
    PROVE  /\ Spread(Longer(pages, more), Lengthened(builds, more), MoreBody(bodies, more), flat \o more,
                     [edge EXCEPT ![Len(pages)] = @ + Len(more)], [ends EXCEPT ![Len(builds)] = Len(pages)])
           /\ [ends EXCEPT ![Len(builds)] = Len(pages)][Len(builds)] = Len(pages)
<1>. DEFINE P == Len(pages)
            n == Len(builds)
            size == Len(more)
            limit == [edge EXCEPT ![P] = @ + size]
            to == [ends EXCEPT ![n] = P]
            last == Lengthened(builds, more)
            both == flat \o more
            body == MoreBody(bodies, more)
<1>1. /\ P \in Nat /\ P >= 1 /\ n \in Nat /\ n >= 1 /\ n \in 1..n
      /\ pages \in Seq(Bytes) /\ builds \in Seq(BuildRecords) /\ flat \in Bytes /\ Len(flat) \in Nat
      /\ edge \in [0..P -> Nat] /\ edge[P] = Len(flat) /\ size \in Nat /\ size > 0
      /\ Fin(builds[n], edge) = Len(flat)
    BY SpreadFacts DEF Bytes
<1>2. /\ last \in Seq(BuildRecords) /\ Len(last) = n
      /\ \A k \in 1..(n - 1) : last[k] = builds[k]
      /\ last[n].bytes = builds[n].bytes + size /\ SamePlace(last[n], builds[n])
    BY <1>1, LengthenedBuilds
<1>3. Paged(Longer(pages, more), both, limit) /\ Len(Longer(pages, more)) = P
    BY <1>1, PagedLonger DEF Spread
<1>4. ends \in [1..n -> Nat] /\ to \in [1..n -> Nat] /\ to[n] = P /\ \A k \in 1..(n - 1) : to[k] = ends[k]
    BY <1>1 DEF Spread, Placed
<1>5. limit \in [0..P -> Nat] /\ limit[P] = edge[P] + size /\ \A p \in 0..(P - 1) : limit[p] = edge[p]
    BY <1>1
<1>6. \A k \in 1..n : Within(P, builds[k], edge, ends[k]) /\ builds[k] \in BuildRecords
    BY SpreadFacts
<1>7. edge[P - 1] <= edge[P]
    <2>1. P - 1 \in 0..P /\ P \in 0..P /\ P - 1 <= P
        BY <1>1
    <2>. QED
        BY <2>1 DEF Spread, Paged
<1>. HIDE DEF P, n, size, last, both, body, to, limit
<1>8. Within(P, last[n], limit, P) /\ Start0(last[n], limit) = Start0(builds[n], edge) /\ Fin(last[n], limit) = limit[P]
    <2>1. limit = [edge EXCEPT ![P] = @ + size]
        BY DEF limit
    <2>. DEFINE b == builds[n]
                c == last[n]
                e == ends[n]
    <2>2. Fin(b, edge) = edge[P] /\ b \in BuildRecords /\ Within(P, b, edge, e)
        BY <1>1, <1>6
    <2>3. LongerBuild(b, size, c)
        BY <1>2 DEF LongerBuild
    <2>4. Stretched(P, edge, size, limit)
        BY <1>1, <1>7, <2>1 DEF Stretched
    <2>. HIDE DEF b, c, e
    <2>5. Within(P, c, limit, P) /\ Start0(c, limit) = Start0(b, edge) /\ Fin(c, limit) = limit[P]
        BY <2>2, <2>3, <2>4, LastWithin
    <2>. QED
        BY <2>5 DEF b, c
<1>9. ASSUME NEW k \in 1..(n - 1)
      PROVE  /\ k \in 1..n /\ k # n /\ k + 1 \in 1..n /\ last[k] = builds[k] /\ to[k] = ends[k]
             /\ Within(P, last[k], limit, to[k]) /\ Start0(last[k], limit) = Start0(builds[k], edge)
             /\ Fin(last[k], limit) = Fin(builds[k], edge)
             /\ EndOffset(last[k], to[k], limit) = EndOffset(builds[k], ends[k], edge)
    <2>1. k \in 1..n /\ k # n /\ k + 1 \in 1..n
        BY <1>1
    <2>2. last[k] = builds[k] /\ to[k] = ends[k]
        BY <1>2, <1>4
    <2>3. P \in {P, P + 1} /\ edge[P] <= limit[P]
        <3>. DEFINE e == edge[P]
        <3>1. e \in Nat /\ limit[P] = e + size
            BY <1>1, <1>5
        <3>. HIDE DEF e
        <3>2. e <= limit[P]
            BY <1>1, <3>1
        <3>. QED
            BY <3>2 DEF e
    <2>4. Within(P, builds[k], edge, ends[k]) /\ builds[k] \in BuildRecords
        BY <1>6, <2>1
    <2>5. /\ Within(P, builds[k], limit, ends[k]) /\ Start0(builds[k], limit) = Start0(builds[k], edge)
          /\ Fin(builds[k], limit) = Fin(builds[k], edge)
          /\ EndOffset(builds[k], ends[k], limit) = EndOffset(builds[k], ends[k], edge)
        <3>. DEFINE b == builds[k]
                    e == ends[k]
        <3>1. Within(P, b, edge, e) /\ b \in BuildRecords
            BY <2>4
        <3>2. Further(P, edge, P, limit)
            BY <1>1, <1>5, <2>3 DEF Further
        <3>. HIDE DEF b, e
        <3>3. /\ Within(P, b, limit, e) /\ Start0(b, limit) = Start0(b, edge) /\ Fin(b, limit) = Fin(b, edge)
              /\ EndOffset(b, e, limit) = EndOffset(b, e, edge)
            BY <3>1, <3>2, WithinGrows
        <3>. QED
            BY <3>3 DEF b, e
    <2>. QED
        BY <2>1, <2>2, <2>5
<1>10. ASSUME NEW k \in 1..n
       PROVE  /\ k = n \/ k \in 1..(n - 1)
              /\ Start0(last[k], limit) = Start0(builds[k], edge) /\ Within(P, last[k], limit, to[k])
              /\ SamePlace(last[k], builds[k])
    <2>1. k = n \/ k \in 1..(n - 1)
        BY <1>1
    <2>. QED
        BY <1>2, <1>4, <1>8, <1>9, <2>1 DEF SamePlace
<1>11. Placed(P, last, limit, to)
    <2>1. \A i \in 1..n, j \in 1..n : i < j => Start0(last[i], limit) < Start0(last[j], limit)
        <3>1. \A i \in 1..n, j \in 1..n : i < j => Start0(builds[i], edge) < Start0(builds[j], edge)
            BY DEF Spread, Placed, n
        <3>. QED
            BY <1>10, <3>1
    <2>2. last[1].page = 1 /\ last[1].offset = Align(PageHeader)
        <3>1. 1 \in 1..n /\ builds[1].page = 1 /\ builds[1].offset = Align(PageHeader)
            BY <1>1 DEF Spread, Placed
        <3>. QED
            BY <1>10, <3>1 DEF SamePlace
    <2>3. ASSUME NEW k \in 1..(n - 1)
          PROVE  Follows(last[k], to[k], limit, last[k + 1])
        <3>1. Follows(builds[k], ends[k], edge, builds[k + 1])
            BY DEF Spread, Placed, n
        <3>2. SamePlace(last[k + 1], builds[k + 1])
            BY <1>9, <1>10
        <3>. QED
            BY <1>9, <3>1, <3>2 DEF Follows, SamePlace
    <2>4. \A k \in 1..n : Within(P, last[k], limit, to[k])
        BY <1>10
    <2>. QED
        BY <1>1, <1>2, <1>4, <1>8, <2>1, <2>2, <2>3, <2>4 DEF Placed
<1>12. /\ bodies \in Seq(Bytes) /\ Len(bodies) = n
       /\ \A k \in 1..n : bodies[k] = SubSeq(flat, Start0(builds[k], edge) + 1, Fin(builds[k], edge))
    BY DEF Spread, n
<1>13. bodies[n] \o more \in Bytes
    BY <1>1, <1>12, Join
<1>14. /\ body \in Seq(Bytes) /\ Len(body) = n
       /\ \A k \in 1..n : body[k] = IF k = n THEN bodies[n] \o more ELSE bodies[k]
    BY <1>1, <1>12, <1>13, ExceptSeq DEF MoreBody, body
<1>15. \A k \in 1..n : Start0(builds[k], edge) \in Nat /\ Fin(builds[k], edge) \in Nat
                      /\ Start0(builds[k], edge) <= Fin(builds[k], edge) /\ Fin(builds[k], edge) <= Len(flat)
    BY SpreadFacts DEF n
<1>16. ASSUME NEW k \in 1..n
       PROVE  body[k] = SubSeq(both, Start0(last[k], limit) + 1, Fin(last[k], limit))
    <2>. DEFINE s == Start0(builds[k], edge)
                f == Fin(builds[k], edge)
    <2>1. s \in Nat /\ f \in Nat /\ s <= f /\ f <= Len(flat) /\ Start0(last[k], limit) = s
        BY <1>10, <1>15
    <2>2. bodies[k] = SubSeq(flat, s + 1, f)
        BY <1>12
    <2>3. CASE k = n
        <3>1. f = Len(flat) /\ Fin(last[k], limit) = Len(flat) + size
            BY <1>1, <1>5, <1>8, <2>3
        <3>2. body[k] = SubSeq(flat, s + 1, f) \o more
            BY <1>14, <2>2, <2>3
        <3>. HIDE DEF s, f
        <3>3. s \in 0..Len(flat)
            BY <1>1, <2>1
        <3>4. SubSeq(flat \o more, s + 1, Len(flat) + Len(more)) = SubSeq(flat, s + 1, Len(flat)) \o more
            BY <1>1, <3>3, LongerSlice
        <3>. QED
            BY <2>1, <3>1, <3>2, <3>4 DEF both, size
    <2>4. CASE k # n
        <3>1. Fin(last[k], limit) = f /\ body[k] = bodies[k]
            BY <1>9, <1>10, <1>14, <2>4
        <3>. HIDE DEF s, f
        <3>2. SubSeq(flat \o more, s + 1, f) = SubSeq(flat, s + 1, f)
            BY <1>1, <2>1, SameSlice
        <3>. QED
            BY <2>1, <2>2, <3>1, <3>2 DEF both
    <2>. QED
        BY <2>3, <2>4
<1>17. Spread(Longer(pages, more), last, body, both, limit, to)
    BY <1>1, <1>2, <1>3, <1>11, <1>14, <1>16 DEF Spread
<1>. QED
    BY <1>4, <1>17 DEF P, n, size, limit, to, last, both, body

\* Another page.
LEMMA SpreadMore ==
    ASSUME NEW pages, NEW builds, NEW bodies, NEW flat, NEW edge, NEW ends,
           Spread(pages, builds, bodies, flat, edge, ends), NEW limit, limit = Edged(pages, edge)
    PROVE  /\ Spread(Append(pages, <<>>), builds, bodies, flat, limit, ends)
           /\ Len(Append(pages, <<>>)) = Len(pages) + 1
           /\ limit[Len(pages) + 1] = limit[Len(pages)]
           /\ EndOffset(builds[Len(builds)], ends[Len(builds)], limit)
                = EndOffset(builds[Len(builds)], ends[Len(builds)], edge)
<1>. DEFINE P == Len(pages)
            n == Len(builds)
            other == Append(pages, <<>>)
<1>1. /\ P \in Nat /\ P >= 1 /\ n \in Nat /\ n >= 1 /\ n \in 1..n
      /\ pages \in Seq(Bytes) /\ builds \in Seq(BuildRecords) /\ flat \in Bytes /\ Len(flat) \in Nat
      /\ edge \in [0..P -> Nat] /\ edge[P] = Len(flat) /\ Fin(builds[n], edge) = Len(flat)
    BY SpreadFacts DEF Bytes
<1>2. Paged(other, flat, limit) /\ Len(other) = P + 1
    BY PagedMore DEF Spread
<1>3. /\ limit \in [0..(P + 1) -> Nat] /\ limit[P + 1] = edge[P]
      /\ \A p \in 0..P : limit[p] = edge[p]
    <2>1. P \in 0..P /\ P + 1 \in 0..(P + 1) /\ ~(P + 1 <= P)
        BY <1>1
    <2>2. limit[P + 1] = edge[P]
        BY <2>1 DEF Edged
    <2>3. \A p \in 0..P : limit[p] = edge[p]
        BY <1>1 DEF Edged
    <2>. QED
        BY <1>1, <2>2, <2>3 DEF Edged
<1>. HIDE DEF P, n, other
<1>4. Further(P, edge, P + 1, limit)
    <2>1. \A p \in 0..(P - 1) : p \in 0..P
        BY <1>1
    <2>2. limit[P] = edge[P] /\ edge[P] \in Nat
        BY <1>1, <1>3
    <2>3. edge[P] <= limit[P]
        BY <2>2
    <2>. QED
        BY <1>1, <1>3, <2>1, <2>3 DEF Further
<1>5. ASSUME NEW k \in 1..n
      PROVE  /\ Within(P + 1, builds[k], limit, ends[k]) /\ Start0(builds[k], limit) = Start0(builds[k], edge)
             /\ Fin(builds[k], limit) = Fin(builds[k], edge)
             /\ EndOffset(builds[k], ends[k], limit) = EndOffset(builds[k], ends[k], edge)
    <2>1. Within(P, builds[k], edge, ends[k]) /\ builds[k] \in BuildRecords
        BY SpreadFacts DEF P, n
    <2>. QED
        BY <1>4, <2>1, WithinGrows
<1>6. Placed(P + 1, builds, limit, ends)
    <2>1. \A i \in 1..n, j \in 1..n : i < j => Start0(builds[i], limit) < Start0(builds[j], limit)
        BY <1>5 DEF Spread, Placed, n
    <2>2. ASSUME NEW k \in 1..(n - 1)
          PROVE  Follows(builds[k], ends[k], limit, builds[k + 1])
        <3>1. Follows(builds[k], ends[k], edge, builds[k + 1])
            BY DEF Spread, Placed, n
        <3>2. k \in 1..n
            BY <1>1
        <3>. QED
            BY <1>5, <3>1, <3>2 DEF Follows
    <2>3. Fin(builds[n], limit) = limit[P + 1]
        BY <1>1, <1>3, <1>5
    <2>4. /\ builds \in Seq(BuildRecords) /\ Len(builds) >= 1 /\ ends \in [1..Len(builds) -> Nat]
          /\ builds[1].page = 1 /\ builds[1].offset = Align(PageHeader)
        BY DEF Spread, Placed
    <2>. QED
        BY <1>5, <2>1, <2>2, <2>3, <2>4 DEF Placed, n
<1>7. /\ bodies \in Seq(Bytes) /\ Len(bodies) = Len(builds)
      /\ \A k \in 1..Len(builds) : bodies[k] = SubSeq(flat, Start0(builds[k], edge) + 1, Fin(builds[k], edge))
    BY DEF Spread
<1>8. Spread(other, builds, bodies, flat, limit, ends)
    <2>1. P + 1 >= 1
        BY <1>1
    <2>2. \A k \in 1..Len(builds) : bodies[k] = SubSeq(flat, Start0(builds[k], limit) + 1, Fin(builds[k], limit))
        BY <1>5, <1>7 DEF n
    <2>. QED
        BY <1>2, <1>6, <1>7, <2>1, <2>2 DEF Spread
<1>9. limit[P + 1] = limit[P]
    BY <1>1, <1>3
<1>10. EndOffset(builds[n], ends[n], limit) = EndOffset(builds[n], ends[n], edge)
    <2>1. n \in 1..n
        BY <1>1
    <2>. QED
        BY <1>5, <2>1
<1>. QED
    BY <1>2, <1>8, <1>9, <1>10 DEF P, n, other

\* The next build is put in the last page.
Zeros(used) == [i \in 1..(Align(used) + BuildSize - used) |-> 0]
EndsMore(P, n, ends) == [k \in 1..(n + 1) |-> IF k <= n THEN ends[k] ELSE P]

LEMMA ZeroBytes ==
    ASSUME NEW used \in Nat
    PROVE  /\ Zeros(used) \in Bytes /\ Len(Zeros(used)) = Align(used) + BuildSize - used
           /\ Len(Zeros(used)) > 0 /\ Align(used) \in Nat /\ Align(used) >= used
<1>1. Align(used) \in Nat /\ Align(used) >= used
    BY Aligned
<1>. DEFINE size == Align(used) + BuildSize - used
<1>2. size \in Nat /\ size > 0
    BY <1>1, Sizes
<1>. HIDE DEF size
<1>3. [i \in 1..size |-> 0] \in Bytes /\ Len([i \in 1..size |-> 0]) = size
    BY <1>2 DEF Bytes, Octets
<1>. QED
    BY <1>1, <1>2, <1>3 DEF size, Zeros

\* Where the next build is, before it is put there.
NextPlace(P, used, next) ==
    /\ next \in BuildRecords /\ next.page = P /\ next.offset = Align(used) /\ next.bytes = 0
    /\ Align(used) + BuildSize <= PageSize

Padded(P, edge, used, limit) ==
    /\ P \in Nat /\ P >= 1 /\ edge \in [0..P -> Nat] /\ edge[P - 1] <= edge[P]
    /\ used = PageHeader + edge[P] - edge[P - 1]
    /\ limit = [edge EXCEPT ![P] = @ + Len(Zeros(used))]

LEMMA NextWithin ==
    ASSUME NEW P, NEW edge, NEW used, NEW limit, Padded(P, edge, used, limit),
           NEW next, NextPlace(P, used, next)
    PROVE  /\ used \in Nat /\ limit \in [0..P -> Nat] /\ edge[P] < limit[P]
           /\ limit[P] = edge[P] + Len(Zeros(used)) /\ Further(P, edge, P, limit)
           /\ Start0(next, limit) = limit[P] /\ Fin(next, limit) = limit[P] /\ Within(P, next, limit, P)
           /\ EndOffset(next, P, limit) = Align(used) + BuildSize
<1>0. /\ P \in Nat /\ P >= 1 /\ edge \in [0..P -> Nat] /\ edge[P - 1] <= edge[P]
      /\ used = PageHeader + edge[P] - edge[P - 1]
      /\ limit = [edge EXCEPT ![P] = @ + Len(Zeros(used))]
    BY DEF Padded
<1>. USE <1>0
<1>. DEFINE e == edge[P]
            d == edge[P - 1]
            size == Len(Zeros(used))
            m == limit[P]
            g == Align(used)
<1>1. e \in Nat /\ d \in Nat /\ d <= e /\ P \in 0..P /\ P - 1 \in 0..P /\ P - 1 # P
    BY DEF Further
<1>2. used \in Nat /\ used = PageHeader + e - d
    <2>. HIDE DEF e, d
    <2>1. PageHeader + e - d \in Nat
        BY <1>1, Sizes
    <2>. QED
        BY <2>1 DEF e, d
<1>3. size \in Nat /\ size > 0 /\ size = g + BuildSize - used /\ g \in Nat /\ g >= used
    BY <1>2, ZeroBytes DEF Bytes
<1>4. limit \in [0..P -> Nat] /\ m = e + size /\ limit[P - 1] = d /\ \A p \in 0..(P - 1) : limit[p] = edge[p]
    <2>. HIDE DEF size
    <2>1. limit = [edge EXCEPT ![P] = @ + size]
        BY DEF size
    <2>2. \A p \in 0..(P - 1) : p \in 0..P /\ p # P
        OBVIOUS
    <2>. QED
        BY <1>1, <1>3, <2>1, <2>2
<1>5. next.page = P /\ next.offset = g /\ next.bytes = 0
    BY DEF NextPlace
<1>6. Start0(next, limit) = d + g + BuildSize - PageHeader
    BY <1>4, <1>5 DEF Start0
<1>. HIDE DEF e, d, m, size, g
<1>7. m = d + g + BuildSize - PageHeader /\ m \in Nat /\ e < m /\ used >= PageHeader
    BY <1>1, <1>2, <1>3, <1>4, Sizes
<1>8. Start0(next, limit) = m
    BY <1>6, <1>7
<1>9. Fin(next, limit) = m
    BY <1>5, <1>7, <1>8 DEF Fin
<1>10. EndOffset(next, P, limit) = g + BuildSize
    <2>1. EndOffset(next, P, limit) = m - d + PageHeader
        BY <1>4, <1>9 DEF EndOffset
    <2>2. m - d + PageHeader = g + BuildSize
        BY <1>1, <1>3, <1>7, Sizes
    <2>. QED
        BY <2>1, <2>2
<1>11. Within(P, next, limit, P)
    <2>1. P \in 1..P /\ P \in P..P /\ m <= m
        BY <1>7
    <2>2. g >= PageHeader
        BY <1>2, <1>3, <1>7, Sizes
    <2>. QED
        BY <1>5, <1>8, <1>9, <2>1, <2>2 DEF Within, m
<1>12. Further(P, edge, P, limit)
    <2>1. edge[P] <= limit[P]
        BY <1>1, <1>7 DEF e, m
    <2>. QED
        BY <1>4, <2>1 DEF Further
<1>. QED
    BY <1>2, <1>4, <1>7, <1>8, <1>9, <1>10, <1>11, <1>12 DEF e, m, size, g

LEMMA SpreadNext ==
    ASSUME NEW pages, NEW builds, NEW bodies, NEW flat, NEW edge, NEW ends,
           Spread(pages, builds, bodies, flat, edge, ends),
           Settled(Len(pages), builds[Len(builds)], ends[Len(builds)], edge),
           NEW used, used = BytesUsed(pages[Len(pages)]), NEW next, NextPlace(Len(pages), used, next)
    PROVE  /\ Spread(Longer(pages, Zeros(used)), Append(builds, next), Append(bodies, <<>>), flat \o Zeros(used),
                     [edge EXCEPT ![Len(pages)] = @ + Len(Zeros(used))], EndsMore(Len(pages), Len(builds), ends))
           /\ EndsMore(Len(pages), Len(builds), ends)[Len(builds) + 1] = Len(pages)
           /\ Len(Append(builds, next)) = Len(builds) + 1 /\ Append(builds, next)[Len(builds) + 1] = next
           /\ EndOffset(next, Len(pages), [edge EXCEPT ![Len(pages)] = @ + Len(Zeros(used))]) = Align(used) + BuildSize
           /\ used \in Nat
<1>. DEFINE P == Len(pages)
            n == Len(builds)
            zeros == Zeros(used)
            size == Len(zeros)
            limit == [edge EXCEPT ![P] = @ + size]
            to == EndsMore(P, n, ends)
            more == Append(builds, next)
            both == flat \o zeros
            body == Append(bodies, <<>>)
<1>1. /\ P \in Nat /\ P >= 1 /\ n \in Nat /\ n >= 1 /\ n \in 1..n /\ P \in 1..P
      /\ pages \in Seq(Bytes) /\ builds \in Seq(BuildRecords) /\ flat \in Bytes /\ Len(flat) \in Nat
      /\ edge \in [0..P -> Nat] /\ edge[P] = Len(flat) /\ Fin(builds[n], edge) = Len(flat)
    BY SpreadFacts DEF Bytes
<1>2. used = PageHeader + edge[P] - edge[P - 1] /\ edge[P - 1] <= edge[P]
    BY <1>1, PagedUsed DEF Spread
<1>. HIDE DEF P, n
<1>3. /\ used \in Nat /\ limit \in [0..P -> Nat] /\ edge[P] < limit[P]
      /\ limit[P] = edge[P] + size /\ Further(P, edge, P, limit)
      /\ Start0(next, limit) = limit[P] /\ Fin(next, limit) = limit[P] /\ Within(P, next, limit, P)
      /\ EndOffset(next, P, limit) = Align(used) + BuildSize
    <2>1. NextPlace(P, used, next)
        BY DEF P
    <2>2. Padded(P, edge, used, limit)
        BY <1>1, <1>2 DEF Padded
    <2>. HIDE DEF limit
    <2>3. /\ used \in Nat /\ limit \in [0..P -> Nat] /\ edge[P] < limit[P]
          /\ limit[P] = edge[P] + Len(Zeros(used)) /\ Further(P, edge, P, limit)
          /\ Start0(next, limit) = limit[P] /\ Fin(next, limit) = limit[P] /\ Within(P, next, limit, P)
          /\ EndOffset(next, P, limit) = Align(used) + BuildSize
        BY <2>1, <2>2, NextWithin
    <2>. QED
        BY <2>3
<1>4. zeros \in Bytes /\ size \in Nat
    BY <1>3, ZeroBytes DEF Bytes
<1>5. Paged(Longer(pages, zeros), both, limit) /\ Len(Longer(pages, zeros)) = P
    BY <1>1, <1>4, PagedLonger DEF Spread, P
<1>6. /\ more \in Seq(BuildRecords) /\ Len(more) = n + 1 /\ more[n + 1] = next
      /\ \A k \in 1..n : more[k] = builds[k]
    <2>1. next \in BuildRecords
        BY DEF NextPlace
    <2>. QED
        BY <1>1, <2>1, AppendProperties DEF n
<1>7. ends \in [1..n -> Nat] /\ to \in [1..(n + 1) -> Nat] /\ to[n + 1] = P /\ \A k \in 1..n : to[k] = ends[k]
    <2>1. ends \in [1..n -> Nat]
        BY DEF Spread, Placed, n
    <2>2. \A k \in 1..n : k <= n /\ k \in 1..(n + 1)
        BY <1>1
    <2>3. n + 1 \in 1..(n + 1) /\ ~(n + 1 <= n)
        BY <1>1
    <2>4. \A k \in 1..(n + 1) : k <= n => k \in 1..n
        BY <1>1
    <2>. QED
        BY <1>1, <2>1, <2>2, <2>3, <2>4 DEF EndsMore
<1>. HIDE DEF more, to, limit, zeros, size, both, body
<1>8. ASSUME NEW k \in 1..n
      PROVE  /\ k \in 1..(n + 1) /\ more[k] = builds[k] /\ to[k] = ends[k]
             /\ Within(P, builds[k], limit, ends[k]) /\ Start0(builds[k], limit) = Start0(builds[k], edge)
             /\ Fin(builds[k], limit) = Fin(builds[k], edge)
             /\ EndOffset(builds[k], ends[k], limit) = EndOffset(builds[k], ends[k], edge)
             /\ Start0(builds[k], edge) \in Nat /\ Fin(builds[k], edge) \in Nat
             /\ Start0(builds[k], edge) <= Len(flat) /\ Fin(builds[k], edge) <= Len(flat)
    <2>1. Within(P, builds[k], edge, ends[k]) /\ builds[k] \in BuildRecords
          /\ Start0(builds[k], edge) \in Nat /\ Fin(builds[k], edge) \in Nat
          /\ Start0(builds[k], edge) <= Fin(builds[k], edge) /\ Fin(builds[k], edge) <= Len(flat)
        BY SpreadFacts DEF P, n
    <2>2. /\ Within(P, builds[k], limit, ends[k]) /\ Start0(builds[k], limit) = Start0(builds[k], edge)
          /\ Fin(builds[k], limit) = Fin(builds[k], edge)
          /\ EndOffset(builds[k], ends[k], limit) = EndOffset(builds[k], ends[k], edge)
        BY <1>3, <2>1, WithinGrows
    <2>3. k \in 1..(n + 1)
        BY <1>1
    <2>4. Start0(builds[k], edge) <= Len(flat)
        BY <1>1, <2>1
    <2>. QED
        BY <1>6, <1>7, <2>1, <2>2, <2>3, <2>4
<1>9. \A k \in 1..(n + 1) : k = n + 1 \/ k \in 1..n
    BY <1>1
<1>10. Start0(more[n + 1], limit) = limit[P] /\ Len(flat) < limit[P] /\ limit[P] = Len(flat) + size /\ limit[P] \in Nat
    <2>1. P \in 0..P
        BY <1>1
    <2>. QED
        BY <1>1, <1>3, <1>6, <2>1
<1>11. Follows(builds[n], ends[n], limit, next)
    <2>. DEFINE o == EndOffset(builds[n], ends[n], edge)
                b == builds[n]
                e == ends[n]
    <2>1. EndOffset(b, e, limit) = o
        BY <1>1, <1>8
    <2>2. next.page = P /\ next.offset = Align(used) /\ Align(used) + BuildSize <= PageSize
        BY DEF NextPlace, P
    <2>3. Settled(P, b, e, edge)
        BY DEF P, n
    <2>4. o = Fin(b, edge) - edge[e - 1] + PageHeader /\ Fin(b, edge) = edge[P]
        BY <1>1 DEF EndOffset
    <2>5. edge[P] \in Nat /\ edge[P - 1] \in Nat
        BY <1>1
    <2>. HIDE DEF b
    <2>6. CASE e = P
        <3>1. o = used
            <4>. DEFINE x == edge[P]
                        y == edge[P - 1]
            <4>1. o = x - y + PageHeader /\ used = PageHeader + x - y /\ x \in Nat /\ y \in Nat
                BY <1>2, <2>4, <2>5, <2>6
            <4>. HIDE DEF o, x, y
            <4>. QED
                BY <4>1, Sizes
        <3>. HIDE DEF o, e
        <3>2. EndOffset(b, e, limit) = used
            BY <2>1, <3>1
        <3>3. Follows(b, e, limit, next)
            BY <2>2, <2>6, <3>2 DEF Follows
        <3>. QED
            BY <3>3 DEF b, e
    <2>7. CASE e # P
        <3>1. e = P - 1 /\ edge[P] = edge[P - 1] /\ Align(o) + BuildSize > PageSize
            BY <2>3, <2>7 DEF Settled, b
        <3>2. used = PageHeader
            <4>. DEFINE x == edge[P]
            <4>1. used = PageHeader + x - x /\ x \in Nat
                BY <1>2, <2>5, <3>1
            <4>. HIDE DEF x
            <4>. QED
                BY <4>1, Sizes
        <3>3. e + 1 = P
            BY <1>1, <3>1
        <3>. HIDE DEF o, e
        <3>4. ~(Align(o) + BuildSize <= PageSize)
            <4>1. o \in Nat
                BY <1>1, SpreadFacts DEF o, n, e
            <4>. DEFINE g == Align(o)
            <4>2. g \in Nat
                BY <4>1, Aligned
            <4>. HIDE DEF g
            <4>3. g + BuildSize > PageSize
                BY <3>1 DEF g
            <4>4. ~(g + BuildSize <= PageSize)
                BY <4>2, <4>3, Sizes
            <4>. QED
                BY <4>4 DEF g
        <3>5. next.page = e + 1 /\ next.offset = Align(PageHeader)
            BY <2>2, <3>2, <3>3
        <3>6. Follows(b, e, limit, next)
            BY <2>1, <3>4, <3>5 DEF Follows
        <3>. QED
            BY <3>6 DEF b, e
    <2>. QED
        BY <2>6, <2>7 DEF b
<1>12. Placed(P, more, limit, to)
    <2>1. \A k \in 1..(n + 1) : Within(P, more[k], limit, to[k])
        BY <1>3, <1>6, <1>7, <1>8, <1>9
    <2>2. ASSUME NEW i \in 1..(n + 1), NEW j \in 1..(n + 1), i < j
          PROVE  Start0(more[i], limit) < Start0(more[j], limit)
        <3>1. i \in 1..n
            BY <1>1, <2>2
        <3>2. CASE j \in 1..n
            <4>1. Start0(builds[i], edge) < Start0(builds[j], edge)
                BY <2>2, <3>1, <3>2 DEF Spread, Placed, n
            <4>. QED
                BY <1>8, <3>1, <3>2, <4>1
        <3>3. CASE j = n + 1
            <4>. DEFINE x == Start0(builds[i], edge)
                        y == limit[P]
                        z == Len(flat)
            <4>1. Start0(more[i], limit) = x /\ Start0(more[j], limit) = y
                BY <1>8, <1>10, <3>1, <3>3
            <4>2. x \in Nat /\ x <= z /\ z < y /\ z \in Nat /\ y \in Nat
                <5>1. x \in Nat /\ x <= z
                    BY <1>8, <3>1
                <5>2. z < y /\ z \in Nat /\ y \in Nat
                    BY <1>1, <1>10
                <5>. QED
                    BY <5>1, <5>2
            <4>. HIDE DEF x, y, z
            <4>3. x < y
                BY <4>2
            <4>. QED
                BY <4>1, <4>3
        <3>. QED
            BY <1>9, <3>2, <3>3
    <2>3. more[1].page = 1 /\ more[1].offset = Align(PageHeader)
        <3>1. 1 \in 1..n /\ builds[1].page = 1 /\ builds[1].offset = Align(PageHeader)
            BY <1>1 DEF Spread, Placed
        <3>. QED
            BY <1>6, <3>1
    <2>4. ASSUME NEW k \in 1..n
          PROVE  Follows(more[k], to[k], limit, more[k + 1])
        <3>1. CASE k = n
            BY <1>6, <1>8, <1>11, <3>1
        <3>2. CASE k # n
            <4>1. k \in 1..(n - 1) /\ k + 1 \in 1..n
                BY <1>1, <3>2
            <4>2. Follows(builds[k], ends[k], edge, builds[k + 1])
                BY <4>1 DEF Spread, Placed, n
            <4>3. Follows(builds[k], ends[k], limit, builds[k + 1])
                BY <1>8, <4>2 DEF Follows
            <4>. QED
                BY <1>8, <4>1, <4>3
        <3>. QED
            BY <3>1, <3>2
    <2>5. Fin(more[n + 1], limit) = limit[P] /\ n + 1 >= 1 /\ n + 1 - 1 = n
        BY <1>1, <1>3, <1>6
    <2>6. Len(more) = n + 1 /\ Len(more) - 1 = n /\ Len(more) >= 1
        BY <1>1, <1>6
    <2>7. /\ more \in Seq(BuildRecords) /\ to \in [1..Len(more) -> Nat]
          /\ \A k \in 1..Len(more) : Within(P, more[k], limit, to[k])
        BY <1>6, <1>7, <2>1, <2>6
    <2>8. \A i \in 1..Len(more), j \in 1..Len(more) : i < j => Start0(more[i], limit) < Start0(more[j], limit)
        BY <2>2, <2>6
    <2>9. \A k \in 1..(Len(more) - 1) : Follows(more[k], to[k], limit, more[k + 1])
        BY <2>4, <2>6
    <2>10. Fin(more[Len(more)], limit) = limit[P]
        BY <2>5, <2>6
    <2>. QED
        BY <2>3, <2>6, <2>7, <2>8, <2>9, <2>10 DEF Placed
<1>13. /\ bodies \in Seq(Bytes) /\ Len(bodies) = n
       /\ \A k \in 1..n : bodies[k] = SubSeq(flat, Start0(builds[k], edge) + 1, Fin(builds[k], edge))
    BY DEF Spread, n
<1>14. /\ body \in Seq(Bytes) /\ Len(body) = n + 1 /\ body[n + 1] = <<>>
       /\ \A k \in 1..n : body[k] = bodies[k]
    BY <1>13, Nothings, AppendProperties DEF body
<1>15. ASSUME NEW k \in 1..(n + 1)
       PROVE  body[k] = SubSeq(both, Start0(more[k], limit) + 1, Fin(more[k], limit))
    <2>1. CASE k \in 1..n
        <3>. DEFINE s == Start0(builds[k], edge)
                    f == Fin(builds[k], edge)
        <3>1. body[k] = SubSeq(flat, s + 1, f) /\ s \in Nat /\ f \in Nat /\ f <= Len(flat)
              /\ Start0(more[k], limit) = s /\ Fin(more[k], limit) = f
            BY <1>8, <1>13, <1>14, <2>1
        <3>. HIDE DEF s, f
        <3>2. SubSeq(flat \o zeros, s + 1, f) = SubSeq(flat, s + 1, f)
            BY <1>1, <1>4, <3>1, SameSlice
        <3>. QED
            BY <3>1, <3>2 DEF both
    <2>2. CASE k = n + 1
        <3>. DEFINE x == limit[P]
        <3>1. Start0(more[k], limit) = x /\ Fin(more[k], limit) = x /\ x \in Nat /\ body[k] = <<>>
            BY <1>1, <1>3, <1>6, <1>14, <2>2
        <3>. HIDE DEF x
        <3>2. x + 1 \in Int /\ x \in Int /\ x < x + 1
            BY <3>1
        <3>3. SubSeq(both, x + 1, x) = <<>>
            BY <3>2, SubSeqEmpty
        <3>. QED
            BY <3>1, <3>3
    <2>. QED
        BY <1>9, <2>1, <2>2
<1>16. Spread(Longer(pages, zeros), more, body, both, limit, to)
    BY <1>1, <1>5, <1>6, <1>12, <1>14, <1>15 DEF Spread
<1>. QED
    BY <1>3, <1>6, <1>7, <1>16 DEF P, n, limit, to, more, both, body, zeros, size

\* The first build is put in the first page.
LEMMA SpreadFirst ==
    ASSUME NEW next, NextPlace(1, PageHeader, next)
    PROVE  \E flat, edge, ends :
            /\ Spread(Longer(<< <<>> >>, Zeros(PageHeader)), <<next>>, << <<>> >>, flat, edge, ends)
            /\ ends[1] = 1 /\ EndOffset(next, 1, edge) = Align(PageHeader) + BuildSize
<1>. DEFINE used == PageHeader
            first == << <<>> >>
            zeros == Zeros(used)
            start == [p \in 0..1 |-> 0]
            limit == [start EXCEPT ![1] = @ + Len(zeros)]
            to == [k \in 1..1 |-> 1]
            pages == Longer(first, zeros)
            builds == <<next>>
            bodies == << <<>> >>
<1>1. used \in Nat /\ zeros \in Bytes /\ Len(zeros) \in Nat
    BY Sizes, ZeroBytes DEF Bytes
<1>2. Paged(first, <<>>, start) /\ Len(first) = 1
    <2>1. first \in Seq(Bytes) /\ Len(first) = 1 /\ first[1] = <<>>
        BY Nothings
    <2>2. start \in [0..1 -> Nat] /\ start[0] = 0 /\ start[1] = 0 /\ Len(<<>>) = 0
        OBVIOUS
    <2>3. SubSeq(<<>>, 1, 0) = <<>>
        BY SubSeqEmpty
    <2>. HIDE DEF first, start
    <2>4. \A p \in 1..1 : first[p] = SubSeq(<<>>, start[p - 1] + 1, start[p])
        <3>1. ASSUME NEW p \in 1..1
              PROVE  first[p] = SubSeq(<<>>, start[p - 1] + 1, start[p])
            <4>1. p = 1 /\ p - 1 = 0
                OBVIOUS
            <4>2. start[p - 1] + 1 = 1 /\ start[p] = 0 /\ first[p] = <<>>
                BY <2>1, <2>2, <4>1
            <4>. QED
                BY <2>3, <4>2
        <3>. QED
            BY <3>1
    <2>5. \A p \in 0..1 : start[p] = 0
        BY DEF start
    <2>. QED
        BY <2>1, <2>2, <2>4, <2>5, Nothings DEF Paged
<1>3. Padded(1, start, used, limit)
    <2>1. start \in [0..1 -> Nat] /\ start[0] = 0 /\ start[1] = 0
        OBVIOUS
    <2>. HIDE DEF start
    <2>2. 1 - 1 = 0 /\ used + 0 - 0 = used
        BY <1>1
    <2>. QED
        BY <2>1, <2>2 DEF Padded
<1>4. Paged(pages, <<>> \o zeros, limit) /\ Len(pages) = 1
    <2>. HIDE DEF first, start, zeros
    <2>1. Len(first) >= 1
        BY <1>2
    <2>2. /\ Paged(Longer(first, zeros), <<>> \o zeros, [start EXCEPT ![Len(first)] = @ + Len(zeros)])
          /\ Len(Longer(first, zeros)) = Len(first)
        BY <1>1, <1>2, <2>1, PagedLonger
    <2>. QED
        BY <1>2, <2>2
<1>. HIDE DEF limit, pages, zeros, used, first
<1>5. /\ limit \in [0..1 -> Nat] /\ Start0(next, limit) = limit[1] /\ Fin(next, limit) = limit[1]
      /\ Within(1, next, limit, 1) /\ EndOffset(next, 1, limit) = Align(used) + BuildSize
    <2>. DEFINE one == 1
    <2>1. NextPlace(one, used, next) /\ Padded(one, start, used, limit)
        BY <1>3 DEF used
    <2>. HIDE DEF start, one
    <2>2. /\ limit \in [0..one -> Nat] /\ Start0(next, limit) = limit[one] /\ Fin(next, limit) = limit[one]
          /\ Within(one, next, limit, one) /\ EndOffset(next, one, limit) = Align(used) + BuildSize
        BY <2>1, NextWithin
    <2>. QED
        BY <2>2 DEF one
<1>6. /\ builds \in Seq(BuildRecords) /\ Len(builds) = 1 /\ builds[1] = next
      /\ next.page = 1 /\ next.offset = Align(PageHeader) /\ to \in [1..1 -> Nat] /\ to[1] = 1
    BY DEF NextPlace, used
<1>7. bodies \in Seq(Bytes) /\ Len(bodies) = 1 /\ bodies[1] = <<>>
    BY Nothings
<1>. HIDE DEF builds, bodies, to
<1>8. \A k \in 1..1 : k = 1
    OBVIOUS
<1>9. Placed(1, builds, limit, to)
    <2>1. \A k \in 1..1 : Within(1, builds[k], limit, to[k])
        BY <1>5, <1>6, <1>8
    <2>2. \A i \in 1..1, j \in 1..1 : ~(i < j)
        OBVIOUS
    <2>3. 1 - 1 = 0 /\ \A k \in 1..0 : FALSE
        OBVIOUS
    <2>. QED
        BY <1>5, <1>6, <2>1, <2>2, <2>3 DEF Placed
<1>10. SubSeq(<<>> \o zeros, limit[1] + 1, limit[1]) = <<>>
    <2>. DEFINE x == limit[1]
    <2>1. x \in Nat
        BY <1>5
    <2>. HIDE DEF x
    <2>2. x + 1 \in Int /\ x \in Int /\ x < x + 1
        BY <2>1
    <2>3. SubSeq(<<>> \o zeros, x + 1, x) = <<>>
        BY <2>2, SubSeqEmpty
    <2>. QED
        BY <2>3 DEF x
<1>11. Spread(pages, builds, bodies, <<>> \o zeros, limit, to)
    <2>1. \A k \in 1..1 : bodies[k] = SubSeq(<<>> \o zeros, Start0(builds[k], limit) + 1, Fin(builds[k], limit))
        BY <1>5, <1>6, <1>7, <1>8, <1>10
    <2>. QED
        BY <1>4, <1>6, <1>7, <1>9, <2>1 DEF Spread
<1>12. Spread(pages, builds, bodies, <<>> \o zeros, limit, to) /\ to[1] = 1
       /\ EndOffset(next, 1, limit) = Align(PageHeader) + BuildSize
    BY <1>5, <1>6, <1>11 DEF used
<1>. HIDE DEF to
<1>. QED
    BY <1>12 DEF pages, builds, bodies, zeros, used, first

------------------------------------------------------------------------------------
(* Parts of what has been written, and the build a place in the pages belongs to. *)

\* A part of a part, and two parts that meet.
LEMMA SliceOfSlice ==
    ASSUME NEW flat \in Bytes, NEW a \in Nat, NEW b \in Nat, a <= b, b <= Len(flat),
           NEW i \in Nat, NEW j \in Nat, i <= j, a + j <= b
    PROVE  SubSeq(SubSeq(flat, a + 1, b), i + 1, j) = SubSeq(flat, a + i + 1, a + j)
<1>1. Len(flat) \in Nat /\ flat \in Seq(Octets)
    BY DEF Bytes
<1>2. CASE i = j
    <2>1. SubSeq(SubSeq(flat, a + 1, b), i + 1, j) = <<>>
        <3>1. i + 1 \in Int /\ j \in Int /\ j < i + 1
            BY <1>2
        <3>. QED
            BY <3>1, SubSeqEmpty
    <2>2. SubSeq(flat, a + i + 1, a + j) = <<>>
        <3>1. a + i + 1 \in Int /\ a + j \in Int /\ a + j < a + i + 1
            BY <1>2
        <3>. QED
            BY <3>1, SubSeqEmpty
    <2>. QED
        BY <2>1, <2>2
<1>3. CASE i < j
    <2>1. a + 1 \in 1..Len(flat) /\ b \in 1..Len(flat) /\ i + 1 \in 1..(b - (a + 1) + 1) /\ j \in 1..(b - (a + 1) + 1)
        BY <1>1, <1>3
    <2>2. SubSeq(SubSeq(flat, a + 1, b), i + 1, j) = SubSeq(flat, (a + 1) + (i + 1) - 1, (a + 1) + j - 1)
        BY <1>1, <2>1, SubSeqOfSubSeq
    <2>3. (a + 1) + (i + 1) - 1 = a + i + 1 /\ (a + 1) + j - 1 = a + j
        OBVIOUS
    <2>. QED
        BY <2>2, <2>3
<1>. QED
    BY <1>2, <1>3

LEMMA SlicesJoin ==
    ASSUME NEW flat \in Bytes, NEW a \in Nat, NEW b \in Nat, NEW c \in Nat, a <= b, b <= c, c <= Len(flat)
    PROVE  /\ SubSeq(flat, a + 1, b) \o SubSeq(flat, b + 1, c) = SubSeq(flat, a + 1, c)
           /\ SubSeq(flat, a + 1, b) \in Bytes /\ SubSeq(flat, b + 1, c) \in Bytes
<1>1. flat \in Seq(Octets) /\ Len(flat) \in Nat
    BY DEF Bytes
<1>2. a + 1 \in 1..(Len(flat) + 1) /\ b \in (a + 1 - 1)..Len(flat) /\ c \in b..Len(flat)
    BY <1>1
<1>3. SubSeq(flat, a + 1, b) \o SubSeq(flat, b + 1, c) = SubSeq(flat, a + 1, c)
    BY <1>1, <1>2, ConcatAdjacentSubSeq
<1>4. \A i \in 1..Len(flat) : flat[i] \in Octets
    BY <1>1
<1>5. SubSeq(flat, a + 1, b) \in Bytes
    <2>1. a + 1 \in Int /\ b \in Int /\ \A i \in (a + 1)..b : flat[i] \in Octets
        BY <1>1, <1>4
    <2>. QED
        BY <2>1, SubSeqProperties DEF Bytes
<1>6. SubSeq(flat, b + 1, c) \in Bytes
    <2>1. b + 1 \in Int /\ c \in Int /\ \A i \in (b + 1)..c : flat[i] \in Octets
        BY <1>1, <1>4
    <2>. QED
        BY <2>1, SubSeqProperties DEF Bytes
<1>. QED
    BY <1>3, <1>5, <1>6

\* A page freed.
LEMMA HoldsFree ==
    ASSUME NEW w, NEW bytes, Holds(w, bytes)
    PROVE  Holds(FreePage(w), bytes) /\ FreePage(w).heap = w.heap - 1 /\ FreePage(w).current = w.current
           /\ FreePage(w).sink = w.sink /\ FreePage(w).partial = w.partial /\ FreePage(w).size = w.size
           /\ FreePage(w).pages = w.pages /\ FreePage(w).builds = w.builds /\ FreePage(w).stash = w.stash
           /\ FreePage(w).error = w.error
<1>. DEFINE x == FreePage(w)
<1>1. IsWriter(w)
    BY DEF Holds
<1>2. /\ IsWriter(x) /\ x.heap = w.heap - 1 /\ x.current = w.current /\ x.sink = w.sink /\ x.partial = w.partial
      /\ x.size = w.size /\ x.pages = w.pages /\ x.builds = w.builds /\ x.stash = w.stash /\ x.error = w.error
      /\ x.out = w.out /\ x.buffer = w.buffer
    BY <1>1 DEF FreePage, IsWriter, Fields
<1>. HIDE DEF x
<1>3. Holds(x, bytes)
    BY <1>2 DEF Holds
<1>. QED
    BY <1>2, <1>3 DEF x

\* mpack_builder_resolve() has come as far as this byte of the pages, in this page, with
\* bytes left to copy up to another.
Copied(c, pages, flat, edge, from, to, bytes, page, at) ==
    /\ c = [w |-> c.w, page |-> c.page, offset |-> c.offset, left |-> c.left]
    /\ c.page = page /\ c.offset = at - edge[page - 1] + PageHeader /\ c.left = to - at
    /\ page \in 1..Len(pages) /\ at \in from..to /\ from \in Nat /\ to \in Nat /\ to <= Len(flat)
    /\ edge[page - 1] <= at /\ at <= edge[page]
    /\ Holds(c.w, bytes \o SubSeq(flat, from + 1, at)) /\ c.w.current = 0 /\ bytes \in Bytes

LEMMA CopyStep ==
    ASSUME NEW pages, NEW flat, NEW edge, Paged(pages, flat, edge),
           NEW c, NEW from, NEW to, NEW bytes, NEW page, NEW at,
           Copied(c, pages, flat, edge, from, to, bytes, page, at)
    PROVE  /\ Copied(CopyPage(c, pages), pages, flat, edge, from, to, bytes, page, Least(edge[page], to))
           /\ Beside(c.w, CopyPage(c, pages).w)
<1>. DEFINE d == edge[page - 1]
            e == edge[page]
            next == Least(e, to)
            x == CopyPage(c, pages)
            k == c.offset
            l == c.left
            u == BytesUsed(pages[page])
            o == k - PageHeader
            step == Least(BytesUsed(pages[c.page]) - k, l)
<1>1. /\ page \in 1..Len(pages) /\ at \in Nat /\ from \in Nat /\ to \in Nat /\ to <= Len(flat)
      /\ from <= at /\ at <= to /\ d <= at /\ at <= e
      /\ c.page = page /\ k = at - d + PageHeader /\ l = to - at
    BY DEF Copied
<1>2. /\ BytesUsed(pages[page]) = PageHeader + e - d /\ d \in Nat /\ e \in Nat /\ d <= e /\ e <= Len(flat)
      /\ pages[page] = SubSeq(flat, d + 1, e) /\ flat \in Bytes /\ Len(flat) \in Nat
    <2>1. page \in 1..Len(pages)
        BY <1>1
    <2>2. /\ BytesUsed(pages[page]) = PageHeader + e - d /\ d \in Nat /\ e \in Nat /\ d <= e /\ e <= Len(flat)
        BY <2>1, PagedUsed
    <2>3. pages[page] = SubSeq(flat, d + 1, e) /\ flat \in Bytes /\ Len(flat) \in Nat
        BY <2>1 DEF Paged, Bytes
    <2>. QED
        BY <2>2, <2>3
<1>3. o = at - d /\ step = Least(u - k, l)
    <2>1. step = Least(u - k, l)
        BY <1>1
    <2>2. o = k - PageHeader /\ k = at - d + PageHeader /\ d \in Nat
        BY <1>1, <1>2
    <2>. HIDE DEF d, o, k, e
    <2>3. o = at - d
        BY <1>1, <2>2, Sizes
    <2>. QED
        BY <2>1, <2>3
<1>4. x = [w |-> WriteNative(c.w, SubSeq(pages[page], o + 1, o + step)), page |-> page,
           offset |-> k + step, left |-> l - step]
    BY <1>1 DEF CopyPage
<1>a. u = PageHeader + e - d
    BY <1>2
<1>. HIDE DEF d, e, o, step, x, k, l, u
<1>5. u - k = e - at /\ l = to - at
    BY <1>1, <1>2, <1>a, Sizes
<1>6. step = Least(e - at, to - at) /\ step \in Nat /\ at + step = next /\ next \in Nat /\ next <= to /\ next <= e
      /\ at <= next
    <2>1. step = Least(e - at, to - at)
        BY <1>3, <1>5
    <2>2. at \in Nat /\ to \in Nat /\ e \in Nat /\ at <= to /\ at <= e
        BY <1>1, <1>2
    <2>3. /\ Least(e - at, to - at) \in Nat /\ at + Least(e - at, to - at) = next
          /\ next \in Nat /\ next <= to /\ next <= e /\ at <= next
        BY <2>2 DEF Least
    <2>. QED
        BY <2>1, <2>3
<1>. HIDE DEF next
<1>7. SubSeq(pages[page], o + 1, o + step) = SubSeq(flat, at + 1, next)
    <2>a. o = at - d /\ d <= at /\ at \in Nat /\ d \in Nat /\ step \in Nat /\ at + step = next /\ next <= e /\ e \in Nat
        BY <1>1, <1>2, <1>3, <1>6
    <2>1. o \in Nat /\ o + step \in Nat /\ o <= o + step /\ d + (o + step) <= e /\ d + o + 1 = at + 1 /\ d + (o + step) = next
        BY <2>a
    <2>2. SubSeq(SubSeq(flat, d + 1, e), o + 1, o + step) = SubSeq(flat, d + o + 1, d + (o + step))
        <3>1. flat \in Bytes /\ d \in Nat /\ e \in Nat /\ d <= e /\ e <= Len(flat)
            BY <1>2
        <3>. DEFINE j == o + step
        <3>2. o \in Nat /\ j \in Nat /\ o <= j /\ d + j <= e
            BY <2>1
        <3>. HIDE DEF j
        <3>3. SubSeq(SubSeq(flat, d + 1, e), o + 1, j) = SubSeq(flat, d + o + 1, d + j)
            BY <3>1, <3>2, SliceOfSlice
        <3>. QED
            BY <3>3 DEF j
    <2>. QED
        BY <1>2, <2>1, <2>2
<1>. DEFINE first == SubSeq(flat, from + 1, at)
            second == SubSeq(flat, at + 1, next)
<1>8. first \o second = SubSeq(flat, from + 1, next) /\ first \in Bytes /\ second \in Bytes
    <2>a. next <= e /\ e <= Len(flat) /\ next \in Nat /\ e \in Nat /\ Len(flat) \in Nat
        BY <1>2, <1>6
    <2>1. next <= Len(flat)
        BY <2>a
    <2>2. flat \in Bytes /\ from \in Nat /\ at \in Nat /\ next \in Nat /\ from <= at /\ at <= next
        BY <1>1, <1>2, <1>6
    <2>. QED
        BY <2>1, <2>2, SlicesJoin
<1>. HIDE DEF first, second
<1>9. Holds(c.w, bytes \o first) /\ c.w.current = 0 /\ bytes \in Bytes
    BY DEF Copied, first
<1>10. Holds(WriteNative(c.w, second), (bytes \o first) \o second) /\ Beside(c.w, WriteNative(c.w, second))
    BY <1>8, <1>9, HoldsNative
<1>11. (bytes \o first) \o second = bytes \o (first \o second)
    BY <1>8, <1>9, Rejoin
<1>12. x = [w |-> WriteNative(c.w, second), page |-> page, offset |-> k + step, left |-> l - step]
    BY <1>4, <1>7 DEF second
<1>13. x.w = WriteNative(c.w, second) /\ x.page = page /\ x.offset = k + step /\ x.left = l - step
       /\ x = [w |-> x.w, page |-> x.page, offset |-> x.offset, left |-> x.left]
    BY <1>12
<1>14. x.offset = next - d + PageHeader /\ x.left = to - next
    <2>1. k = at - d + PageHeader /\ l = to - at /\ at \in Nat /\ d \in Nat /\ to \in Nat /\ step \in Nat
          /\ at + step = next /\ next \in Nat
        BY <1>1, <1>2, <1>6
    <2>2. k + step = next - d + PageHeader /\ l - step = to - next
        BY <2>1, Sizes
    <2>. QED
        BY <1>13, <2>2
<1>15. Holds(x.w, bytes \o SubSeq(flat, from + 1, next)) /\ x.w.current = 0
    BY <1>8, <1>9, <1>10, <1>11, <1>13 DEF Beside
<1>16. next \in from..to /\ d <= next /\ next <= e
    <2>1. /\ next \in Nat /\ at \in Nat /\ from \in Nat /\ to \in Nat /\ d \in Nat
          /\ from <= at /\ d <= at /\ at <= next /\ next <= to /\ next <= e
        BY <1>1, <1>2, <1>6
    <2>. QED
        BY <2>1
<1>17. Copied(x, pages, flat, edge, from, to, bytes, page, next)
    BY <1>1, <1>9, <1>13, <1>14, <1>15, <1>16 DEF Copied, d, e
<1>. QED
    BY <1>10, <1>13, <1>17 DEF x, next, e

LEMMA TurnStep ==
    ASSUME NEW pages, NEW flat, NEW edge, Paged(pages, flat, edge),
           NEW c, NEW from, NEW to, NEW bytes, NEW page, NEW at,
           Copied(c, pages, flat, edge, from, to, bytes, page, at), at = edge[page], page < Len(pages)
    PROVE  /\ Copied(TurnPage(c), pages, flat, edge, from, to, bytes, page + 1, at)
           /\ TurnPage(c).w = FreePage(c.w)
<1>. DEFINE x == TurnPage(c)
<1>1. /\ page \in 1..Len(pages) /\ Len(pages) \in Nat /\ c.page = page /\ at \in Nat
      /\ c = [w |-> c.w, page |-> c.page, offset |-> c.offset, left |-> c.left]
    BY DEF Copied, Paged
<1>2. x = [w |-> FreePage(c.w), page |-> page + 1, offset |-> PageHeader, left |-> c.left]
    <2>. DEFINE u == c.w
                v == c.page
                o == c.offset
                l == c.left
                b == [w |-> u, page |-> v, offset |-> o, left |-> l]
    <2>1. c = b /\ v = page
        BY <1>1
    <2>2. x = [b EXCEPT !.w = FreePage(@), !.page = @ + 1, !.offset = PageHeader]
        BY <2>1 DEF TurnPage
    <2>. HIDE DEF u, v, o, l, x
    <2>3. x = [w |-> FreePage(u), page |-> v + 1, offset |-> PageHeader, left |-> l]
        BY <2>2
    <2>. QED
        BY <2>1, <2>3 DEF u, l
<1>3. /\ x.w = FreePage(c.w) /\ x.page = page + 1 /\ x.offset = PageHeader /\ x.left = c.left
      /\ x = [w |-> x.w, page |-> x.page, offset |-> x.offset, left |-> x.left]
    BY <1>2
<1>. HIDE DEF x
<1>4. page + 1 \in 1..Len(pages) /\ page + 1 - 1 = page
    BY <1>1
<1>5. edge[page + 1] \in Nat /\ edge[page] <= edge[page + 1]
    <2>. DEFINE q == page + 1
    <2>1. q \in 1..Len(pages) /\ q - 1 = page
        BY <1>1, <1>4
    <2>. HIDE DEF q
    <2>2. edge[q] \in Nat /\ edge[q - 1] <= edge[q]
        BY <2>1, PagedUsed
    <2>. QED
        BY <2>1, <2>2 DEF q
<1>6. x.offset = at - edge[page + 1 - 1] + PageHeader
    <2>1. at - at + PageHeader = PageHeader
        BY <1>1, Sizes
    <2>. QED
        BY <1>3, <1>4, <2>1
<1>7. Holds(x.w, bytes \o SubSeq(flat, from + 1, at)) /\ x.w.current = 0
    BY <1>3, HoldsFree DEF Copied
<1>8. edge[page + 1 - 1] <= at /\ at <= edge[page + 1]
    BY <1>1, <1>4, <1>5
<1>9. x.left = to - at /\ at \in from..to /\ from \in Nat /\ to \in Nat /\ to <= Len(flat) /\ bytes \in Bytes
    BY <1>3 DEF Copied
<1>. QED
    BY <1>3, <1>4, <1>6, <1>7, <1>8, <1>9 DEF Copied, x

\* What the walk through the pages leaves alone.
Walked(w, x) ==
    /\ x.sink = w.sink /\ x.partial = w.partial /\ x.current = w.current /\ x.stash = w.stash
    /\ x.pages = w.pages /\ x.builds = w.builds
    /\ w.sink = "fixed" => x.size = w.size

LEMMA WalkedOn ==
    ASSUME NEW w, NEW x, NEW y, Walked(w, x), Walked(x, y)
    PROVE  Walked(w, y)
BY DEF Walked

LEMMA WalkedBeside ==
    ASSUME NEW w, NEW x, Beside(w, x)
    PROVE  Walked(w, x) /\ x.heap = w.heap
BY DEF Walked, Beside

LEMMA WalkedFree ==
    ASSUME NEW w, NEW bytes, Holds(w, bytes)
    PROVE  Walked(w, FreePage(w))
BY HoldsFree DEF Walked

Copying(w, pages, at, left, f, n) ==
    [m \in 0..n |->
        IF m = 0 THEN CopyPage([w |-> w, page |-> at.page, offset |-> at.offset, left |-> left], pages)
        ELSE LET c == f[m - 1] IN IF c.left = 0 THEN c ELSE CopyPage(TurnPage(c), pages)]

LEMMA CopyExists ==
    ASSUME NEW w, NEW pages, NEW at, NEW left, NEW n \in Nat
    PROVE  \E f : f = Copying(w, pages, at, left, f, n)
<1>. DEFINE first == CopyPage([w |-> w, page |-> at.page, offset |-> at.offset, left |-> left], pages)
            Go(c) == IF c.left = 0 THEN c ELSE CopyPage(TurnPage(c), pages)
            F(f, m) == [i \in 0..m |-> IF i = 0 THEN first ELSE Go(f[i - 1])]
            S == {m \in Nat : ~\E f : f = F(f, m)}
<1>. HIDE DEF first, Go
<1>1. SUFFICES ASSUME S # {}
               PROVE  FALSE
    <2>1. SUFFICES ASSUME S = {}
                   PROVE  \E f : f = Copying(w, pages, at, left, f, n)
        OBVIOUS
    <2>2. PICK f : f = F(f, n)
        BY <2>1
    <2>3. F(f, n) = Copying(w, pages, at, left, f, n)
        BY DEF Copying, first, Go
    <2>4. f = Copying(w, pages, at, left, f, n)
        BY <2>2, <2>3
    <2>. QED
        BY <2>4
<1>2. PICK m \in S : \A i \in S : m <= i
    BY <1>1, LeastNumber
<1>3. m # 0
    <2>1. [i \in 0..0 |-> first] = F([i \in 0..0 |-> first], 0)
        OBVIOUS
    <2>. QED
        BY <2>1
<1>4. m - 1 \in Nat /\ m - 1 \notin S
    <2>1. m \in Nat
        OBVIOUS
    <2>. HIDE DEF S
    <2>. QED
        BY <1>2, <1>3, <2>1
<1>5. PICK f : f = F(f, m - 1)
    BY <1>4
<1>. DEFINE next == [i \in 0..m |-> IF i = 0 THEN first ELSE Go(f[i - 1])]
<1>6. \A i \in 0..(m - 1) : next[i] = f[i]
    <2>. SUFFICES ASSUME NEW i \in 0..(m - 1)
                  PROVE  next[i] = f[i]
        OBVIOUS
    <2>1. f[i] = IF i = 0 THEN first ELSE Go(f[i - 1])
        BY <1>5
    <2>2. i \in 0..m
        OBVIOUS
    <2>. QED
        BY <2>1, <2>2
<1>7. next = F(next, m)
    <2>1. \A i \in 0..m : i # 0 => i - 1 \in 0..(m - 1)
        OBVIOUS
    <2>2. \A i \in 0..m : i # 0 => next[i - 1] = f[i - 1]
        <3>. HIDE DEF next
        <3>. QED
            BY <1>6, <2>1
    <2>. QED
        BY <2>2
<1>. QED
    BY <1>7

LEMMA CopySteps ==
    ASSUME NEW w, NEW pages, NEW at, NEW left, Len(pages) - at.page \in Nat
    PROVE  \E f :
            /\ CopyPages(w, pages, at, left) = f[Len(pages) - at.page]
            /\ f[0] = CopyPage([w |-> w, page |-> at.page, offset |-> at.offset, left |-> left], pages)
            /\ \A n \in 1..(Len(pages) - at.page) :
                f[n] = IF f[n - 1].left = 0 THEN f[n - 1] ELSE CopyPage(TurnPage(f[n - 1]), pages)
<1>. DEFINE N == Len(pages) - at.page
            C(f) == Copying(w, pages, at, left, f, N)
            f == CHOOSE g : g = C(g)
<1>1. f = C(f)
    BY CopyExists
<1>2. CopyPages(w, pages, at, left) = f[N]
    BY DEF CopyPages, Copying
<1>. HIDE DEF f, N
<1>3. f[0] = CopyPage([w |-> w, page |-> at.page, offset |-> at.offset, left |-> left], pages)
    BY <1>1 DEF Copying, N
<1>4. ASSUME NEW n \in 1..N
      PROVE  f[n] = IF f[n - 1].left = 0 THEN f[n - 1] ELSE CopyPage(TurnPage(f[n - 1]), pages)
    <2>1. n \in 0..N /\ n # 0
        OBVIOUS
    <2>. QED
        BY <1>1, <2>1 DEF Copying
<1>. QED
    BY <1>2, <1>3, <1>4 DEF N

\* The walk behind one build.
CopyInvariant(w, pages, flat, edge, from, to, bytes, page, c, n) ==
    \E g, at :
        /\ Copied(c, pages, flat, edge, from, to, bytes, g, at) /\ at = Least(edge[g], to)
        /\ g = page \/ edge[g - 1] < to
        /\ g = page + n \/ at = to
        /\ g >= page /\ c.w.heap = w.heap - (g - page) /\ Walked(w, c.w)

LEMMA CopyGoesOn ==
    ASSUME NEW pages, NEW flat, NEW edge, Paged(pages, flat, edge), NEW w, w.heap \in Int,
           NEW from, NEW to, NEW bytes, NEW page \in Nat, NEW c, NEW n \in Nat, n < Len(pages) - page,
           CopyInvariant(w, pages, flat, edge, from, to, bytes, page, c, n)
    PROVE  CopyInvariant(w, pages, flat, edge, from, to, bytes, page,
                         IF c.left = 0 THEN c ELSE CopyPage(TurnPage(c), pages), n + 1)
<1>1. PICK g, at :
        /\ Copied(c, pages, flat, edge, from, to, bytes, g, at) /\ at = Least(edge[g], to)
        /\ g = page \/ edge[g - 1] < to
        /\ g = page + n \/ at = to
        /\ g >= page /\ c.w.heap = w.heap - (g - page) /\ Walked(w, c.w)
    BY DEF CopyInvariant
<1>2. /\ g \in 1..Len(pages) /\ at \in Nat /\ to \in Nat /\ at <= to /\ c.left = to - at /\ Len(pages) \in Nat
    <2>1. at \in from..to /\ from \in Nat /\ to \in Nat /\ g \in 1..Len(pages)
        BY <1>1 DEF Copied
    <2>2. at \in Nat /\ at <= to
        BY <2>1
    <2>3. Len(pages) \in Nat
        BY DEF Paged
    <2>4. c.left = to - at
        BY <1>1 DEF Copied
    <2>. QED
        BY <2>1, <2>2, <2>3, <2>4
<1>3. CASE c.left = 0
    <2>1. at = to
        <3>. DEFINE l == c.left
        <3>1. l = to - at /\ l = 0
            BY <1>2, <1>3
        <3>. HIDE DEF l
        <3>. QED
            BY <1>2, <3>1
    <2>. QED
        BY <1>1, <1>3, <2>1 DEF CopyInvariant
<1>4. CASE c.left # 0
    <2>. DEFINE t == TurnPage(c)
                x == CopyPage(t, pages)
                next == Least(edge[g + 1], to)
    <2>1. at # to
        <3>. DEFINE l == c.left
        <3>1. l = to - at /\ l # 0
            BY <1>2, <1>4
        <3>. HIDE DEF l
        <3>. QED
            BY <1>2, <3>1
    <2>2. g = page + n /\ at = edge[g] /\ at < to /\ g < Len(pages)
        <3>1. at = edge[g]
            BY <1>1, <2>1 DEF Least
        <3>2. g = page + n
            BY <1>1, <2>1
        <3>. QED
            BY <1>2, <2>1, <3>1, <3>2
    <2>3. Copied(t, pages, flat, edge, from, to, bytes, g + 1, at) /\ t.w = FreePage(c.w)
        BY <1>1, <2>2, TurnStep
    <2>4. Copied(x, pages, flat, edge, from, to, bytes, g + 1, next) /\ Beside(t.w, x.w)
        <3>. DEFINE q == g + 1
        <3>1. Copied(t, pages, flat, edge, from, to, bytes, q, at)
            BY <2>3
        <3>. HIDE DEF q, t
        <3>2. Copied(CopyPage(t, pages), pages, flat, edge, from, to, bytes, q, Least(edge[q], to))
              /\ Beside(t.w, CopyPage(t, pages).w)
            BY <3>1, CopyStep
        <3>. QED
            BY <3>2 DEF q
    <2>5. Holds(c.w, bytes \o SubSeq(flat, from + 1, at))
        BY <1>1 DEF Copied
    <2>6. Walked(w, FreePage(c.w)) /\ FreePage(c.w).heap = c.w.heap - 1
        BY <1>1, <2>5, WalkedFree, WalkedOn, HoldsFree
    <2>7. Walked(w, x.w) /\ x.w.heap = c.w.heap - 1
        <3>. HIDE DEF x, t
        <3>1. Walked(t.w, x.w) /\ x.w.heap = t.w.heap
            BY <2>4, WalkedBeside
        <3>2. Walked(w, t.w) /\ t.w.heap = c.w.heap - 1
            BY <2>3, <2>6
        <3>. QED
            BY <3>1, <3>2, WalkedOn
    <2>8. x.w.heap = w.heap - ((g + 1) - page) /\ g + 1 = page + (n + 1) /\ g + 1 >= page /\ (g + 1) - 1 = g
        <3>. DEFINE h == w.heap
                    i == c.w.heap
                    j == x.w.heap
        <3>1. i = h - (g - page) /\ j = i - 1 /\ h \in Int
            BY <1>1, <2>7
        <3>. HIDE DEF h, i, j
        <3>2. j = h - ((g + 1) - page) /\ g + 1 = page + (n + 1) /\ g + 1 >= page /\ (g + 1) - 1 = g
            BY <1>2, <2>2, <3>1
        <3>. QED
            BY <3>2 DEF h, j
    <2>9. edge[(g + 1) - 1] < to
        BY <2>2, <2>8
    <2>. DEFINE q == g + 1
    <2>10. /\ Copied(x, pages, flat, edge, from, to, bytes, q, next) /\ next = Least(edge[q], to)
           /\ q = page \/ edge[q - 1] < to
           /\ q = page + (n + 1) \/ next = to
           /\ q >= page /\ x.w.heap = w.heap - (q - page) /\ Walked(w, x.w)
        <3>1. Copied(x, pages, flat, edge, from, to, bytes, q, next) /\ next = Least(edge[q], to)
            BY <2>4
        <3>2. edge[q - 1] < to
            BY <2>9
        <3>3. q = page + (n + 1) /\ q >= page /\ x.w.heap = w.heap - (q - page)
            BY <2>8
        <3>. HIDE DEF q, x, next
        <3>. QED
            BY <2>7, <3>1, <3>2, <3>3
    <2>. HIDE DEF q, x, next
    <2>11. CopyInvariant(w, pages, flat, edge, from, to, bytes, page, x, n + 1)
        BY <2>10 DEF CopyInvariant
    <2>. QED
        BY <1>4, <2>11 DEF x
<1>. QED
    BY <1>3, <1>4

Behind(b) == [page |-> b.page, offset |-> b.offset + BuildSize]

LEMMA CopyStarts ==
    ASSUME NEW pages, NEW flat, NEW edge, Paged(pages, flat, edge), NEW b \in BuildRecords, NEW end,
           Within(Len(pages), b, edge, end), NEW w, NEW bytes \in Bytes, Holds(w, bytes), w.current = 0
    PROVE  /\ Copied([w |-> w, page |-> b.page, offset |-> b.offset + BuildSize, left |-> b.bytes], pages, flat, edge,
                     Start0(b, edge), Fin(b, edge), bytes, b.page, Start0(b, edge))
           /\ Start0(b, edge) \in Nat /\ Fin(b, edge) \in Nat /\ end \in b.page..Len(pages) /\ Fin(b, edge) <= Len(flat)
           /\ Start0(b, edge) <= Fin(b, edge) /\ b.page \in 1..Len(pages) /\ Len(pages) \in Nat
<1>. DEFINE P == Len(pages)
            g == b.page
            o == b.offset
            n == b.bytes
            d == edge[g - 1]
            e == edge[g]
            s == Start0(b, edge)
            t == Fin(b, edge)
            c == [w |-> w, page |-> g, offset |-> o + BuildSize, left |-> n]
<1>1. /\ g \in 1..P /\ P \in Nat /\ o \in Nat /\ n \in Nat /\ o >= PageHeader /\ s <= e
      /\ end \in g..P /\ t <= edge[end] /\ s = d + o + BuildSize - PageHeader /\ t = s + n
    BY DEF Within, BuildRecords, Paged, Start0, Fin
<1>2. d \in Nat /\ e \in Nat /\ d <= e /\ flat \in Bytes /\ Len(flat) \in Nat
    <2>1. g \in 1..P
        BY <1>1
    <2>. HIDE DEF g
    <2>2. edge[g - 1] \in Nat /\ edge[g] \in Nat /\ edge[g - 1] <= edge[g]
        BY <2>1, PagedUsed
    <2>3. flat \in Bytes /\ Len(flat) \in Nat
        BY DEF Paged, Bytes
    <2>. QED
        BY <2>2, <2>3
<1>3. edge[end] \in Nat /\ edge[end] <= Len(flat)
    <2>1. end \in 1..Len(pages)
        <3>. HIDE DEF g
        <3>. QED
            BY <1>1
    <2>. QED
        BY <2>1, PagedUsed
<1>. HIDE DEF P, g, o, n, d, e, s, t
<1>4. s \in Nat /\ t \in Nat /\ s <= t /\ d <= s /\ o + BuildSize = s - d + PageHeader /\ n = t - s
    BY <1>1, <1>2, Sizes
<1>5. t <= Len(flat)
    <2>. DEFINE z == edge[end]
    <2>1. z \in Nat /\ z <= Len(flat) /\ t <= z
        BY <1>1, <1>3
    <2>. HIDE DEF z
    <2>. QED
        BY <1>2, <1>4, <2>1
<1>6. bytes \o SubSeq(flat, s + 1, s) = bytes
    <2>1. s + 1 \in Int /\ s \in Int /\ s < s + 1
        BY <1>4
    <2>2. SubSeq(flat, s + 1, s) = <<>>
        BY <2>1, SubSeqEmpty
    <2>. QED
        BY <2>2, ConcatEmptySeq DEF Bytes
<1>7. /\ c.w = w /\ c.page = g /\ c.offset = o + BuildSize /\ c.left = n
      /\ c = [w |-> c.w, page |-> c.page, offset |-> c.offset, left |-> c.left]
    OBVIOUS
<1>. HIDE DEF c
<1>8. s \in s..t
    BY <1>4
<1>9. c.offset = s - edge[g - 1] + PageHeader /\ edge[g - 1] <= s /\ s <= edge[g]
    BY <1>1, <1>4, <1>7 DEF d, e
<1>10. Copied(c, pages, flat, edge, s, t, bytes, g, s)
    BY <1>1, <1>4, <1>5, <1>6, <1>7, <1>8, <1>9 DEF Copied, P
<1>. QED
    BY <1>1, <1>4, <1>5, <1>10 DEF P, g, o, n, s, t, c

EndsIn(pages, edge, page, to, g) ==
    /\ g \in 1..Len(pages) /\ page \in 1..Len(pages) /\ to \in Nat
    /\ g >= page /\ to <= edge[g]
    /\ g = page \/ edge[g - 1] < to

LEMMA SamePage ==
    ASSUME NEW pages, NEW flat, NEW edge, Paged(pages, flat, edge), NEW to, NEW page,
           NEW g, EndsIn(pages, edge, page, to, g), NEW h, EndsIn(pages, edge, page, to, h)
    PROVE  g = h
<1>0. /\ g \in 1..Len(pages) /\ h \in 1..Len(pages) /\ page \in 1..Len(pages) /\ to \in Nat
      /\ g >= page /\ to <= edge[g] /\ (g = page \/ edge[g - 1] < to)
      /\ h >= page /\ to <= edge[h] /\ (h = page \/ edge[h - 1] < to)
    BY DEF EndsIn
<1>. USE <1>0
<1>1. Len(pages) \in Nat /\ edge \in [0..Len(pages) -> Nat]
      /\ \A p \in 0..Len(pages), q \in 0..Len(pages) : p <= q => edge[p] <= edge[q]
    BY DEF Paged
<1>2. ASSUME NEW a \in 1..Len(pages), NEW b \in 1..Len(pages), a >= page, a < b, edge[b - 1] < to, to <= edge[a]
      PROVE  FALSE
    <2>1. a \in 0..Len(pages) /\ b - 1 \in 0..Len(pages) /\ a <= b - 1
        BY <1>1, <1>2
    <2>2. edge[a] <= edge[b - 1]
        BY <1>1, <2>1
    <2>. DEFINE x == edge[a]
                y == edge[b - 1]
    <2>3. x \in Nat /\ y \in Nat /\ x <= y /\ y < to /\ to <= x
        BY <1>1, <1>2, <2>1, <2>2
    <2>. HIDE DEF x, y
    <2>. QED
        BY <2>3
<1>3. ~(g < h)
    <2>1. g < h => h # page
        BY <1>1
    <2>. QED
        BY <1>2, <2>1
<1>4. ~(h < g)
    <2>1. h < g => g # page
        BY <1>1
    <2>. QED
        BY <1>2, <2>1
<1>. QED
    BY <1>1, <1>3, <1>4

LEMMA CopyWalk ==
    ASSUME NEW pages, NEW flat, NEW edge, Paged(pages, flat, edge), NEW b \in BuildRecords, NEW end,
           Within(Len(pages), b, edge, end), NEW w, NEW bytes \in Bytes, Holds(w, bytes), w.current = 0,
           w.heap \in Int, NEW c, c = CopyPages(w, pages, Behind(b), b.bytes)
    PROVE  /\ Holds(c.w, bytes \o SubSeq(flat, Start0(b, edge) + 1, Fin(b, edge)))
           /\ Walked(w, c.w) /\ c.w.heap = w.heap - (end - b.page)
           /\ c.page = end /\ c.offset = EndOffset(b, end, edge)
<1>. DEFINE P == Len(pages)
            page == b.page
            from == Start0(b, edge)
            to == Fin(b, edge)
            first == [w |-> w, page |-> page, offset |-> b.offset + BuildSize, left |-> b.bytes]
            N == P - page
            Inv(x, n) == CopyInvariant(w, pages, flat, edge, from, to, bytes, page, x, n)
<1>1. /\ Copied(first, pages, flat, edge, from, to, bytes, page, from)
      /\ from \in Nat /\ to \in Nat /\ end \in page..P /\ to <= Len(flat) /\ from <= to /\ page \in 1..P /\ P \in Nat
    BY CopyStarts
<1>2. N \in Nat
    <2>. HIDE DEF page, P
    <2>. QED
        BY <1>1
<1>3. Behind(b).page = page /\ Behind(b).offset = b.offset + BuildSize
    BY DEF Behind
<1>4. PICK f :
        /\ c = f[N]
        /\ f[0] = CopyPage(first, pages)
        /\ \A n \in 1..N : f[n] = IF f[n - 1].left = 0 THEN f[n - 1] ELSE CopyPage(TurnPage(f[n - 1]), pages)
    <2>1. Len(pages) - Behind(b).page \in Nat
        BY <1>2, <1>3
    <2>. DEFINE at == Behind(b)
                left == b.bytes
    <2>. HIDE DEF at, left
    <2>2. \E f :
            /\ CopyPages(w, pages, at, left) = f[Len(pages) - at.page]
            /\ f[0] = CopyPage([w |-> w, page |-> at.page, offset |-> at.offset, left |-> left], pages)
            /\ \A n \in 1..(Len(pages) - at.page) :
                f[n] = IF f[n - 1].left = 0 THEN f[n - 1] ELSE CopyPage(TurnPage(f[n - 1]), pages)
        BY <2>1, CopySteps DEF at
    <2>. QED
        BY <1>3, <2>2 DEF at, left
<1>. HIDE DEF P, page, from, to, first, N
<1>5. Inv(f[0], 0)
    <2>. DEFINE x == CopyPage(first, pages)
                next == Least(edge[page], to)
    <2>1. Copied(x, pages, flat, edge, from, to, bytes, page, next) /\ Beside(first.w, x.w)
        BY <1>1, CopyStep
    <2>2. first.w = w
        BY DEF first
    <2>3. Walked(w, x.w) /\ x.w.heap = w.heap
        BY <2>1, <2>2, WalkedBeside
    <2>4. page = page + 0 /\ page >= page /\ w.heap = w.heap - (page - page)
        <3>. DEFINE h == w.heap
        <3>1. h \in Int
            OBVIOUS
        <3>. HIDE DEF h
        <3>2. page = page + 0 /\ page >= page /\ h = h - (page - page)
            BY <1>1, <3>1
        <3>. QED
            BY <3>2 DEF h
    <2>. HIDE DEF x, next
    <2>5. CopyInvariant(w, pages, flat, edge, from, to, bytes, page, x, 0)
        BY <2>1, <2>3, <2>4 DEF CopyInvariant, next
    <2>. QED
        BY <1>4, <2>5 DEF x
<1>6. ASSUME NEW n \in 1..N, Inv(f[n - 1], n - 1)
      PROVE  Inv(f[n], n)
    <2>. DEFINE m == n - 1
                x == f[n - 1]
    <2>1. m \in Nat /\ m < P - page /\ m + 1 = n /\ page \in Nat
        BY <1>1, <1>2 DEF N
    <2>2. CopyInvariant(w, pages, flat, edge, from, to, bytes, page, x, m)
        BY <1>6
    <2>3. f[n] = IF x.left = 0 THEN x ELSE CopyPage(TurnPage(x), pages)
        BY <1>4
    <2>. HIDE DEF m, x
    <2>4. CopyInvariant(w, pages, flat, edge, from, to, bytes, page,
                        IF x.left = 0 THEN x ELSE CopyPage(TurnPage(x), pages), m + 1)
        BY <2>1, <2>2, CopyGoesOn DEF P
    <2>. QED
        BY <2>1, <2>3, <2>4
<1>7. Inv(f[N], N)
    <2>. DEFINE T == {n \in 0..N : Inv(f[n], n)}
    <2>1. 0 \in T
        <3>1. 0 \in 0..N
            BY <1>2
        <3>. QED
            BY <1>5, <3>1
    <2>2. ASSUME NEW n \in 1..N, n - 1 \in T
          PROVE  n \in T
        <3>1. n \in 0..N
            BY <1>2
        <3>. HIDE DEF Inv
        <3>. QED
            BY <1>6, <2>2, <3>1
    <2>. HIDE DEF T
    <2>3. \A n \in 0..N : n \in T
        BY <1>2, <2>1, <2>2, AllTheWay
    <2>4. N \in 0..N
        BY <1>2
    <2>. QED
        BY <2>3, <2>4 DEF T
<1>8. PICK g, at :
        /\ Copied(c, pages, flat, edge, from, to, bytes, g, at) /\ at = Least(edge[g], to)
        /\ g = page \/ edge[g - 1] < to
        /\ g = page + N \/ at = to
        /\ g >= page /\ c.w.heap = w.heap - (g - page) /\ Walked(w, c.w)
    BY <1>4, <1>7 DEF CopyInvariant
<1>9. g \in 1..P /\ edge[g] \in Nat
    <2>1. g \in 1..Len(pages)
        BY <1>8 DEF Copied
    <2>. QED
        BY <2>1, PagedUsed DEF P
<1>10. at = to /\ to <= edge[g]
    <2>1. CASE at = to
        BY <1>1, <1>8, <1>9, <2>1 DEF Least
    <2>2. CASE g = page + N
        <3>1. g = P
            BY <1>1, <2>2 DEF N
        <3>2. edge[g] = Len(flat)
            BY <3>1 DEF Paged, P
        <3>. DEFINE e == edge[g]
        <3>3. e \in Nat /\ to <= e /\ at = Least(e, to)
            BY <1>1, <1>8, <1>9, <3>2
        <3>. HIDE DEF e
        <3>4. at = to /\ to <= e
            BY <1>1, <3>3 DEF Least
        <3>. QED
            BY <3>4 DEF e
    <2>. QED
        BY <1>8, <2>1, <2>2
<1>11. g = end
    <2>1. end \in 1..P /\ end >= page /\ (end = page \/ edge[end - 1] < to) /\ to <= edge[end]
        <3>1. end \in 1..P /\ end >= page
            BY <1>1
        <3>2. (end = page \/ edge[end - 1] < to) /\ to <= edge[end]
            BY DEF Within, page, to
        <3>. QED
            BY <3>1, <3>2
    <2>2. EndsIn(pages, edge, page, to, end)
        BY <1>1, <2>1 DEF EndsIn, P
    <2>3. EndsIn(pages, edge, page, to, g)
        BY <1>1, <1>8, <1>9, <1>10 DEF EndsIn, P
    <2>. QED
        BY <2>2, <2>3, SamePage
<1>12. Holds(c.w, bytes \o SubSeq(flat, from + 1, to)) /\ c.page = g /\ c.offset = to - edge[g - 1] + PageHeader
    BY <1>8, <1>10 DEF Copied
<1>. QED
    BY <1>8, <1>11, <1>12 DEF EndOffset, from, to, page

\* The build at a place is the one that was put there.
LEMMA BuildFound ==
    ASSUME NEW pages, NEW builds, NEW bodies, NEW flat, NEW edge, NEW ends,
           Spread(pages, builds, bodies, flat, edge, ends), NEW k \in 1..Len(builds),
           NEW c, c.page = builds[k].page, c.offset = builds[k].offset
    PROVE  BuildAt(builds, c) = k
<1>1. DOMAIN builds = 1..Len(builds) /\ Len(builds) \in Nat
    BY SpreadFacts
<1>2. ASSUME NEW i \in 1..Len(builds), builds[i].page = c.page, builds[i].offset = c.offset
      PROVE  i = k
    <2>1. Start0(builds[i], edge) = Start0(builds[k], edge)
        BY <1>2 DEF Start0
    <2>2. \A a \in 1..Len(builds), b \in 1..Len(builds) : a < b => Start0(builds[a], edge) < Start0(builds[b], edge)
        BY DEF Spread, Placed
    <2>3. Start0(builds[k], edge) \in Nat /\ Start0(builds[i], edge) \in Nat
        BY SpreadFacts
    <2>4. ~(i < k)
        BY <2>1, <2>2, <2>3
    <2>5. ~(k < i)
        BY <2>1, <2>2, <2>3
    <2>. QED
        BY <1>1, <2>4, <2>5
<1>3. \A i \in DOMAIN builds : (builds[i].page = c.page /\ builds[i].offset = c.offset) => i = k
    BY <1>1, <1>2
<1>4. k \in DOMAIN builds /\ builds[k].page = c.page /\ builds[k].offset = c.offset
    BY <1>1
<1>. QED
    BY <1>3, <1>4 DEF BuildAt

\* After each build comes the next, and after the last one every page has been freed.
AtEnd(builds, ends, edge, k, c) ==
    /\ k \in 1..(Len(builds) - 1)
    /\ c.page = ends[k] /\ c.offset = EndOffset(builds[k], ends[k], edge)

NextIs(end, c, next, x) ==
    /\ x.page = next.page /\ x.offset = next.offset /\ x.more = TRUE
    /\ \/ x.w = c.w /\ next.page = end
       \/ x.w = FreePage(c.w) /\ next.page = end + 1

LEMMA NextFound ==
    ASSUME NEW pages, NEW builds, NEW bodies, NEW flat, NEW edge, NEW ends,
           Spread(pages, builds, bodies, flat, edge, ends), NEW k, NEW c, AtEnd(builds, ends, edge, k, c),
           NEW x, x = NextBuild(c, pages)
    PROVE  NextIs(ends[k], c, builds[k + 1], x)
<1>. DEFINE next == builds[k + 1]
            e == ends[k]
            o == EndOffset(builds[k], ends[k], edge)
            here == Align(c.offset) + BuildSize <= PageSize
            page == IF here THEN c.page ELSE c.page + 1
            offset == Align(IF here THEN c.offset ELSE PageHeader)
            w == IF here THEN c.w ELSE FreePage(c.w)
            none == page <= Len(pages) /\ offset + BuildSize > BytesUsed(pages[page])
<1>0. k \in 1..(Len(builds) - 1) /\ c.page = e /\ c.offset = o
    BY DEF AtEnd
<1>. USE <1>0
<1>1. Len(builds) \in Nat /\ k + 1 \in 1..Len(builds) /\ k \in 1..Len(builds) /\ Len(pages) \in Nat
    BY SpreadFacts
<1>2. Follows(builds[k], e, edge, next)
    BY DEF Spread, Placed
<1>3. page = next.page /\ offset = next.offset /\ ((w = c.w /\ next.page = e) \/ (w = FreePage(c.w) /\ next.page = e + 1))
    <2>1. here <=> Align(o) + BuildSize <= PageSize
        OBVIOUS
    <2>2. CASE here
        <3>1. page = e /\ offset = Align(o) /\ w = c.w
            BY <2>2
        <3>2. next.page = e /\ next.offset = Align(o)
            BY <1>2, <2>1, <2>2 DEF Follows
        <3>. QED
            BY <3>1, <3>2
    <2>3. CASE ~here
        <3>1. page = e + 1 /\ offset = Align(PageHeader) /\ w = FreePage(c.w)
            BY <2>3
        <3>2. next.page = e + 1 /\ next.offset = Align(PageHeader)
            BY <1>2, <2>1, <2>3 DEF Follows
        <3>. QED
            BY <3>1, <3>2
    <2>. QED
        BY <2>2, <2>3
<1>4. x = [w |-> IF none THEN FreePage(w) ELSE w, page |-> page, offset |-> offset, more |-> page <= Len(pages) /\ ~none]
    BY DEF NextBuild
<1>. HIDE DEF page, offset, w, here, e, o
<1>5. page <= Len(pages) /\ ~none
    <2>. DEFINE g == next.page
                f == next.offset
                d == edge[g - 1]
                t == edge[g]
    <2>1. Within(Len(pages), next, edge, ends[k + 1]) /\ next \in BuildRecords
        BY <1>1, SpreadFacts
    <2>2. g \in 1..Len(pages) /\ Start0(next, edge) <= t /\ f \in Nat
        BY <2>1 DEF Within, BuildRecords
    <2>3. BytesUsed(pages[g]) = PageHeader + t - d /\ d \in Nat /\ t \in Nat
        <3>. HIDE DEF g
        <3>. QED
            BY <2>2, PagedUsed DEF Spread
    <2>4. Start0(next, edge) = d + f + BuildSize - PageHeader
        BY DEF Start0
    <2>5. page = g /\ offset = f
        BY <1>3
    <2>. HIDE DEF g, f, d, t, next
    <2>6. f + BuildSize <= PageHeader + t - d
        BY <2>2, <2>3, <2>4, Sizes
    <2>7. ~(offset + BuildSize > BytesUsed(pages[page]))
        <3>. DEFINE y == PageHeader + t - d
        <3>1. BytesUsed(pages[page]) = y /\ f + BuildSize <= y
            BY <2>3, <2>5, <2>6
        <3>2. y \in Int
            BY <2>3, Sizes
        <3>. HIDE DEF y
        <3>. QED
            BY <2>2, <2>5, <3>1, <3>2, Sizes
    <2>. QED
        BY <1>1, <2>2, <2>5, <2>7
<1>6. x.w = w /\ x.page = page /\ x.offset = offset /\ x.more = TRUE
    <2>. HIDE DEF none
    <2>. DEFINE v == IF none THEN FreePage(w) ELSE w
                m == page <= Len(pages) /\ ~none
                r == [w |-> v, page |-> page, offset |-> offset, more |-> m]
    <2>1. r.w = v /\ r.page = page /\ r.offset = offset /\ r.more = m
        OBVIOUS
    <2>2. x = r
        BY <1>4
    <2>3. v = w /\ m = TRUE
        BY <1>5
    <2>. HIDE DEF r, v, m
    <2>. QED
        BY <2>1, <2>2, <2>3
<1>7. /\ x.page = next.page /\ x.offset = next.offset /\ x.more = TRUE
      /\ \/ x.w = c.w /\ next.page = e
         \/ x.w = FreePage(c.w) /\ next.page = e + 1
    BY <1>3, <1>6
<1>. QED
    BY <1>7 DEF e, NextIs

LEMMA LastFound ==
    ASSUME NEW pages, NEW builds, NEW bodies, NEW flat, NEW edge, NEW ends,
           Spread(pages, builds, bodies, flat, edge, ends),
           Settled(Len(pages), builds[Len(builds)], ends[Len(builds)], edge),
           NEW c, NEW bytes, Holds(c.w, bytes), c.w.heap \in Int,
           c.page = ends[Len(builds)], c.offset = EndOffset(builds[Len(builds)], ends[Len(builds)], edge)
    PROVE  LET x == NextBuild(c, pages).w
           IN  Holds(x, bytes) /\ Walked(c.w, x) /\ x.heap = c.w.heap - (Len(pages) + 1 - ends[Len(builds)])
<1>. DEFINE n == Len(builds)
            P == Len(pages)
            b == builds[n]
            e == ends[n]
            o == EndOffset(b, e, edge)
            x == NextBuild(c, pages).w
            here == Align(c.offset) + BuildSize <= PageSize
            page == IF here THEN c.page ELSE c.page + 1
            offset == Align(IF here THEN c.offset ELSE PageHeader)
            w == IF here THEN c.w ELSE FreePage(c.w)
            none == page <= P /\ offset + BuildSize > BytesUsed(pages[page])
<1>1. /\ P \in Nat /\ P >= 1 /\ n \in Nat /\ n \in 1..n /\ P \in 1..P /\ edge[P] = Len(flat) /\ Len(flat) \in Nat
      /\ Fin(b, edge) = Len(flat) /\ o \in Nat /\ e \in 1..P /\ Within(P, b, edge, e)
    <2>1. P \in Nat /\ P >= 1 /\ n \in Nat /\ n \in 1..n /\ P \in 1..P /\ edge[P] = Len(flat) /\ Len(flat) \in Nat
        BY SpreadFacts
    <2>2. Fin(b, edge) = Len(flat) /\ o \in Nat /\ e \in 1..P /\ Within(P, b, edge, e)
        BY <2>1, SpreadFacts
    <2>. QED
        BY <2>1, <2>2
<1>2. x = IF none THEN FreePage(w) ELSE w
    BY DEF NextBuild
<1>3. BytesUsed(pages[P]) = PageHeader + edge[P] - edge[P - 1] /\ edge[P - 1] \in Nat /\ edge[P] \in Nat
    <2>1. P \in 1..Len(pages) /\ Paged(pages, flat, edge)
        BY <1>1 DEF Spread
    <2>. HIDE DEF P
    <2>. QED
        BY <2>1, PagedUsed
<1>4. here <=> Align(o) + BuildSize <= PageSize
    OBVIOUS
<1>5. Align(o) \in Nat /\ Align(o) >= o
    BY <1>1, Aligned
<1>6. Holds(c.w, bytes) /\ Walked(c.w, c.w)
    BY DEF Walked
<1>7. Holds(FreePage(c.w), bytes) /\ FreePage(c.w).heap = c.w.heap - 1 /\ Walked(c.w, FreePage(c.w))
    BY HoldsFree, WalkedFree
<1>8. Holds(FreePage(FreePage(c.w)), bytes) /\ FreePage(FreePage(c.w)).heap = FreePage(c.w).heap - 1
      /\ Walked(c.w, FreePage(FreePage(c.w)))
    <2>. DEFINE f == FreePage(c.w)
    <2>1. Holds(f, bytes) /\ Walked(c.w, f)
        BY <1>7
    <2>. HIDE DEF f
    <2>2. Holds(FreePage(f), bytes) /\ FreePage(f).heap = f.heap - 1 /\ Walked(f, FreePage(f))
        BY <2>1, HoldsFree, WalkedFree
    <2>3. Walked(c.w, FreePage(f))
        BY <2>1, <2>2, WalkedOn
    <2>. QED
        BY <2>2, <2>3 DEF f
<1>. DEFINE used == BytesUsed(pages[P])
            a == Align(o)
<1>9. CASE e = P
    <2>1. o = used
        <3>. DEFINE d == edge[P - 1]
                    t == edge[P]
        <3>1. o = t - d + PageHeader /\ used = PageHeader + t - d /\ d \in Nat /\ t \in Nat
            BY <1>1, <1>3, <1>9 DEF EndOffset
        <3>. HIDE DEF d, t, o, used
        <3>. QED
            BY <3>1, Sizes
    <2>2. CASE here
        <3>1. page = P /\ offset = a /\ w = c.w
            BY <1>9, <2>2
        <3>. HIDE DEF page, offset, w, o, a, used, P, here, none, x
        <3>2. a + BuildSize > used
            BY <1>1, <1>5, <2>1, Sizes DEF a
        <3>3. none
            <4>1. page <= P
                BY <1>1, <3>1
            <4>. QED
                BY <3>1, <3>2, <4>1 DEF none, used
        <3>4. x = FreePage(c.w)
            BY <1>2, <3>1, <3>3
        <3>5. P + 1 - e = 1
            BY <1>1, <1>9
        <3>6. Holds(x, bytes) /\ Walked(c.w, x) /\ x.heap = c.w.heap - (P + 1 - e)
            BY <1>7, <3>4, <3>5
        <3>. QED
            BY <3>6 DEF x, P
    <2>3. CASE ~here
        <3>1. page = P + 1 /\ w = FreePage(c.w)
            BY <1>9, <2>3
        <3>. HIDE DEF page, offset, w, o, a, used, P, here, x
        <3>2. ~none
            BY <1>1, <3>1
        <3>. HIDE DEF none
        <3>4. x = FreePage(c.w)
            BY <1>2, <3>1, <3>2
        <3>5. P + 1 - e = 1
            BY <1>1, <1>9
        <3>6. Holds(x, bytes) /\ Walked(c.w, x) /\ x.heap = c.w.heap - (P + 1 - e)
            BY <1>7, <3>4, <3>5
        <3>. QED
            BY <3>6 DEF x, P
    <2>. QED
        BY <2>2, <2>3
<1>10. CASE e # P
    <2>1. e = P - 1 /\ edge[P] = edge[P - 1] /\ Align(o) + BuildSize > PageSize
        BY <1>10 DEF Settled
    <2>2. ~here
        <3>. HIDE DEF a
        <3>1. a + BuildSize > PageSize /\ a \in Nat
            BY <1>5, <2>1 DEF a
        <3>2. ~(a + BuildSize <= PageSize)
            BY <3>1, Sizes
        <3>. QED
            BY <1>4, <3>2 DEF a
    <2>3. page = e + 1 /\ offset = Align(PageHeader) /\ w = FreePage(c.w)
        BY <2>2
    <2>4. e + 1 = P
        BY <1>1, <2>1
    <2>5. used = PageHeader
        <3>. DEFINE t == edge[P]
        <3>1. used = PageHeader + t - t /\ t \in Nat
            BY <1>3, <2>1
        <3>. HIDE DEF t, used
        <3>. QED
            BY <3>1, Sizes
    <2>. HIDE DEF page, offset, w, o, a, P, here, none, x, used
    <2>6. none
        <3>1. page <= P
            BY <1>1, <2>3, <2>4
        <3>. DEFINE z == Align(PageHeader)
        <3>2. z \in Nat /\ z >= PageHeader
            BY Aligned, Sizes
        <3>. HIDE DEF z
        <3>3. z + BuildSize > used
            BY <2>5, <3>2, Sizes
        <3>. QED
            BY <2>3, <2>4, <3>1, <3>3 DEF none, used, z
    <2>7. x = FreePage(FreePage(c.w))
        BY <1>2, <2>3, <2>6
    <2>8. x.heap = c.w.heap - (P + 1 - e)
        <3>. DEFINE h == c.w.heap
                    i == FreePage(c.w).heap
                    j == x.heap
        <3>1. i = h - 1 /\ j = i - 1 /\ h \in Int
            BY <1>7, <1>8, <2>7
        <3>. HIDE DEF h, i, j
        <3>2. j = h - (P + 1 - e)
            BY <1>1, <2>4, <3>1
        <3>. QED
            BY <3>2 DEF h, j
    <2>9. Holds(x, bytes) /\ Walked(c.w, x)
        BY <1>8, <2>7
    <2>. QED
        BY <2>8, <2>9 DEF x, P
<1>. QED
    BY <1>9, <1>10

\* What is written from build to build.
Told(builds, bodies, told) ==
    /\ told[0] \in Bytes
    /\ \A k \in 1..Len(builds) :
        /\ Valid(Tag(builds[k].type, builds[k].count))
        /\ told[k] = (told[k - 1] \o Encode(Tag(builds[k].type, builds[k].count))) \o bodies[k]

LEMMA ToldBytes ==
    ASSUME NEW builds, NEW bodies, NEW told, Told(builds, bodies, told), Len(builds) \in Nat,
           bodies \in Seq(Bytes), Len(bodies) = Len(builds)
    PROVE  \A k \in 0..Len(builds) : told[k] \in Bytes
<1>. DEFINE n == Len(builds)
            T == {k \in 0..n : told[k] \in Bytes}
<1>1. 0 \in T
    BY DEF Told
<1>2. ASSUME NEW k \in 1..n, k - 1 \in T
      PROVE  k \in T
    <2>. DEFINE tag == Encode(Tag(builds[k].type, builds[k].count))
    <2>1. told[k - 1] \in Bytes
        BY <1>2
    <2>2. tag \in Bytes
        BY EncodedBytes DEF Told
    <2>3. bodies[k] \in Bytes
        OBVIOUS
    <2>4. told[k] = (told[k - 1] \o tag) \o bodies[k]
        BY DEF Told
    <2>. HIDE DEF tag
    <2>5. told[k - 1] \o tag \in Bytes
        BY <2>1, <2>2, Join
    <2>6. told[k] \in Bytes
        BY <2>3, <2>4, <2>5, Join
    <2>. QED
        BY <2>6
<1>. HIDE DEF T, n
<1>3. \A k \in 0..n : k \in T
    BY <1>1, <1>2, AllTheWay DEF n
<1>. QED
    BY <1>3 DEF T, n

\* Where the walk is before it writes a build, and at its end.
Underway(w, pages, builds, told, c, k) ==
    /\ Holds(c.w, told[k]) /\ Walked(w, c.w)
    /\ IF k < Len(builds)
       THEN /\ c.more = TRUE /\ c.page = builds[k + 1].page /\ c.offset = builds[k + 1].offset
            /\ c.w.heap = w.heap - (c.page - 1)
       ELSE c.w.heap = w.heap - Len(pages)

LEMMA BuildWritten ==
    ASSUME NEW pages, NEW builds, NEW bodies, NEW flat, NEW edge, NEW ends,
           Spread(pages, builds, bodies, flat, edge, ends),
           Settled(Len(pages), builds[Len(builds)], ends[Len(builds)], edge),
           NEW told, Told(builds, bodies, told), NEW w, w.current = 0, w.heap \in Int,
           NEW k \in 1..Len(builds), NEW c, Underway(w, pages, builds, told, c, k - 1)
    PROVE  Underway(w, pages, builds, told, WriteBuild(c, pages, builds), k) /\ c.more = TRUE
<1>. DEFINE n == Len(builds)
            P == Len(pages)
            b == builds[k]
            e == ends[k]
            tag == Encode(Tag(b.type, b.count))
            tagged == WriteEncoded(c.w, tag)
            d == CopyPages(tagged, pages, Behind(b), b.bytes)
            x == WriteBuild(c, pages, builds)
<1>1. /\ P \in Nat /\ n \in Nat /\ b \in BuildRecords /\ Within(P, b, edge, e) /\ e \in 1..P /\ Paged(pages, flat, edge)
      /\ bodies \in Seq(Bytes) /\ Len(bodies) = n
      /\ bodies[k] = SubSeq(flat, Start0(b, edge) + 1, Fin(b, edge))
    <2>1. P \in Nat /\ n \in Nat /\ b \in BuildRecords /\ Within(P, b, edge, e) /\ e \in 1..P
        BY SpreadFacts
    <2>2. Paged(pages, flat, edge) /\ bodies \in Seq(Bytes) /\ Len(bodies) = n
          /\ bodies[k] = SubSeq(flat, Start0(b, edge) + 1, Fin(b, edge))
        BY DEF Spread
    <2>. QED
        BY <2>1, <2>2
<1>2. /\ k - 1 \in 0..n /\ k - 1 < n /\ (k - 1) + 1 = k
    BY <1>1
<1>3. /\ Holds(c.w, told[k - 1]) /\ Walked(w, c.w)
      /\ c.more = TRUE /\ c.page = b.page /\ c.offset = b.offset /\ c.w.heap = w.heap - (b.page - 1)
    BY <1>2 DEF Underway
<1>4. told[k - 1] \in Bytes /\ tag \in Bytes /\ told[k] = (told[k - 1] \o tag) \o bodies[k]
      /\ told[k - 1] \o tag \in Bytes
    <2>1. told[k - 1] \in Bytes
        BY <1>1, <1>2, ToldBytes
    <2>2. tag \in Bytes /\ told[k] = (told[k - 1] \o tag) \o bodies[k]
        BY EncodedBytes DEF Told
    <2>. HIDE DEF tag
    <2>. QED
        BY <2>1, <2>2, Join
<1>5. c.w.current = 0
    BY <1>3 DEF Walked
<1>. HIDE DEF b, tag
<1>6. Holds(tagged, told[k - 1] \o tag) /\ Beside(c.w, tagged)
    BY <1>3, <1>4, <1>5, HoldsEncoded
<1>. HIDE DEF tagged
<1>7. Walked(w, tagged) /\ tagged.heap = w.heap - (b.page - 1) /\ tagged.current = 0 /\ tagged.heap \in Int
    <2>1. Walked(c.w, tagged) /\ tagged.heap = c.w.heap
        BY <1>6, WalkedBeside
    <2>2. Walked(w, tagged) /\ tagged.current = 0
        BY <1>3, <1>5, <2>1, WalkedOn DEF Walked
    <2>. DEFINE g == b.page
                h == w.heap
    <2>3. g \in Nat /\ h \in Int /\ tagged.heap = h - (g - 1)
        BY <1>1, <1>3, <2>1 DEF BuildRecords
    <2>. HIDE DEF g, h
    <2>4. h - (g - 1) \in Int
        BY <2>3
    <2>. QED
        BY <2>2, <2>3, <2>4 DEF g, h
<1>8. /\ Holds(d.w, told[k]) /\ Walked(tagged, d.w) /\ d.w.heap = tagged.heap - (e - b.page)
      /\ d.page = e /\ d.offset = EndOffset(b, e, edge)
    <2>. DEFINE bytes == told[k - 1] \o tag
    <2>1. Within(Len(pages), b, edge, e) /\ bytes \in Bytes /\ Holds(tagged, bytes)
        BY <1>1, <1>4, <1>6
    <2>. HIDE DEF bytes, d
    <2>2. d = CopyPages(tagged, pages, Behind(b), b.bytes)
        BY DEF d
    <2>3. /\ Holds(d.w, bytes \o SubSeq(flat, Start0(b, edge) + 1, Fin(b, edge)))
          /\ Walked(tagged, d.w) /\ d.w.heap = tagged.heap - (e - b.page)
          /\ d.page = e /\ d.offset = EndOffset(b, e, edge)
        BY <1>1, <1>7, <2>1, <2>2, CopyWalk
    <2>. QED
        BY <1>1, <1>4, <2>3 DEF bytes
<1>9. x = NextBuild(d, pages)
    <2>1. BuildAt(builds, c) = k
        BY <1>3, BuildFound DEF b
    <2>. QED
        BY <1>3, <2>1 DEF WriteBuild, Behind, b, tagged, tag
<1>10. Walked(w, d.w) /\ d.w.heap = w.heap - (e - 1) /\ d.w.heap \in Int
    <2>1. Walked(w, d.w)
        BY <1>7, <1>8, WalkedOn
    <2>. DEFINE g == b.page
                h == w.heap
                i == tagged.heap
                j == d.w.heap
    <2>2. g \in Nat /\ h \in Int /\ i = h - (g - 1) /\ j = i - (e - g)
        BY <1>1, <1>7, <1>8 DEF BuildRecords
    <2>. HIDE DEF g, h, i, j, d, e
    <2>3. j = h - (e - 1) /\ j \in Int
        BY <1>1, <2>2
    <2>. QED
        BY <2>1, <2>3 DEF h, j
<1>. HIDE DEF d, x
<1>11. CASE k = n
    <2>1. /\ d.page = ends[Len(builds)] /\ d.offset = EndOffset(builds[Len(builds)], ends[Len(builds)], edge)
        BY <1>8, <1>11 DEF b
    <2>2. Holds(x.w, told[k]) /\ Walked(d.w, x.w) /\ x.w.heap = d.w.heap - (P + 1 - e)
        <3>1. /\ Holds(NextBuild(d, pages).w, told[k]) /\ Walked(d.w, NextBuild(d, pages).w)
              /\ NextBuild(d, pages).w.heap = d.w.heap - (Len(pages) + 1 - ends[Len(builds)])
            BY <1>8, <1>10, <2>1, LastFound
        <3>. QED
            BY <1>9, <1>11, <3>1
    <2>3. x.w.heap = w.heap - P
        <3>. DEFINE h == w.heap
                    i == d.w.heap
                    j == x.w.heap
        <3>1. h \in Int /\ i = h - (e - 1) /\ j = i - (P + 1 - e)
            BY <1>10, <2>2
        <3>. HIDE DEF h, i, j, e, P
        <3>2. j = h - P
            BY <1>1, <3>1
        <3>. QED
            BY <3>2 DEF h, j
    <2>4. Walked(w, x.w)
        BY <1>10, <2>2, WalkedOn
    <2>5. ~(k < Len(builds))
        BY <1>11
    <2>6. Underway(w, pages, builds, told, x, k)
        BY <2>2, <2>3, <2>4, <2>5 DEF Underway
    <2>. QED
        BY <1>3, <2>6 DEF x
<1>12. CASE k # n
    <2>. DEFINE next == builds[k + 1]
    <2>1. k \in 1..(Len(builds) - 1) /\ k < Len(builds)
        BY <1>1, <1>12
    <2>2. d.page = ends[k] /\ d.offset = EndOffset(builds[k], ends[k], edge)
        BY <1>8 DEF b
    <2>3. /\ x.page = next.page /\ x.offset = next.offset /\ x.more = TRUE
          /\ \/ x.w = d.w /\ next.page = e
             \/ x.w = FreePage(d.w) /\ next.page = e + 1
        <3>1. AtEnd(builds, ends, edge, k, d)
            BY <2>1, <2>2 DEF AtEnd
        <3>2. NextIs(ends[k], d, builds[k + 1], x)
            BY <1>9, <3>1, NextFound
        <3>. QED
            BY <3>2 DEF NextIs
    <2>4. Holds(FreePage(d.w), told[k]) /\ FreePage(d.w).heap = d.w.heap - 1 /\ Walked(d.w, FreePage(d.w))
        BY <1>8, HoldsFree, WalkedFree
    <2>. HIDE DEF next
    <2>5. Holds(x.w, told[k]) /\ Walked(w, x.w)
        BY <1>8, <1>10, <2>3, <2>4, WalkedOn
    <2>6. x.w.heap = w.heap - (x.page - 1)
        <3>. DEFINE h == w.heap
                    i == d.w.heap
                    j == x.w.heap
                    g == x.page
        <3>1. h \in Int /\ i = h - (e - 1) /\ ((j = i /\ g = e) \/ (j = i - 1 /\ g = e + 1))
            BY <1>10, <2>3, <2>4
        <3>. HIDE DEF h, i, j, g, e
        <3>2. j = h - (g - 1)
            BY <1>1, <3>1
        <3>. QED
            BY <3>2 DEF h, j, g
    <2>7. Underway(w, pages, builds, told, x, k)
        BY <2>1, <2>3, <2>5, <2>6 DEF Underway, next
    <2>. QED
        BY <1>3, <2>7 DEF x
<1>. QED
    BY <1>11, <1>12

FirstBuild(w) == [w |-> w, page |-> 1, offset |-> Align(PageHeader), more |-> TRUE]
Resolving(w, pages, builds, f, n) ==
    [m \in 0..n |->
        IF m = 0 THEN FirstBuild(w)
        ELSE LET c == f[m - 1] IN IF c.more THEN WriteBuild(c, pages, builds) ELSE c]

LEMMA ResolveExists ==
    ASSUME NEW w, NEW pages, NEW builds, NEW n \in Nat
    PROVE  \E f : f = Resolving(w, pages, builds, f, n)
<1>. DEFINE first == FirstBuild(w)
            Go(c) == IF c.more THEN WriteBuild(c, pages, builds) ELSE c
            F(f, m) == [i \in 0..m |-> IF i = 0 THEN first ELSE Go(f[i - 1])]
            S == {m \in Nat : ~\E f : f = F(f, m)}
<1>. HIDE DEF first, Go
<1>1. SUFFICES ASSUME S # {}
               PROVE  FALSE
    <2>1. SUFFICES ASSUME S = {}
                   PROVE  \E f : f = Resolving(w, pages, builds, f, n)
        OBVIOUS
    <2>2. PICK f : f = F(f, n)
        BY <2>1
    <2>3. F(f, n) = Resolving(w, pages, builds, f, n)
        BY DEF Resolving, first, Go
    <2>4. f = Resolving(w, pages, builds, f, n)
        BY <2>2, <2>3
    <2>. QED
        BY <2>4
<1>2. PICK m \in S : \A i \in S : m <= i
    BY <1>1, LeastNumber
<1>3. m # 0
    <2>1. [i \in 0..0 |-> first] = F([i \in 0..0 |-> first], 0)
        OBVIOUS
    <2>. QED
        BY <2>1
<1>4. m - 1 \in Nat /\ m - 1 \notin S
    <2>1. m \in Nat
        OBVIOUS
    <2>. HIDE DEF S
    <2>. QED
        BY <1>2, <1>3, <2>1
<1>5. PICK f : f = F(f, m - 1)
    BY <1>4
<1>. DEFINE next == [i \in 0..m |-> IF i = 0 THEN first ELSE Go(f[i - 1])]
<1>6. \A i \in 0..(m - 1) : next[i] = f[i]
    <2>. SUFFICES ASSUME NEW i \in 0..(m - 1)
                  PROVE  next[i] = f[i]
        OBVIOUS
    <2>1. f[i] = IF i = 0 THEN first ELSE Go(f[i - 1])
        BY <1>5
    <2>2. i \in 0..m
        OBVIOUS
    <2>. QED
        BY <2>1, <2>2
<1>7. next = F(next, m)
    <2>1. \A i \in 0..m : i # 0 => i - 1 \in 0..(m - 1)
        OBVIOUS
    <2>2. \A i \in 0..m : i # 0 => next[i - 1] = f[i - 1]
        <3>. HIDE DEF next
        <3>. QED
            BY <1>6, <2>1
    <2>. QED
        BY <2>2
<1>. QED
    BY <1>7

LEMMA ResolveSteps ==
    ASSUME NEW w, NEW pages, NEW builds, Len(builds) \in Nat
    PROVE  \E f :
            /\ WriteBuilds(w, pages, builds) = f[Len(builds)].w /\ f[0] = FirstBuild(w)
            /\ \A n \in 1..Len(builds) : f[n] = IF f[n - 1].more THEN WriteBuild(f[n - 1], pages, builds) ELSE f[n - 1]
<1>. DEFINE N == Len(builds)
            C(f) == Resolving(w, pages, builds, f, N)
            f == CHOOSE g : g = C(g)
<1>1. f = C(f)
    BY ResolveExists
<1>2. WriteBuilds(w, pages, builds) = f[N].w
    BY DEF WriteBuilds, Resolving, FirstBuild
<1>. HIDE DEF f, N
<1>3. f[0] = FirstBuild(w)
    BY <1>1 DEF Resolving, N
<1>4. ASSUME NEW n \in 1..N
      PROVE  f[n] = IF f[n - 1].more THEN WriteBuild(f[n - 1], pages, builds) ELSE f[n - 1]
    <2>1. n \in 0..N /\ n # 0
        OBVIOUS
    <2>. QED
        BY <1>1, <2>1 DEF Resolving
<1>. QED
    BY <1>2, <1>3, <1>4 DEF N

\* What mpack_builder_resolve() writes: each build's tag and the bytes behind it, and
\* all pages are freed.
LEMMA BuildsWalk ==
    ASSUME NEW pages, NEW builds, NEW bodies, NEW flat, NEW edge, NEW ends,
           Spread(pages, builds, bodies, flat, edge, ends),
           Settled(Len(pages), builds[Len(builds)], ends[Len(builds)], edge),
           NEW told, Told(builds, bodies, told), NEW w, w.current = 0, w.heap \in Int, Holds(w, told[0])
    PROVE  LET x == WriteBuilds(w, pages, builds)
           IN  Holds(x, told[Len(builds)]) /\ Walked(w, x) /\ x.heap = w.heap - Len(pages)
<1>. DEFINE n == Len(builds)
            P == Len(pages)
            x == WriteBuilds(w, pages, builds)
<1>1. n \in Nat /\ n >= 1 /\ n \in 1..n
    BY SpreadFacts
<1>2. PICK f :
        /\ x = f[n].w /\ f[0] = FirstBuild(w)
        /\ \A k \in 1..n : f[k] = IF f[k - 1].more THEN WriteBuild(f[k - 1], pages, builds) ELSE f[k - 1]
    BY <1>1, ResolveSteps
<1>. HIDE DEF x
<1>3. Underway(w, pages, builds, told, f[0], 0)
    <2>. DEFINE c == FirstBuild(w)
    <2>1. c.w = w /\ c.page = 1 /\ c.offset = Align(PageHeader) /\ c.more = TRUE
        BY DEF FirstBuild
    <2>2. builds[1].page = 1 /\ builds[1].offset = Align(PageHeader) /\ 0 + 1 = 1 /\ 0 < Len(builds)
        BY <1>1 DEF Spread, Placed
    <2>3. w.heap = w.heap - (1 - 1)
        <3>. DEFINE h == w.heap
        <3>1. h \in Int
            OBVIOUS
        <3>. HIDE DEF h
        <3>2. h = h - (1 - 1)
            BY <3>1
        <3>. QED
            BY <3>2 DEF h
    <2>4. Walked(w, w)
        BY DEF Walked
    <2>. HIDE DEF c
    <2>5. Underway(w, pages, builds, told, c, 0)
        BY <2>1, <2>2, <2>3, <2>4 DEF Underway
    <2>. QED
        BY <1>2, <2>5 DEF c
<1>4. ASSUME NEW k \in 1..n, Underway(w, pages, builds, told, f[k - 1], k - 1)
      PROVE  Underway(w, pages, builds, told, f[k], k)
    <2>. DEFINE c == f[k - 1]
    <2>1. Underway(w, pages, builds, told, c, k - 1)
        BY <1>4
    <2>2. f[k] = IF c.more THEN WriteBuild(c, pages, builds) ELSE c
        BY <1>2
    <2>. HIDE DEF c
    <2>3. Underway(w, pages, builds, told, WriteBuild(c, pages, builds), k) /\ c.more = TRUE
        BY <2>1, BuildWritten
    <2>. QED
        BY <2>2, <2>3
<1>5. Underway(w, pages, builds, told, f[n], n)
    <2>. DEFINE T == {k \in 0..n : Underway(w, pages, builds, told, f[k], k)}
    <2>1. 0 \in T
        BY <1>1, <1>3
    <2>2. ASSUME NEW k \in 1..n, k - 1 \in T
          PROVE  k \in T
        BY <1>1, <1>4, <2>2
    <2>. HIDE DEF T, n
    <2>3. \A k \in 0..n : k \in T
        BY <1>1, <2>1, <2>2, AllTheWay
    <2>. QED
        BY <1>1, <2>3 DEF T
<1>6. ~(n < Len(builds))
    BY <1>1
<1>7. Holds(f[n].w, told[n]) /\ Walked(w, f[n].w) /\ f[n].w.heap = w.heap - P
    BY <1>5, <1>6 DEF Underway
<1>. QED
    BY <1>2, <1>7 DEF x

------------------------------------------------------------------------------------
(* The bodies of the builds, laid out in the pages. *)

\* The bodies of the builds are in the pages as mpack_builder_resolve() looks for them.
Laid(pages, builds, bodies) ==
    \E flat, edge, ends :
        /\ Spread(pages, builds, bodies, flat, edge, ends)
        /\ Settled(Len(pages), builds[Len(builds)], ends[Len(builds)], edge)

LEMMA LaidFacts ==
    ASSUME NEW pages, NEW builds, NEW bodies, Laid(pages, builds, bodies)
    PROVE  /\ pages \in Seq(Bytes) /\ Len(pages) \in Nat /\ Len(pages) >= 1
           /\ builds \in Seq(BuildRecords) /\ Len(builds) \in Nat /\ Len(builds) >= 1
           /\ bodies \in Seq(Bytes) /\ Len(bodies) = Len(builds)
           /\ BytesUsed(pages[Len(pages)]) \in Nat
<1>1. PICK flat, edge, ends : Spread(pages, builds, bodies, flat, edge, ends)
    BY DEF Laid
<1>2. /\ pages \in Seq(Bytes) /\ Len(pages) \in Nat /\ Len(pages) >= 1
      /\ builds \in Seq(BuildRecords) /\ Len(builds) \in Nat /\ Len(builds) >= 1
    BY <1>1, SpreadFacts
<1>3. bodies \in Seq(Bytes) /\ Len(bodies) = Len(builds)
    BY <1>1 DEF Spread
<1>4. Len(pages[Len(pages)]) \in Nat
    BY <1>2 DEF Bytes
<1>5. BytesUsed(pages[Len(pages)]) \in Nat
    <2>. DEFINE n == Len(pages[Len(pages)])
    <2>1. n \in Nat
        BY <1>4
    <2>2. BytesUsed(pages[Len(pages)]) = PageHeader + n
        BY DEF BytesUsed
    <2>. HIDE DEF n
    <2>. QED
        BY <2>1, <2>2, Sizes
<1>. QED
    BY <1>2, <1>3, <1>5

LEMMA LaidLonger ==
    ASSUME NEW pages, NEW builds, NEW bodies, Laid(pages, builds, bodies), NEW more \in Bytes, Len(more) > 0
    PROVE  Laid(Longer(pages, more), Lengthened(builds, more), MoreBody(bodies, more))
<1>1. PICK flat, edge, ends : Spread(pages, builds, bodies, flat, edge, ends)
    BY DEF Laid
<1>. DEFINE both == flat \o more
            limit == [edge EXCEPT ![Len(pages)] = @ + Len(more)]
            to == [ends EXCEPT ![Len(builds)] = Len(pages)]
<1>2. /\ Spread(Longer(pages, more), Lengthened(builds, more), MoreBody(bodies, more), both, limit, to)
      /\ to[Len(builds)] = Len(pages)
    BY <1>1, SpreadLonger
<1>3. Len(Longer(pages, more)) = Len(pages) /\ Len(Lengthened(builds, more)) = Len(builds)
    <2>1. Paged(pages, flat, edge) /\ Len(pages) >= 1 /\ builds \in Seq(BuildRecords) /\ Len(builds) >= 1
        BY <1>1, SpreadFacts DEF Spread
    <2>. QED
        BY <2>1, PagedLonger, LengthenedBuilds
<1>. HIDE DEF both, limit, to
<1>4. Settled(Len(Longer(pages, more)), Lengthened(builds, more)[Len(Lengthened(builds, more))],
              to[Len(Lengthened(builds, more))], limit)
    BY <1>2, <1>3 DEF Settled
<1>. QED
    BY <1>2, <1>4 DEF Laid

\* Bytes that go to another page.
LEMMA LaidTurned ==
    ASSUME NEW pages, NEW builds, NEW bodies, Laid(pages, builds, bodies), NEW more \in Bytes, Len(more) > 0
    PROVE  Laid(Longer(Append(pages, <<>>), more), Lengthened(builds, more), MoreBody(bodies, more))
<1>1. PICK flat, edge, ends : Spread(pages, builds, bodies, flat, edge, ends)
    BY DEF Laid
<1>. DEFINE other == Append(pages, <<>>)
            edged == Edged(pages, edge)
<1>2. Spread(other, builds, bodies, flat, edged, ends)
    <2>1. edged = Edged(pages, edge)
        OBVIOUS
    <2>. HIDE DEF edged
    <2>. QED
        BY <1>1, <2>1, SpreadMore
<1>. HIDE DEF other, edged
<1>. DEFINE both == flat \o more
            limit == [edged EXCEPT ![Len(other)] = @ + Len(more)]
            to == [ends EXCEPT ![Len(builds)] = Len(other)]
<1>3. /\ Spread(Longer(other, more), Lengthened(builds, more), MoreBody(bodies, more), both, limit, to)
      /\ to[Len(builds)] = Len(other)
    BY <1>2, SpreadLonger
<1>4. Len(Longer(other, more)) = Len(other) /\ Len(Lengthened(builds, more)) = Len(builds)
    <2>1. Paged(other, flat, edged) /\ Len(other) >= 1 /\ builds \in Seq(BuildRecords) /\ Len(builds) >= 1
        BY <1>2, SpreadFacts DEF Spread
    <2>. QED
        BY <2>1, PagedLonger, LengthenedBuilds
<1>. HIDE DEF both, limit, to
<1>5. Settled(Len(Longer(other, more)), Lengthened(builds, more)[Len(Lengthened(builds, more))],
              to[Len(Lengthened(builds, more))], limit)
    BY <1>3, <1>4 DEF Settled
<1>6. Laid(Longer(other, more), Lengthened(builds, more), MoreBody(bodies, more))
    BY <1>3, <1>5 DEF Laid
<1>. QED
    BY <1>6 DEF other

\* Another page because the next build does not fit this one.
LEMMA LaidMore ==
    ASSUME NEW pages, NEW builds, NEW bodies, Laid(pages, builds, bodies),
           Align(BytesUsed(pages[Len(pages)])) + BuildSize > PageSize
    PROVE  Laid(Append(pages, <<>>), builds, bodies)
<1>1. PICK flat, edge, ends :
        /\ Spread(pages, builds, bodies, flat, edge, ends)
        /\ Settled(Len(pages), builds[Len(builds)], ends[Len(builds)], edge)
    BY DEF Laid
<1>. DEFINE P == Len(pages)
            n == Len(builds)
            other == Append(pages, <<>>)
            edged == Edged(pages, edge)
            used == BytesUsed(pages[P])
            o == EndOffset(builds[n], ends[n], edge)
<1>2. /\ Spread(other, builds, bodies, flat, edged, ends) /\ Len(other) = P + 1 /\ edged[P + 1] = edged[P]
      /\ EndOffset(builds[n], ends[n], edged) = EndOffset(builds[n], ends[n], edge)
    <2>1. Spread(pages, builds, bodies, flat, edge, ends)
        BY <1>1
    <2>2. edged = Edged(pages, edge)
        OBVIOUS
    <2>. HIDE DEF P, n, used, o, other, edged
    <2>3. /\ Spread(Append(pages, <<>>), builds, bodies, flat, edged, ends)
          /\ Len(Append(pages, <<>>)) = Len(pages) + 1
          /\ edged[Len(pages) + 1] = edged[Len(pages)]
          /\ EndOffset(builds[Len(builds)], ends[Len(builds)], edged)
                = EndOffset(builds[Len(builds)], ends[Len(builds)], edge)
        BY <2>1, <2>2, SpreadMore
    <2>. HIDE DEF Spread
    <2>. QED
        BY <2>3 DEF P, n, other
<1>3. /\ P \in 1..P /\ P \in Nat /\ n \in 1..n /\ edge[P] = Len(flat) /\ Len(flat) \in Nat /\ edge[P - 1] \in Nat
      /\ Fin(builds[n], edge) = Len(flat) /\ used = PageHeader + edge[P] - edge[P - 1]
    <2>1. /\ P \in 1..P /\ P \in Nat /\ n \in 1..n /\ edge[P] = Len(flat) /\ Len(flat) \in Nat
          /\ Fin(builds[n], edge) = Len(flat) /\ Paged(pages, flat, edge)
        BY <1>1, SpreadFacts DEF Spread
    <2>2. edge[P - 1] \in Nat /\ used = PageHeader + edge[P] - edge[P - 1]
        <3>1. P \in 1..Len(pages)
            BY <2>1
        <3>. HIDE DEF P
        <3>. QED
            BY <2>1, <3>1, PagedUsed
    <2>. QED
        BY <2>1, <2>2
<1>. HIDE DEF other, edged
<1>4. ends[n] = P
    <2>1. CASE edge[P] = edge[P - 1]
        <3>1. used = PageHeader
            <4>. DEFINE t == edge[P]
            <4>1. used = PageHeader + t - t /\ t \in Nat
                BY <1>3, <2>1
            <4>. HIDE DEF t, used
            <4>. QED
                BY <4>1, Sizes
        <3>. DEFINE z == Align(PageHeader)
        <3>2. z \in Nat /\ z <= PageHeader + Alignment - 1
            BY Aligned, Sizes
        <3>3. z + BuildSize > PageSize
            BY <3>1
        <3>. HIDE DEF z
        <3>4. FALSE
            BY <3>2, <3>3, Sizes
        <3>. QED
            BY <3>4
    <2>2. CASE edge[P] # edge[P - 1]
        BY <1>1, <2>2 DEF Settled
    <2>. QED
        BY <2>1, <2>2
<1>5. o = used
    <2>. DEFINE d == edge[P - 1]
                t == edge[P]
    <2>1. o = t - d + PageHeader /\ used = PageHeader + t - d /\ d \in Nat /\ t \in Nat
        BY <1>3, <1>4 DEF EndOffset
    <2>. HIDE DEF d, t, o, used
    <2>. QED
        BY <2>1, Sizes
<1>6. EndOffset(builds[n], ends[n], edged) = o
    BY <1>2, <1>3
<1>. HIDE DEF P, n, o, used
<1>7. ends[n] = (P + 1) - 1 /\ edged[P + 1] = edged[(P + 1) - 1]
    <2>1. (P + 1) - 1 = P
        BY <1>3
    <2>. QED
        BY <1>2, <1>4, <2>1
<1>8. Align(o) + BuildSize > PageSize
    BY <1>5 DEF used, P
<1>9. Settled(Len(other), builds[n], ends[n], edged)
    BY <1>2, <1>6, <1>7, <1>8 DEF Settled
<1>10. Laid(other, builds, bodies)
    BY <1>2, <1>9 DEF Laid, n
<1>. QED
    BY <1>10 DEF other

\* The place of another build, behind what the last page holds.
LEMMA LaidNext ==
    ASSUME NEW pages, NEW builds, NEW bodies, Laid(pages, builds, bodies),
           NEW used, used = BytesUsed(pages[Len(pages)]), NEW next, NextPlace(Len(pages), used, next)
    PROVE  Laid(Longer(pages, Zeros(used)), Append(builds, next), Append(bodies, <<>>))
<1>1. PICK flat, edge, ends :
        /\ Spread(pages, builds, bodies, flat, edge, ends)
        /\ Settled(Len(pages), builds[Len(builds)], ends[Len(builds)], edge)
    BY DEF Laid
<1>. DEFINE both == flat \o Zeros(used)
            limit == [edge EXCEPT ![Len(pages)] = @ + Len(Zeros(used))]
            to == EndsMore(Len(pages), Len(builds), ends)
            more == Longer(pages, Zeros(used))
            all == Append(builds, next)
<1>a. Spread(pages, builds, bodies, flat, edge, ends)
    BY <1>1
<1>b. Settled(Len(pages), builds[Len(builds)], ends[Len(builds)], edge)
    BY <1>1
<1>2. /\ Spread(more, all, Append(bodies, <<>>), both, limit, to)
      /\ to[Len(builds) + 1] = Len(pages) /\ Len(all) = Len(builds) + 1 /\ used \in Nat
    <2>1. Spread(Longer(pages, Zeros(used)), Append(builds, next), Append(bodies, <<>>), flat \o Zeros(used),
                 [edge EXCEPT ![Len(pages)] = @ + Len(Zeros(used))], EndsMore(Len(pages), Len(builds), ends))
        BY <1>a, <1>b, SpreadNext, Zenon
    <2>2. Len(builds) \in Nat /\ builds \in Seq(BuildRecords)
        BY <1>a DEF Spread, Placed
    <2>3. EndsMore(Len(pages), Len(builds), ends)[Len(builds) + 1] = Len(pages)
        BY <2>2 DEF EndsMore
    <2>4. Len(Append(builds, next)) = Len(builds) + 1
        BY <2>2, AppendProperties DEF NextPlace
    <2>5. used \in Nat
        <3>. HIDE DEF both, limit, to, more, all
        <3>. QED
            BY <1>a, <1>b, SpreadNext
    <2>. QED
        BY <2>1, <2>3, <2>4, <2>5, Zenon DEF both, limit, to, more, all
<1>3. Len(more) = Len(pages)
    <2>1. Paged(pages, flat, edge) /\ Len(pages) >= 1
        BY <1>1 DEF Spread
    <2>2. Zeros(used) \in Bytes
        BY <1>2, ZeroBytes
    <2>. QED
        BY <2>1, <2>2, PagedLonger
<1>. HIDE DEF both, limit, to, more, all
<1>4. Settled(Len(more), all[Len(all)], to[Len(all)], limit)
    BY <1>2, <1>3 DEF Settled
<1>5. Laid(more, all, Append(bodies, <<>>))
    BY <1>2, <1>4 DEF Laid
<1>. QED
    BY <1>5 DEF more, all

LEMMA LaidFirst ==
    ASSUME NEW next, NextPlace(1, PageHeader, next)
    PROVE  Laid(Longer(<< <<>> >>, Zeros(PageHeader)), <<next>>, << <<>> >>)
<1>. DEFINE more == Longer(<< <<>> >>, Zeros(PageHeader))
            builds == <<next>>
            bodies == << <<>> >>
<1>1. Len(builds) = 1
    OBVIOUS
<1>2. Len(more) = 1
    BY DEF Longer
<1>3. PICK flat, edge, ends : Spread(more, builds, bodies, flat, edge, ends) /\ ends[1] = 1
    BY SpreadFirst
<1>. HIDE DEF more, builds, bodies
<1>4. Settled(Len(more), builds[Len(builds)], ends[Len(builds)], edge)
    BY <1>1, <1>2, <1>3 DEF Settled
<1>5. Laid(more, builds, bodies)
    BY <1>3, <1>4 DEF Laid
<1>. QED
    BY <1>5 DEF more, builds, bodies

\* What the last page holds once a build has its place there.
LEMMA NextUsed ==
    ASSUME NEW pages \in Seq(Bytes), Len(pages) >= 1, NEW used, used = BytesUsed(pages[Len(pages)])
    PROVE  /\ BytesUsed(Longer(pages, Zeros(used))[Len(pages)]) = Align(used) + BuildSize
           /\ Longer(pages, Zeros(used)) \in Seq(Bytes) /\ Len(Longer(pages, Zeros(used))) = Len(pages)
           /\ used \in Nat /\ Align(used) \in Nat
<1>. DEFINE P == Len(pages)
            last == pages[P]
            zeros == Zeros(used)
<1>1. P \in Nat /\ P \in 1..P /\ last \in Bytes
    OBVIOUS
<1>2. Len(last) \in Nat
    BY <1>1 DEF Bytes
<1>3. used = PageHeader + Len(last)
    BY DEF BytesUsed
<1>4. used \in Nat
    <2>. DEFINE n == Len(last)
    <2>. HIDE DEF n, last, P
    <2>. QED
        BY <1>2, <1>3, Sizes DEF n
<1>5. zeros \in Bytes /\ Len(zeros) = Align(used) + BuildSize - used /\ Align(used) \in Nat
    BY <1>4, ZeroBytes
<1>. HIDE DEF last, zeros
<1>6. Len(last \o zeros) = Len(last) + Len(zeros) /\ last \o zeros \in Bytes
    BY <1>1, <1>5, Join
<1>7. /\ Longer(pages, zeros)[P] = last \o zeros
      /\ Longer(pages, zeros) \in Seq(Bytes) /\ Len(Longer(pages, zeros)) = P
    BY <1>1, <1>6 DEF Longer, last
<1>8. BytesUsed(last \o zeros) = Align(used) + BuildSize
    <2>1. BytesUsed(last \o zeros) = PageHeader + (Len(last) + Len(zeros))
        BY <1>6 DEF BytesUsed
    <2>. DEFINE a == Align(used)
                n == Len(last)
                z == Len(zeros)
    <2>2. used = PageHeader + n /\ z = a + BuildSize - used /\ a \in Nat /\ n \in Nat
        BY <1>2, <1>3, <1>5
    <2>. HIDE DEF a, n, z
    <2>3. PageHeader + (n + z) = a + BuildSize
        BY <2>2, <1>4, Sizes
    <2>. QED
        BY <2>1, <2>3 DEF a, n, z
<1>. QED
    BY <1>4, <1>5, <1>7, <1>8 DEF zeros

LEMMA LongerTwice ==
    ASSUME NEW pages \in Seq(Bytes), Len(pages) >= 1, NEW a \in Bytes, NEW b \in Bytes
    PROVE  /\ Longer(Longer(pages, a), b) = Longer(pages, a \o b)
           /\ Longer(pages, a) \in Seq(Bytes) /\ Len(Longer(pages, a)) = Len(pages)
<1>. DEFINE P == Len(pages)
            last == pages[P]
<1>1. P \in Nat /\ P \in 1..P /\ last \in Bytes
    OBVIOUS
<1>2. (last \o a) \o b = last \o (a \o b) /\ last \o a \in Bytes
    <2>1. last \in Bytes
        BY <1>1
    <2>. HIDE DEF last
    <2>2. (last \o a) \o b = last \o (a \o b)
        BY <2>1, Rejoin
    <2>3. last \o a \in Bytes
        BY <2>1, Join
    <2>. QED
        BY <2>2, <2>3
<1>. DEFINE more == Longer(pages, a)
<1>3. more = [pages EXCEPT ![P] = last \o a] /\ DOMAIN pages = 1..P
    BY DEF Longer
<1>4. more \in Seq(Bytes) /\ Len(more) = P /\ more[P] = last \o a
    BY <1>1, <1>2 DEF Longer
<1>. HIDE DEF last
<1>5. Longer(more, b) = [more EXCEPT ![P] = (last \o a) \o b]
    BY <1>4 DEF Longer
<1>6. Longer(pages, a \o b) = [pages EXCEPT ![P] = last \o (a \o b)]
    BY DEF Longer, last
<1>. QED
    BY <1>1, <1>2, <1>3, <1>4, <1>5, <1>6

LEMMA LengthenedTwice ==
    ASSUME NEW builds \in Seq(BuildRecords), Len(builds) >= 1, NEW a \in Bytes, NEW b \in Bytes
    PROVE  /\ Lengthened(Lengthened(builds, a), b) = Lengthened(builds, a \o b)
           /\ Lengthened(builds, a) \in Seq(BuildRecords) /\ Len(Lengthened(builds, a)) = Len(builds)
<1>. DEFINE n == Len(builds)
            last == builds[n]
            more == Lengthened(builds, a)
<1>1. n \in Nat /\ n \in 1..n /\ last \in BuildRecords /\ DOMAIN builds = 1..n
    OBVIOUS
<1>2. /\ more \in Seq(BuildRecords) /\ Len(more) = n
      /\ Len(a \o b) = Len(a) + Len(b) /\ Len(a) \in Nat /\ Len(b) \in Nat
    BY LengthenedBuilds, Join DEF Bytes
<1>3. more = [builds EXCEPT ![n] = [last EXCEPT !.bytes = @ + Len(a)]]
    BY DEF Lengthened
<1>4. more[n] = [last EXCEPT !.bytes = @ + Len(a)]
    BY <1>1, <1>3
<1>. HIDE DEF more, last
<1>5. Lengthened(more, b) = [more EXCEPT ![n] = [[last EXCEPT !.bytes = @ + Len(a)] EXCEPT !.bytes = @ + Len(b)]]
    BY <1>2, <1>4 DEF Lengthened
<1>6. Lengthened(builds, a \o b) = [builds EXCEPT ![n] = [last EXCEPT !.bytes = @ + Len(a \o b)]]
    BY DEF Lengthened, last
<1>7. [[last EXCEPT !.bytes = @ + Len(a)] EXCEPT !.bytes = @ + Len(b)] = [last EXCEPT !.bytes = @ + Len(a \o b)]
    <2>1. last.bytes \in Nat
        BY <1>1 DEF BuildRecords
    <2>. DEFINE u == Len(a)
                v == Len(b)
                t == last.bytes
    <2>2. Len(a \o b) = u + v /\ u \in Nat /\ v \in Nat /\ t \in Nat
        BY <1>2, <2>1
    <2>. HIDE DEF u, v
    <2>3. (t + u) + v = t + Len(a \o b)
        <3>. HIDE DEF t
        <3>. QED
            BY <2>2
    <2>. DEFINE q == [last EXCEPT !.bytes = t + u]
    <2>4. q.bytes = t + u
        BY <1>1 DEF BuildRecords
    <2>5. \A z : [q EXCEPT !.bytes = z] = [last EXCEPT !.bytes = z]
        BY <1>1 DEF BuildRecords
    <2>6. [q EXCEPT !.bytes = q.bytes + v] = [last EXCEPT !.bytes = t + Len(a \o b)]
        <3>. HIDE DEF q, t
        <3>. QED
            BY <2>3, <2>4, <2>5
    <2>. QED
        BY <2>6 DEF u, v
<1>8. Lengthened(more, b) = Lengthened(builds, a \o b)
    <2>. DEFINE r == [last EXCEPT !.bytes = @ + Len(a \o b)]
                q == [last EXCEPT !.bytes = @ + Len(a)]
    <2>1. Lengthened(more, b) = [more EXCEPT ![n] = r] /\ more = [builds EXCEPT ![n] = q]
          /\ Lengthened(builds, a \o b) = [builds EXCEPT ![n] = r]
        BY <1>3, <1>5, <1>6, <1>7
    <2>. HIDE DEF r, q
    <2>. QED
        BY <1>1, <2>1
<1>. QED
    BY <1>2, <1>8 DEF more

LEMMA NoLonger ==
    ASSUME NEW pages \in Seq(Bytes), Len(pages) >= 1, NEW builds \in Seq(BuildRecords), Len(builds) >= 1
    PROVE  Longer(pages, <<>>) = pages /\ Lengthened(builds, <<>>) = builds
<1>1. Longer(pages, <<>>) = pages
    <2>. DEFINE P == Len(pages)
    <2>1. pages[P] \in Bytes /\ P \in 1..P
        OBVIOUS
    <2>2. pages[P] \o <<>> = pages[P]
        BY <2>1 DEF Bytes
    <2>. QED
        BY <2>1, <2>2 DEF Longer
<1>2. Lengthened(builds, <<>>) = builds
    <2>. DEFINE n == Len(builds)
                last == builds[n]
    <2>1. last \in BuildRecords /\ n \in 1..n
        OBVIOUS
    <2>2. last.bytes + Len(<<>>) = last.bytes
        <3>1. last.bytes \in Nat /\ Len(<<>>) = 0
            BY <2>1 DEF BuildRecords
        <3>. HIDE DEF last
        <3>. QED
            BY <3>1
    <2>3. [last EXCEPT !.bytes = last.bytes] = last
        BY <2>1 DEF BuildRecords
    <2>. QED
        BY <2>1, <2>2, <2>3 DEF Lengthened
<1>. QED
    BY <1>1, <1>2

LEMMA BodyTwice ==
    ASSUME NEW bodies \in Seq(Bytes), Len(bodies) >= 1, NEW a \in Bytes, NEW b \in Bytes
    PROVE  /\ MoreBody(MoreBody(bodies, a), b) = MoreBody(bodies, a \o b) /\ MoreBody(bodies, <<>>) = bodies
           /\ MoreBody(bodies, a) \in Seq(Bytes) /\ Len(MoreBody(bodies, a)) = Len(bodies)
           /\ \A k \in 1..(Len(bodies) - 1) : MoreBody(bodies, a)[k] = bodies[k]
           /\ MoreBody(bodies, a)[Len(bodies)] = bodies[Len(bodies)] \o a
<1>1. /\ Longer(Longer(bodies, a), b) = Longer(bodies, a \o b) /\ Longer(bodies, a) \in Seq(Bytes)
      /\ Len(Longer(bodies, a)) = Len(bodies)
    BY LongerTwice
<1>2. MoreBody(bodies, <<>>) = bodies
    <2>. DEFINE P == Len(bodies)
    <2>1. bodies[P] \in Bytes /\ P \in 1..P
        OBVIOUS
    <2>2. bodies[P] \o <<>> = bodies[P]
        BY <2>1 DEF Bytes
    <2>. QED
        BY <2>1, <2>2 DEF MoreBody
<1>3. Longer(bodies, a)[Len(bodies)] = bodies[Len(bodies)] \o a
    BY DEF Longer
<1>4. \A k \in 1..(Len(bodies) - 1) : Longer(bodies, a)[k] = bodies[k]
    BY DEF Longer
<1>5. \A more, c : MoreBody(more, c) = Longer(more, c)
    BY DEF MoreBody, Longer
<1>6. MoreBody(bodies, a) = Longer(bodies, a) /\ MoreBody(bodies, a \o b) = Longer(bodies, a \o b)
    BY <1>5
<1>7. MoreBody(Longer(bodies, a), b) = Longer(Longer(bodies, a), b)
    BY <1>1, <1>5
<1>. QED
    BY <1>1, <1>2, <1>3, <1>4, <1>6, <1>7

\* A writer under a build that has written the bodies of its builds.
Building(w, bodies) ==
    /\ IsWriter(w) /\ w.current # 0 /\ w.buffer \in Bytes
    /\ w.pages \in Seq(Bytes) /\ Len(w.pages) >= 1 /\ w.builds \in Seq(BuildRecords) /\ Len(w.builds) >= 1
    /\ Laid(Longer(w.pages, w.buffer), Lengthened(w.builds, w.buffer), bodies)

\* own of the writer's allocations are no pages.
Owning(w, own) == Len(w.pages) \in Nat /\ own \in Nat /\ w.heap = own + Len(w.pages)

\* What bytes that are written under a build leave as it is.
Kept(w, x) ==
    /\ IsWriter(x)
    /\ x.sink = w.sink /\ x.partial = w.partial /\ x.out = w.out /\ x.stash = w.stash /\ x.current = w.current
    /\ \A own : Owning(w, own) => Owning(x, own)
    /\ Len(x.builds) = Len(w.builds) /\ \A k \in 1..Len(w.builds) : SameCounts(x.builds[k], w.builds[k])

LEMMA KeptTwice ==
    ASSUME NEW w, NEW x, NEW y, Kept(w, x), Kept(x, y)
    PROVE  Kept(w, y)
BY DEF Kept, SameCounts

LEMMA KeptItself ==
    ASSUME NEW w, IsWriter(w)
    PROVE  Kept(w, w)
BY DEF Kept, SameCounts

LEMMA Applying ==
    ASSUME NEW w, IsWriter(w), NEW x, x = ApplyWrites(w)
    PROVE  /\ IsWriter(x) /\ x.pages = Longer(w.pages, w.buffer) /\ x.builds = Lengthened(w.builds, w.buffer)
           /\ x.sink = w.sink /\ x.size = w.size /\ x.luck = w.luck /\ x.partial = w.partial /\ x.error = w.error
           /\ x.buffer = w.buffer /\ x.out = w.out /\ x.heap = w.heap /\ x.current = w.current /\ x.stash = w.stash
<1>1. DOMAIN w = Fields
    BY DEF IsWriter
<1>. DEFINE p == Longer(w.pages, w.buffer)
            b == Lengthened(w.builds, w.buffer)
<1>2. x = [w EXCEPT !.pages = p, !.builds = b]
    BY DEF ApplyWrites, Longer, Lengthened
<1>. HIDE DEF p, b
<1>3. /\ IsWriter(x) /\ x.pages = p /\ x.builds = b
    BY <1>1, <1>2 DEF IsWriter, Fields
<1>4. x.sink = w.sink /\ x.size = w.size /\ x.luck = w.luck /\ x.partial = w.partial /\ x.error = w.error
    BY <1>1, <1>2 DEF Fields
<1>5. x.buffer = w.buffer /\ x.out = w.out /\ x.heap = w.heap /\ x.current = w.current /\ x.stash = w.stash
    BY <1>1, <1>2 DEF Fields
<1>. QED
    BY <1>3, <1>4, <1>5 DEF p, b

LEMMA AddingPage ==
    ASSUME NEW w, IsWriter(w), w.error = "ok", NEW x, x = AddPage(w)
    PROVE  /\ IsWriter(x) /\ x.builds = w.builds
           /\ x.sink = w.sink /\ x.size = w.size /\ x.partial = w.partial
           /\ x.buffer = w.buffer /\ x.out = w.out /\ x.current = w.current /\ x.stash = w.stash
           /\ \/ x.error = "ok" /\ x.pages = Append(w.pages, <<>>) /\ x.heap = w.heap + 1
              \/ x.error = "memory" /\ x.pages = w.pages /\ x.heap = w.heap
<1>1. DOMAIN w = Fields
    BY DEF IsWriter
<1>2. CASE Fails(w)
    <2>1. x = [w EXCEPT !.error = "memory"]
        BY <1>2 DEF AddPage, Flag
    <2>. QED
        BY <1>1, <2>1 DEF IsWriter, Fields
<1>3. CASE ~Fails(w)
    <2>. DEFINE s == Spent(w)
    <2>1. /\ DOMAIN s = Fields /\ s.error = w.error /\ s.builds = w.builds /\ s.sink = w.sink /\ s.size = w.size
          /\ s.partial = w.partial /\ s.buffer = w.buffer /\ s.out = w.out /\ s.current = w.current
          /\ s.stash = w.stash /\ s.pages = w.pages /\ s.heap = w.heap
        BY <1>1 DEF Spent, Fields
    <2>2. x = [s EXCEPT !.pages = Append(@, <<>>), !.heap = @ + 1]
        BY <1>3 DEF AddPage
    <2>. HIDE DEF s
    <2>3. x.pages = Append(s.pages, <<>>) /\ x.heap = s.heap + 1
        BY <2>1, <2>2 DEF Fields
    <2>4. /\ IsWriter(x) /\ x.builds = s.builds /\ x.sink = s.sink /\ x.size = s.size /\ x.partial = s.partial
        BY <2>1, <2>2 DEF IsWriter, Fields
    <2>5. x.buffer = s.buffer /\ x.out = s.out /\ x.current = s.current /\ x.stash = s.stash /\ x.error = s.error
        BY <2>1, <2>2 DEF Fields
    <2>. QED
        BY <2>1, <2>3, <2>4, <2>5
<1>. QED
    BY <1>2, <1>3

LEMMA Configuring ==
    ASSUME NEW w, IsWriter(w), NEW x, x = ConfigureBuffer(w)
    PROVE  /\ IsWriter(x) /\ x.builds = w.builds /\ x.pages = w.pages /\ x.sink = w.sink /\ x.partial = w.partial
           /\ x.error = w.error /\ x.out = w.out /\ x.heap = w.heap /\ x.current = w.current /\ x.stash = w.stash
           /\ w.error = "ok" => x.buffer = <<>>
<1>1. DOMAIN w = Fields
    BY DEF IsWriter
<1>. DEFINE s == PageSize - BytesUsed(Last(w.pages))
<1>2. x = IF w.error # "ok" THEN w ELSE [w EXCEPT !.buffer = <<>>, !.size = s]
    BY DEF ConfigureBuffer
<1>. HIDE DEF s
<1>. QED
    BY <1>1, <1>2 DEF IsWriter, Fields

LEMMA AppendedPage ==
    ASSUME NEW pages \in Seq(Bytes)
    PROVE  Append(pages, <<>>) \in Seq(Bytes) /\ Len(Append(pages, <<>>)) = Len(pages) + 1 /\ Len(pages) \in Nat
BY Nothings

LEMMA Flushed ==
    ASSUME NEW w, NEW bodies, Building(w, bodies), w.error = "ok", NEW x, x = BuilderFlush(w)
    PROVE  /\ Kept(w, x) /\ x.error \in {"ok", "memory"}
           /\ x.error = "ok" =>
                /\ x.buffer = <<>> /\ x.pages = Append(Longer(w.pages, w.buffer), <<>>)
                /\ x.builds = Lengthened(w.builds, w.buffer)
<1>. DEFINE a == ApplyWrites(w)
            p == AddPage(a)
<1>1. /\ IsWriter(a) /\ a.pages = Longer(w.pages, w.buffer) /\ a.builds = Lengthened(w.builds, w.buffer)
      /\ a.sink = w.sink /\ a.size = w.size /\ a.luck = w.luck /\ a.partial = w.partial /\ a.error = w.error
      /\ a.buffer = w.buffer /\ a.out = w.out /\ a.heap = w.heap /\ a.current = w.current /\ a.stash = w.stash
    <2>1. IsWriter(w)
        BY DEF Building
    <2>2. a = ApplyWrites(w)
        OBVIOUS
    <2>. HIDE DEF a
    <2>. QED
        BY <2>1, <2>2, Applying
<1>2. /\ IsWriter(p) /\ p.builds = a.builds
      /\ p.sink = a.sink /\ p.size = a.size /\ p.partial = a.partial
      /\ p.buffer = a.buffer /\ p.out = a.out /\ p.current = a.current /\ p.stash = a.stash
      /\ \/ p.error = "ok" /\ p.pages = Append(a.pages, <<>>) /\ p.heap = a.heap + 1
         \/ p.error = "memory" /\ p.pages = a.pages /\ p.heap = a.heap
    <2>1. a.error = "ok"
        BY <1>1
    <2>2. p = AddPage(a)
        OBVIOUS
    <2>. HIDE DEF a, p
    <2>. QED
        BY <1>1, <2>1, <2>2, AddingPage
<1>3. x = ConfigureBuffer(p)
    BY DEF BuilderFlush
<1>. HIDE DEF a, p
<1>4. /\ IsWriter(x) /\ x.builds = p.builds /\ x.pages = p.pages /\ x.sink = p.sink /\ x.partial = p.partial
      /\ x.error = p.error /\ x.out = p.out /\ x.heap = p.heap /\ x.current = p.current /\ x.stash = p.stash
      /\ p.error = "ok" => x.buffer = <<>>
    BY <1>2, <1>3, Configuring
<1>5. /\ w.pages \in Seq(Bytes) /\ Len(w.pages) >= 1 /\ w.builds \in Seq(BuildRecords) /\ Len(w.builds) >= 1
      /\ w.buffer \in Bytes
    BY DEF Building
<1>6. a.pages \in Seq(Bytes) /\ Len(a.pages) = Len(w.pages)
    BY <1>1, <1>5, LongerTwice
<1>7. Len(x.builds) = Len(w.builds) /\ \A k \in 1..Len(w.builds) : SameCounts(x.builds[k], w.builds[k])
    <2>. DEFINE b == Lengthened(w.builds, w.buffer)
    <2>1. /\ Len(b) = Len(w.builds) /\ \A k \in 1..(Len(w.builds) - 1) : b[k] = w.builds[k]
          /\ SameCounts(b[Len(w.builds)], w.builds[Len(w.builds)])
        BY <1>5, LengthenedBuilds
    <2>2. x.builds = b
        BY <1>1, <1>2, <1>4
    <2>. HIDE DEF b
    <2>3. ASSUME NEW k \in 1..Len(w.builds)
          PROVE  SameCounts(b[k], w.builds[k])
        <3>1. k \in 1..(Len(w.builds) - 1) \/ k = Len(w.builds)
            BY <1>5
        <3>. QED
            BY <2>1, <3>1 DEF SameCounts
    <2>. QED
        BY <2>1, <2>2, <2>3
<1>8. ASSUME NEW own, Owning(w, own)
      PROVE  Owning(x, own)
    <2>1. own \in Nat /\ w.heap = own + Len(w.pages) /\ Len(w.pages) \in Nat
        BY <1>8 DEF Owning
    <2>2. CASE p.error = "ok"
        <3>1. Len(x.pages) = Len(w.pages) + 1 /\ x.heap = w.heap + 1
            BY <1>1, <1>2, <1>4, <1>6, <2>2, AppendedPage
        <3>. DEFINE n == Len(w.pages)
                    h == w.heap
        <3>2. Len(x.pages) = n + 1 /\ x.heap = h + 1 /\ h = own + n /\ n \in Nat
            BY <2>1, <3>1
        <3>. HIDE DEF n, h
        <3>3. x.heap = own + (n + 1) /\ n + 1 \in Nat
            BY <2>1, <3>2
        <3>. QED
            BY <2>1, <3>2, <3>3 DEF Owning
    <2>3. CASE p.error # "ok"
        <3>1. Len(x.pages) = Len(w.pages) /\ x.heap = w.heap
            BY <1>1, <1>2, <1>4, <1>6, <2>3
        <3>. QED
            BY <2>1, <3>1 DEF Owning
    <2>. QED
        BY <2>2, <2>3
<1>9. Kept(w, x)
    BY <1>1, <1>2, <1>4, <1>7, <1>8 DEF Kept
<1>. QED
    BY <1>1, <1>2, <1>4, <1>9

Lengthens(w, more, x) ==
    /\ IsWriter(x) /\ x.builds = w.builds /\ x.pages = w.pages /\ x.sink = w.sink /\ x.partial = w.partial
    /\ x.error = w.error /\ x.out = w.out /\ x.heap = w.heap /\ x.current = w.current /\ x.stash = w.stash
    /\ x.size = w.size /\ x.buffer = w.buffer \o more
LEMMA Putting ==
    ASSUME NEW w, IsWriter(w), NEW more, NEW x, x = Put(w, more)
    PROVE  Lengthens(w, more, x)
<1>1. DOMAIN w = Fields
    BY DEF IsWriter
<1>2. x = [w EXCEPT !.buffer = w.buffer \o more]
    BY DEF Put
<1>. QED
    BY <1>1, <1>2 DEF IsWriter, Fields, Lengthens

LEMMA KeptPut ==
    ASSUME NEW w, IsWriter(w), NEW more, NEW x, x = Put(w, more)
    PROVE  Kept(w, x)
<1>1. Lengthens(w, more, x)
    BY Putting
<1>. QED
    BY <1>1 DEF Lengthens, Kept, Owning, SameCounts

\* What bytes written under a build make of it.
Written(w, bodies, more, x) ==
    /\ Kept(w, x) /\ x.error \in {"ok", "memory"}
    /\ x.error = "ok" => Building(x, MoreBody(bodies, more))

LEMMA BuildPut ==
    ASSUME NEW w, NEW bodies, Building(w, bodies), w.error = "ok", NEW more \in Bytes, Len(more) > 0,
           NEW x, x = Put(w, more)
    PROVE  Written(w, bodies, more, x)
<1>1. /\ w.pages \in Seq(Bytes) /\ Len(w.pages) >= 1 /\ w.builds \in Seq(BuildRecords) /\ Len(w.builds) >= 1
      /\ w.buffer \in Bytes /\ IsWriter(w) /\ w.current # 0
      /\ Laid(Longer(w.pages, w.buffer), Lengthened(w.builds, w.buffer), bodies)
    BY DEF Building
<1>2. /\ IsWriter(x) /\ x.builds = w.builds /\ x.pages = w.pages /\ x.current = w.current
      /\ x.error = w.error /\ x.buffer = w.buffer \o more
    <2>1. Lengthens(w, more, x)
        BY <1>1, Putting
    <2>. QED
        BY <2>1 DEF Lengthens
<1>3. Kept(w, x)
    BY <1>1, KeptPut
<1>. DEFINE pages == Longer(w.pages, w.buffer)
            builds == Lengthened(w.builds, w.buffer)
<1>4. Laid(Longer(pages, more), Lengthened(builds, more), MoreBody(bodies, more))
    <2>1. Laid(pages, builds, bodies)
        BY <1>1
    <2>. HIDE DEF pages, builds
    <2>. QED
        BY <2>1, LaidLonger
<1>5. Longer(pages, more) = Longer(x.pages, x.buffer) /\ Lengthened(builds, more) = Lengthened(x.builds, x.buffer)
    BY <1>1, <1>2, LongerTwice, LengthenedTwice
<1>6. x.buffer \in Bytes
    BY <1>1, <1>2, Join
<1>. HIDE DEF pages, builds
<1>7. Building(x, MoreBody(bodies, more))
    BY <1>1, <1>2, <1>4, <1>5, <1>6 DEF Building
<1>. QED
    BY <1>2, <1>3, <1>7 DEF Written

LEMMA FlushPut ==
    ASSUME NEW w, NEW bodies, Building(w, bodies), w.error = "ok", NEW more \in Bytes, Len(more) > 0,
           NEW f, f = BuilderFlush(w), f.error = "ok", NEW x, x = Put(f, more)
    PROVE  Written(w, bodies, more, x)
<1>1. /\ w.pages \in Seq(Bytes) /\ Len(w.pages) >= 1 /\ w.builds \in Seq(BuildRecords) /\ Len(w.builds) >= 1
      /\ w.buffer \in Bytes /\ IsWriter(w) /\ w.current # 0
      /\ Laid(Longer(w.pages, w.buffer), Lengthened(w.builds, w.buffer), bodies)
    BY DEF Building
<1>. DEFINE pages == Longer(w.pages, w.buffer)
            builds == Lengthened(w.builds, w.buffer)
<1>2. /\ Kept(w, f) /\ f.buffer = <<>> /\ f.pages = Append(pages, <<>>) /\ f.builds = builds
    BY Flushed
<1>3. IsWriter(f) /\ f.current = w.current
    BY <1>2 DEF Kept
<1>4. /\ IsWriter(x) /\ x.builds = f.builds /\ x.pages = f.pages /\ x.current = f.current
      /\ x.error = f.error /\ x.buffer = f.buffer \o more
    <2>1. Lengthens(f, more, x)
        BY <1>3, Putting
    <2>. QED
        BY <2>1 DEF Lengthens
<1>5. Kept(w, x)
    <2>1. Kept(f, x)
        BY <1>3, KeptPut
    <2>. QED
        BY <1>2, <2>1, KeptTwice
<1>6. x.buffer = more
    BY <1>2, <1>4, Join
<1>7. /\ pages \in Seq(Bytes) /\ Len(pages) = Len(w.pages)
      /\ builds \in Seq(BuildRecords) /\ Len(builds) = Len(w.builds)
    BY <1>1, LongerTwice, LengthenedTwice
<1>8. Laid(pages, builds, bodies)
    BY <1>1
<1>. HIDE DEF pages, builds
<1>9. Laid(Longer(Append(pages, <<>>), more), Lengthened(builds, more), MoreBody(bodies, more))
    BY <1>8, LaidTurned
<1>10. Append(pages, <<>>) \in Seq(Bytes) /\ Len(Append(pages, <<>>)) >= 1
    <2>. DEFINE n == Len(pages)
    <2>1. Append(pages, <<>>) \in Seq(Bytes) /\ Len(Append(pages, <<>>)) = n + 1 /\ n \in Nat
        BY <1>7, AppendedPage
    <2>. HIDE DEF n
    <2>. QED
        BY <2>1
<1>11. Building(x, MoreBody(bodies, more))
    BY <1>1, <1>2, <1>3, <1>4, <1>6, <1>7, <1>9, <1>10 DEF Building
<1>. QED
    BY <1>4, <1>5, <1>11 DEF Written

LEMMA Roomy ==
    ASSUME NEW w, NEW bodies, Building(w, bodies), w.error = "ok", NEW more \in Bytes, Len(more) > 0,
           NEW f, f \in {w, BuilderFlush(w)}, NEW x, x = IF f.error = "ok" THEN Put(f, more) ELSE f
    PROVE  Written(w, bodies, more, x)
<1>1. CASE f = w
    BY <1>1, BuildPut
<1>2. CASE f = BuilderFlush(w) /\ f.error = "ok"
    BY <1>2, FlushPut
<1>3. CASE f = BuilderFlush(w) /\ f.error # "ok"
    <2>1. Kept(w, f) /\ f.error \in {"ok", "memory"}
        BY <1>3, Flushed
    <2>. QED
        BY <1>3, <2>1 DEF Written
<1>. QED
    BY <1>1, <1>2, <1>3

LEMMA BuildEncoded ==
    ASSUME NEW w, NEW bodies, Building(w, bodies), w.error = "ok", NEW more \in Bytes, Len(more) > 0,
           NEW x, x = WriteEncoded(w, more)
    PROVE  Written(w, bodies, more, x)
<1>1. CASE Left(w) >= Len(more)
    BY <1>1, BuildPut DEF WriteEncoded
<1>2. CASE ~(Left(w) >= Len(more))
    <2>1. w.current # 0
        BY DEF Building
    <2>. DEFINE f == BuilderFlush(w)
    <2>2. x = IF f.error = "ok" THEN Put(f, more) ELSE f
        BY <1>2, <2>1 DEF WriteEncoded, Ensure, Then
    <2>3. f \in {w, BuilderFlush(w)}
        OBVIOUS
    <2>. HIDE DEF f
    <2>. QED
        BY <2>2, <2>3, Roomy
<1>. QED
    BY <1>1, <1>2

LEMMA BuildByte ==
    ASSUME NEW w, NEW bodies, Building(w, bodies), w.error = "ok", NEW byte \in Octets,
           NEW x, x = WriteByte(w, byte)
    PROVE  Written(w, bodies, <<byte>>, x)
<1>. DEFINE f == IF Left(w) = 0 THEN BuilderFlush(w) ELSE w
<1>1. x = IF f.error = "ok" THEN Put(f, <<byte>>) ELSE f
    BY DEF WriteByte, Then
<1>2. f \in {w, BuilderFlush(w)}
    OBVIOUS
<1>3. <<byte>> \in Bytes /\ Len(<<byte>>) > 0
    BY DEF Bytes
<1>. HIDE DEF f
<1>. QED
    BY <1>1, <1>2, <1>3, Roomy

Poured(x, byte) == IF x.error = "ok" THEN WriteByte(x, byte) ELSE x
Pouring(w, bytes, f, n) == [m \in 0..n |-> IF m = 0 THEN w ELSE Poured(f[m - 1], bytes[m])]

LEMMA PourExists ==
    ASSUME NEW w, NEW bytes, NEW n \in Nat
    PROVE  \E f : f = Pouring(w, bytes, f, n)
<1>. DEFINE Go(c, i) == Poured(c, bytes[i])
            F(f, m) == [i \in 0..m |-> IF i = 0 THEN w ELSE Go(f[i - 1], i)]
            S == {m \in Nat : ~\E f : f = F(f, m)}
<1>. HIDE DEF Go
<1>1. SUFFICES ASSUME S # {}
               PROVE  FALSE
    <2>1. SUFFICES ASSUME S = {}
                   PROVE  \E f : f = Pouring(w, bytes, f, n)
        OBVIOUS
    <2>2. PICK f : f = F(f, n)
        BY <2>1
    <2>3. F(f, n) = Pouring(w, bytes, f, n)
        BY DEF Pouring, Go
    <2>4. f = Pouring(w, bytes, f, n)
        BY <2>2, <2>3
    <2>. QED
        BY <2>4
<1>2. PICK m \in S : \A i \in S : m <= i
    BY <1>1, LeastNumber
<1>3. m # 0
    <2>1. [i \in 0..0 |-> w] = F([i \in 0..0 |-> w], 0)
        OBVIOUS
    <2>. QED
        BY <2>1
<1>4. m - 1 \in Nat /\ m - 1 \notin S
    <2>1. m \in Nat
        OBVIOUS
    <2>. HIDE DEF S
    <2>. QED
        BY <1>2, <1>3, <2>1
<1>5. PICK f : f = F(f, m - 1)
    BY <1>4
<1>. DEFINE next == [i \in 0..m |-> IF i = 0 THEN w ELSE Go(f[i - 1], i)]
<1>6. \A i \in 0..(m - 1) : next[i] = f[i]
    <2>. SUFFICES ASSUME NEW i \in 0..(m - 1)
                  PROVE  next[i] = f[i]
        OBVIOUS
    <2>1. f[i] = IF i = 0 THEN w ELSE Go(f[i - 1], i)
        BY <1>5
    <2>2. i \in 0..m
        OBVIOUS
    <2>. QED
        BY <2>1, <2>2
<1>7. next = F(next, m)
    <2>1. \A i \in 0..m : i # 0 => i - 1 \in 0..(m - 1)
        OBVIOUS
    <2>2. \A i \in 0..m : i # 0 => next[i - 1] = f[i - 1]
        <3>. HIDE DEF next
        <3>. QED
            BY <1>6, <2>1
    <2>. QED
        BY <2>2
<1>. QED
    BY <1>7

LEMMA PourSteps ==
    ASSUME NEW w, NEW bytes \in Bytes
    PROVE  \E f : /\ WritePages(w, bytes) = f[Len(bytes)] /\ f[0] = w
                  /\ \A n \in 1..Len(bytes) : f[n] = Poured(f[n - 1], bytes[n])
<1>. DEFINE N == Len(bytes)
            C(f) == Pouring(w, bytes, f, N)
            f == CHOOSE g : g = C(g)
<1>0. N \in Nat
    BY DEF Bytes
<1>1. f = C(f)
    BY <1>0, PourExists
<1>2. WritePages(w, bytes) = f[N]
    BY DEF WritePages, Pouring, Poured, Then
<1>. HIDE DEF f, N
<1>3. f[0] = w
    BY <1>0, <1>1 DEF Pouring
<1>4. ASSUME NEW n \in 1..N
      PROVE  f[n] = Poured(f[n - 1], bytes[n])
    <2>1. n \in 0..N /\ n # 0
        BY <1>0
    <2>. QED
        BY <1>1, <2>1 DEF Pouring
<1>. QED
    BY <1>2, <1>3, <1>4 DEF N

\* As much of bytes as n of them have been written, or the writer has an error.
SoFar(w, bodies, bytes, n, x) ==
    /\ Kept(w, x) /\ x.error \in {"ok", "memory"}
    /\ x.error = "ok" => Building(x, MoreBody(bodies, SubSeq(bytes, 1, n)))

LEMMA OneFurther ==
    ASSUME NEW bytes \in Bytes, NEW n \in 1..Len(bytes)
    PROVE  /\ SubSeq(bytes, 1, n - 1) \o <<bytes[n]>> = SubSeq(bytes, 1, n)
           /\ SubSeq(bytes, 1, n - 1) \in Bytes /\ <<bytes[n]>> \in Bytes /\ bytes[n] \in Octets
<1>1. bytes[n] \in Octets /\ n - 1 \in 0..Len(bytes) /\ n \in Nat /\ Len(bytes) \in Nat
    BY DEF Bytes
<1>. DEFINE a == SubSeq(bytes, 1, n - 1)
            b == SubSeq(bytes, 1, n)
<1>2. a \in Bytes /\ Len(a) = n - 1
    BY <1>1, Parts
<1>3. b \in Bytes /\ Len(b) = n
    <2>1. n \in 0..Len(bytes)
        BY <1>1
    <2>. QED
        BY <2>1, Parts
<1>4. <<bytes[n]>> \in Bytes /\ Len(<<bytes[n]>>) = 1
    BY <1>1 DEF Bytes
<1>5. /\ Len(a \o <<bytes[n]>>) = n
      /\ a \o <<bytes[n]>> \in Bytes
      /\ \A i \in 1..(n - 1) : (a \o <<bytes[n]>>)[i] = a[i]
      /\ (a \o <<bytes[n]>>)[n] = bytes[n]
    <2>. DEFINE c == <<bytes[n]>>
    <2>1. c \in Bytes /\ Len(c) = 1 /\ c[1] = bytes[n]
        BY <1>4
    <2>. HIDE DEF a, c
    <2>2. a \o c \in Bytes /\ Len(a \o c) = Len(a) + Len(c)
        BY <1>2, <2>1, Join
    <2>3. \A i \in 1..Len(a) : (a \o c)[i] = a[i]
        BY <1>2, <2>1, Join
    <2>4. \A i \in 1..Len(c) : (a \o c)[Len(a) + i] = c[i]
        BY <1>2, <2>1, Join
    <2>5. (a \o c)[(n - 1) + 1] = c[1]
        <3>1. 1 \in 1..Len(c)
            BY <2>1
        <3>2. (a \o c)[Len(a) + 1] = c[1]
            BY <2>4, <3>1
        <3>. QED
            BY <1>2, <3>2
    <2>6. (n - 1) + 1 = n
        BY <1>1
    <2>. QED
        BY <1>1, <1>2, <2>1, <2>2, <2>3, <2>5, <2>6 DEF c
<1>6. \A i \in 1..(n - 1) : a[i] = bytes[i]
    BY <1>1, <1>2 DEF Bytes
<1>7. \A i \in 1..n : b[i] = bytes[i]
    BY <1>1, <1>3 DEF Bytes
<1>. DEFINE s == a \o <<bytes[n]>>
<1>8. \A i \in 1..n : s[i] = b[i]
    <2>. SUFFICES ASSUME NEW i \in 1..n
                  PROVE  s[i] = b[i]
        OBVIOUS
    <2>1. i \in 1..(n - 1) \/ i = n
        BY <1>1
    <2>2. b[i] = bytes[i]
        BY <1>7
    <2>. HIDE DEF b
    <2>. QED
        BY <1>5, <1>6, <2>1, <2>2
<1>9. s = b
    <2>. HIDE DEF s, b
    <2>1. s \in Seq(Octets) /\ b \in Seq(Octets) /\ Len(s) = Len(b)
        BY <1>3, <1>5 DEF Bytes, s
    <2>. QED
        BY <1>3, <1>8, <2>1, SeqEqual
<1>. QED
    BY <1>1, <1>2, <1>4, <1>9

LEMMA PourOn ==
    ASSUME NEW w, NEW bodies \in Seq(Bytes), Len(bodies) >= 1, NEW bytes \in Bytes, NEW n \in 1..Len(bytes),
           NEW c, SoFar(w, bodies, bytes, n - 1, c), NEW x, x = Poured(c, bytes[n])
    PROVE  SoFar(w, bodies, bytes, n, x)
<1>1. CASE c.error # "ok"
    <2>1. x = c
        BY <1>1 DEF Poured
    <2>. QED
        BY <1>1, <2>1 DEF SoFar
<1>2. CASE c.error = "ok"
    <2>. DEFINE a == SubSeq(bytes, 1, n - 1)
                more == MoreBody(bodies, a)
                byte == bytes[n]
    <2>1. a \o <<byte>> = SubSeq(bytes, 1, n) /\ a \in Bytes /\ <<byte>> \in Bytes /\ byte \in Octets
        BY OneFurther
    <2>2. Building(c, more) /\ Kept(w, c)
        BY <1>2 DEF SoFar
    <2>3. x = WriteByte(c, byte)
        BY <1>2 DEF Poured
    <2>. HIDE DEF a, more, byte
    <2>4. Written(c, more, <<byte>>, x)
        BY <1>2, <2>1, <2>2, <2>3, BuildByte
    <2>5. MoreBody(more, <<byte>>) = MoreBody(bodies, SubSeq(bytes, 1, n))
        <3>. DEFINE b == <<byte>>
        <3>1. b \in Bytes
            BY <2>1
        <3>. HIDE DEF b
        <3>2. MoreBody(MoreBody(bodies, a), b) = MoreBody(bodies, a \o b)
            BY <2>1, <3>1, BodyTwice
        <3>. QED
            BY <2>1, <3>2 DEF more, b
    <2>6. Kept(w, x)
        BY <2>2, <2>4, KeptTwice DEF Written
    <2>. QED
        BY <2>4, <2>5, <2>6 DEF Written, SoFar
<1>. QED
    BY <1>1, <1>2

LEMMA BodiesOf ==
    ASSUME NEW w, NEW bodies, Building(w, bodies)
    PROVE  /\ bodies \in Seq(Bytes) /\ Len(bodies) >= 1 /\ Len(bodies) = Len(w.builds) /\ IsWriter(w)
           /\ w.builds \in Seq(BuildRecords) /\ Len(w.builds) >= 1 /\ w.pages \in Seq(Bytes) /\ Len(w.pages) >= 1
<1>1. /\ Laid(Longer(w.pages, w.buffer), Lengthened(w.builds, w.buffer), bodies) /\ IsWriter(w)
      /\ w.builds \in Seq(BuildRecords) /\ Len(w.builds) >= 1 /\ w.buffer \in Bytes
      /\ w.pages \in Seq(Bytes) /\ Len(w.pages) >= 1
    BY DEF Building
<1>2. Len(Lengthened(w.builds, w.buffer)) = Len(w.builds)
    BY <1>1, LengthenedBuilds
<1>3. bodies \in Seq(Bytes) /\ Len(bodies) = Len(Lengthened(w.builds, w.buffer))
    BY <1>1, LaidFacts
<1>. QED
    BY <1>1, <1>2, <1>3

LEMMA BuildPages ==
    ASSUME NEW w, NEW bodies, Building(w, bodies), w.error = "ok", NEW bytes \in Bytes,
           NEW x, x = WritePages(w, bytes)
    PROVE  Written(w, bodies, bytes, x)
<1>1. PICK f : /\ WritePages(w, bytes) = f[Len(bytes)] /\ f[0] = w
               /\ \A n \in 1..Len(bytes) : f[n] = Poured(f[n - 1], bytes[n])
    BY PourSteps
<1>2. bodies \in Seq(Bytes) /\ Len(bodies) >= 1 /\ IsWriter(w) /\ Len(bytes) \in Nat
    BY BodiesOf DEF Bytes
<1>. DEFINE S == {n \in Nat : SoFar(w, bodies, bytes, n, f[n])}
<1>3. 0 \in S
    <2>1. SubSeq(bytes, 1, 0) = <<>> /\ MoreBody(bodies, <<>>) = bodies
        BY <1>2, BodyTwice, Nothings
    <2>2. Kept(w, w)
        BY <1>2, KeptItself
    <2>. QED
        BY <1>1, <2>1, <2>2 DEF SoFar
<1>4. ASSUME NEW n \in 1..Len(bytes), n - 1 \in S
      PROVE  n \in S
    <2>1. SoFar(w, bodies, bytes, n - 1, f[n - 1]) /\ f[n] = Poured(f[n - 1], bytes[n])
        BY <1>1, <1>4
    <2>. HIDE DEF S
    <2>2. SoFar(w, bodies, bytes, n, f[n])
        BY <1>2, <2>1, PourOn
    <2>. QED
        BY <2>2 DEF S
<1>5. Len(bytes) \in S
    <2>. HIDE DEF S
    <2>1. \A i \in 0..Len(bytes) : i \in S
        BY <1>2, <1>3, <1>4, AllTheWay
    <2>. QED
        BY <1>2, <2>1
<1>6. SoFar(w, bodies, bytes, Len(bytes), x)
    BY <1>1, <1>5
<1>7. SubSeq(bytes, 1, Len(bytes)) = bytes
    BY DEF Bytes
<1>. QED
    BY <1>6, <1>7 DEF SoFar, Written

LEMMA BuildNative ==
    ASSUME NEW w, NEW bodies, Building(w, bodies), w.error = "ok", NEW more \in Bytes, Len(more) > 0,
           NEW x, x = WriteNative(w, more)
    PROVE  Written(w, bodies, more, x)
<1>1. CASE Left(w) >= Len(more)
    BY <1>1, BuildPut DEF WriteNative
<1>2. CASE ~(Left(w) >= Len(more))
    <2>1. w.current # 0
        BY DEF Building
    <2>2. x = WritePages(w, more)
        BY <1>2, <2>1 DEF WriteNative
    <2>. QED
        BY <2>2, BuildPages
<1>. QED
    BY <1>1, <1>2

\* Builds in the same places with the same bytes.
Alike(b, c) == SamePlace(b, c) /\ b.bytes = c.bytes
AllAlike(builds, others) ==
    /\ builds \in Seq(BuildRecords) /\ others \in Seq(BuildRecords) /\ Len(others) = Len(builds)
    /\ \A k \in 1..Len(builds) : Alike(builds[k], others[k])

LEMMA AlikePlaced ==
    ASSUME NEW b, NEW c, Alike(b, c), NEW edge
    PROVE  /\ Start0(b, edge) = Start0(c, edge) /\ Fin(b, edge) = Fin(c, edge)
           /\ \A end : EndOffset(b, end, edge) = EndOffset(c, end, edge)
           /\ \A P, end : Within(P, b, edge, end) => Within(P, c, edge, end)
<1>1. b.page = c.page /\ b.offset = c.offset /\ b.bytes = c.bytes
    BY DEF Alike, SamePlace
<1>2. Start0(b, edge) = Start0(c, edge)
    BY <1>1 DEF Start0
<1>3. Fin(b, edge) = Fin(c, edge)
    BY <1>1, <1>2 DEF Fin
<1>4. \A end : EndOffset(b, end, edge) = EndOffset(c, end, edge)
    BY <1>3 DEF EndOffset
<1>5. ASSUME NEW P, NEW end, Within(P, b, edge, end)
      PROVE  Within(P, c, edge, end)
    BY <1>1, <1>2, <1>3, <1>5 DEF Within
<1>. QED
    BY <1>2, <1>3, <1>4, <1>5

LEMMA AlikeFollows ==
    ASSUME NEW b, NEW c, Alike(b, c), NEW next, NEW other, Alike(next, other), NEW edge, NEW end,
           Follows(b, end, edge, next)
    PROVE  Follows(c, end, edge, other)
<1>1. EndOffset(b, end, edge) = EndOffset(c, end, edge)
    BY AlikePlaced
<1>2. next.page = other.page /\ next.offset = other.offset
    BY DEF Alike, SamePlace
<1>. QED
    BY <1>1, <1>2 DEF Follows

LEMMA LaidAlike ==
    ASSUME NEW pages, NEW builds, NEW bodies, Laid(pages, builds, bodies), NEW others, AllAlike(builds, others)
    PROVE  Laid(pages, others, bodies)
<1>1. PICK flat, edge, ends :
        /\ Spread(pages, builds, bodies, flat, edge, ends)
        /\ Settled(Len(pages), builds[Len(builds)], ends[Len(builds)], edge)
    BY DEF Laid
<1>. DEFINE n == Len(builds)
            P == Len(pages)
<1>2. /\ others \in Seq(BuildRecords) /\ Len(others) = n
      /\ \A k \in 1..n : Alike(builds[k], others[k])
    BY DEF AllAlike
<1>3. /\ Paged(pages, flat, edge) /\ P >= 1
      /\ Placed(P, builds, edge, ends)
      /\ bodies \in Seq(Bytes) /\ Len(bodies) = n
      /\ \A k \in 1..n : bodies[k] = SubSeq(flat, Start0(builds[k], edge) + 1, Fin(builds[k], edge))
    BY <1>1 DEF Spread
<1>4. /\ n \in Nat /\ n >= 1 /\ ends \in [1..n -> Nat]
      /\ \A k \in 1..n : Within(P, builds[k], edge, ends[k])
      /\ \A i \in 1..n, j \in 1..n : i < j => Start0(builds[i], edge) < Start0(builds[j], edge)
      /\ builds[1].page = 1 /\ builds[1].offset = Align(PageHeader)
      /\ \A k \in 1..(n - 1) : Follows(builds[k], ends[k], edge, builds[k + 1])
      /\ Fin(builds[n], edge) = edge[P]
    BY <1>3 DEF Placed
<1>5. Settled(P, builds[n], ends[n], edge)
    BY <1>1
<1>. HIDE DEF n, P
<1>6. ASSUME NEW k \in 1..n
      PROVE  /\ Start0(builds[k], edge) = Start0(others[k], edge) /\ Fin(builds[k], edge) = Fin(others[k], edge)
             /\ Within(P, others[k], edge, ends[k])
             /\ EndOffset(builds[k], ends[k], edge) = EndOffset(others[k], ends[k], edge)
    <2>1. Alike(builds[k], others[k]) /\ Within(P, builds[k], edge, ends[k])
        BY <1>2, <1>4
    <2>2. Start0(builds[k], edge) = Start0(others[k], edge) /\ Fin(builds[k], edge) = Fin(others[k], edge)
        BY <2>1, AlikePlaced
    <2>3. Within(P, others[k], edge, ends[k])
        BY <2>1, AlikePlaced
    <2>4. EndOffset(builds[k], ends[k], edge) = EndOffset(others[k], ends[k], edge)
        BY <2>1, AlikePlaced
    <2>. QED
        BY <2>2, <2>3, <2>4
<1>7. ASSUME NEW k \in 1..(n - 1)
      PROVE  Follows(others[k], ends[k], edge, others[k + 1])
    <2>1. k \in 1..n /\ k + 1 \in 1..n
        BY <1>4
    <2>2. Follows(builds[k], ends[k], edge, builds[k + 1])
        BY <1>4
    <2>3. Alike(builds[k], others[k]) /\ Alike(builds[k + 1], others[k + 1])
        BY <1>2, <2>1
    <2>. QED
        BY <2>2, <2>3, AlikeFollows
<1>8. Placed(P, others, edge, ends)
    <2>1. 1 \in 1..n /\ n \in 1..n
        BY <1>4
    <2>2. others[1].page = 1 /\ others[1].offset = Align(PageHeader)
        BY <1>2, <1>4, <2>1 DEF Alike, SamePlace
    <2>3. Fin(others[n], edge) = edge[P]
        BY <1>4, <1>6, <2>1
    <2>4. \A k \in 1..n : Within(P, others[k], edge, ends[k])
        BY <1>6
    <2>5. ASSUME NEW i \in 1..n, NEW j \in 1..n, i < j
          PROVE  Start0(others[i], edge) < Start0(others[j], edge)
        <3>1. Start0(builds[i], edge) < Start0(builds[j], edge)
            BY <1>4, <2>5
        <3>2. Start0(builds[i], edge) = Start0(others[i], edge) /\ Start0(builds[j], edge) = Start0(others[j], edge)
            BY <1>6
        <3>. QED
            BY <3>1, <3>2
    <2>6. /\ others \in Seq(BuildRecords) /\ Len(others) >= 1 /\ ends \in [1..Len(others) -> Nat]
        BY <1>2, <1>4
    <2>. QED
        BY <1>2, <1>7, <2>2, <2>3, <2>4, <2>5, <2>6 DEF Placed
<1>9. Spread(pages, others, bodies, flat, edge, ends)
    <2>1. ASSUME NEW k \in 1..n
          PROVE  bodies[k] = SubSeq(flat, Start0(others[k], edge) + 1, Fin(others[k], edge))
        <3>1. bodies[k] = SubSeq(flat, Start0(builds[k], edge) + 1, Fin(builds[k], edge))
            BY <1>3
        <3>. QED
            BY <1>6, <3>1
    <2>. QED
        BY <1>2, <1>3, <1>8, <2>1 DEF Spread, P
<1>10. Settled(P, others[n], ends[n], edge)
    <2>1. n \in 1..n
        BY <1>4
    <2>2. EndOffset(builds[n], ends[n], edge) = EndOffset(others[n], ends[n], edge)
        BY <1>6, <2>1
    <2>. QED
        BY <1>5, <2>2 DEF Settled
<1>. QED
    BY <1>2, <1>9, <1>10 DEF Laid, P

LEMMA BuildingAlike ==
    ASSUME NEW w, NEW bodies, Building(w, bodies), NEW x, IsWriter(x), x.current # 0, x.buffer = w.buffer,
           x.pages = w.pages, AllAlike(w.builds, x.builds)
    PROVE  Building(x, bodies)
<1>1. /\ Laid(Longer(w.pages, w.buffer), Lengthened(w.builds, w.buffer), bodies)
      /\ w.builds \in Seq(BuildRecords) /\ Len(w.builds) >= 1 /\ w.buffer \in Bytes
      /\ w.pages \in Seq(Bytes) /\ Len(w.pages) >= 1
    BY DEF Building
<1>2. /\ x.builds \in Seq(BuildRecords) /\ Len(x.builds) = Len(w.builds)
      /\ \A k \in 1..Len(w.builds) : Alike(w.builds[k], x.builds[k])
    BY DEF AllAlike
<1>. DEFINE n == Len(w.builds)
            b == Lengthened(w.builds, w.buffer)
            c == Lengthened(x.builds, w.buffer)
<1>3. /\ b \in Seq(BuildRecords) /\ Len(b) = n
      /\ \A k \in 1..(n - 1) : b[k] = w.builds[k]
      /\ b[n].bytes = w.builds[n].bytes + Len(w.buffer) /\ SamePlace(b[n], w.builds[n])
    BY <1>1, LengthenedBuilds
<1>4. /\ c \in Seq(BuildRecords) /\ Len(c) = n
      /\ \A k \in 1..(n - 1) : c[k] = x.builds[k]
      /\ c[n].bytes = x.builds[n].bytes + Len(w.buffer) /\ SamePlace(c[n], x.builds[n])
    <2>1. Len(x.builds) = n
        BY <1>2
    <2>2. /\ c \in Seq(BuildRecords) /\ Len(c) = Len(x.builds)
          /\ \A k \in 1..(Len(x.builds) - 1) : c[k] = x.builds[k]
          /\ c[Len(x.builds)].bytes = x.builds[Len(x.builds)].bytes + Len(w.buffer)
          /\ SamePlace(c[Len(x.builds)], x.builds[Len(x.builds)])
        BY <1>1, <1>2, LengthenedBuilds
    <2>. QED
        BY <2>1, <2>2
<1>. HIDE DEF b, c
<1>5. ASSUME NEW k \in 1..n
      PROVE  Alike(b[k], c[k])
    <2>1. k \in 1..(n - 1) \/ k = n
        BY <1>1
    <2>2. Alike(w.builds[k], x.builds[k])
        BY <1>2
    <2>. QED
        BY <1>3, <1>4, <2>1, <2>2 DEF Alike, SamePlace
<1>6. AllAlike(b, c)
    BY <1>3, <1>4, <1>5 DEF AllAlike
<1>7. Laid(Longer(w.pages, w.buffer), c, bodies)
    <2>1. Laid(Longer(w.pages, w.buffer), b, bodies)
        BY <1>1 DEF b
    <2>. QED
        BY <1>6, <2>1, LaidAlike
<1>. QED
    BY <1>1, <1>2, <1>7 DEF Building, c

------------------------------------------------------------------------------------
(* What the builds count: their elements, and the plain arrays and maps within. *)

\* How many objects a build holds: two for a pair of a map, and one for a key.
Elements(b) == IF b.type = "map" THEN 2 * b.count + (IF b.half THEN 1 ELSE 0) ELSE b.count

Recount(b, c, elements, levels) ==
    /\ c.parent = b.parent /\ c.type = b.type /\ c.nested = b.nested + levels
    /\ Elements(c) = Elements(b) + elements
    /\ b.type = "array" /\ ~b.half => ~c.half

\* A writer whose current build has counted as many elements and levels more.
Moved(w, x, elements, levels) ==
    /\ IsWriter(x)
    /\ x.sink = w.sink /\ x.partial = w.partial /\ x.out = w.out /\ x.stash = w.stash /\ x.current = w.current
    /\ \A own : Owning(w, own) => Owning(x, own)
    /\ Len(x.builds) = Len(w.builds)
    /\ \A k \in 1..Len(w.builds) : k # w.current => SameCounts(x.builds[k], w.builds[k])
    /\ Recount(w.builds[w.current], x.builds[w.current], elements, levels)

LEMMA ElementsOf ==
    ASSUME NEW b \in BuildRecords
    PROVE  Elements(b) \in Nat /\ b.nested \in Int /\ b.count \in Nat /\ b.half \in BOOLEAN /\ b.bytes \in Nat
           /\ b.type \in {"array", "map"} /\ b.parent \in Nat
<1>1. b.nested \in Int /\ b.count \in Nat /\ b.half \in BOOLEAN /\ b.type \in {"array", "map"} /\ b.bytes \in Nat
      /\ b.parent \in Nat
    BY DEF BuildRecords
<1>. DEFINE n == b.count
            h == IF b.half THEN 1 ELSE 0
<1>2. n \in Nat /\ h \in Nat /\ Elements(b) = IF b.type = "map" THEN 2 * n + h ELSE n
    BY <1>1 DEF Elements
<1>. HIDE DEF n, h
<1>3. 2 * n + h \in Nat
    BY <1>2
<1>. QED
    BY <1>1, <1>2, <1>3

LEMMA SameElements ==
    ASSUME NEW b, NEW c, SameCounts(c, b)
    PROVE  Elements(c) = Elements(b) /\ c.parent = b.parent /\ c.type = b.type /\ c.nested = b.nested /\ c.half = b.half
BY DEF SameCounts, Elements

LEMMA MovedKept ==
    ASSUME NEW w, NEW x, NEW y, NEW elements \in Int, NEW levels \in Int, w.current \in 1..Len(w.builds),
           Moved(w, x, elements, levels), Kept(x, y)
    PROVE  Moved(w, y, elements, levels)
<1>. DEFINE b == w.builds[w.current]
            c == x.builds[w.current]
            d == y.builds[w.current]
<1>1. /\ IsWriter(y) /\ y.sink = w.sink /\ y.partial = w.partial /\ y.out = w.out /\ y.stash = w.stash
      /\ y.current = w.current /\ Len(y.builds) = Len(w.builds)
      /\ \A own : Owning(w, own) => Owning(y, own)
    BY DEF Moved, Kept
<1>2. Len(x.builds) = Len(w.builds) /\ Recount(b, c, elements, levels)
      /\ \A k \in 1..Len(w.builds) : k # w.current => SameCounts(x.builds[k], w.builds[k])
    BY DEF Moved
<1>3. \A k \in 1..Len(x.builds) : SameCounts(y.builds[k], x.builds[k])
    BY DEF Kept
<1>4. \A k \in 1..Len(w.builds) : k # w.current => SameCounts(y.builds[k], w.builds[k])
    BY <1>2, <1>3 DEF SameCounts
<1>5. SameCounts(d, c)
    BY <1>2, <1>3
<1>. HIDE DEF b, c, d
<1>6. Recount(b, d, elements, levels)
    <2>1. Elements(d) = Elements(c) /\ d.parent = c.parent /\ d.type = c.type /\ d.nested = c.nested /\ d.half = c.half
        BY <1>5, SameElements
    <2>. QED
        BY <1>2, <2>1 DEF Recount
<1>. QED
    BY <1>1, <1>4, <1>6 DEF Moved, b, d

\* Counting changes nothing but the current build's counts.
Tallied(w, x, elements, levels) ==
    /\ IsWriter(x) /\ x.pages = w.pages /\ x.sink = w.sink /\ x.partial = w.partial
    /\ x.error = w.error /\ x.out = w.out /\ x.heap = w.heap /\ x.current = w.current /\ x.stash = w.stash
    /\ x.size = w.size /\ x.buffer = w.buffer
    /\ AllAlike(w.builds, x.builds)
    /\ \A k \in 1..Len(w.builds) : k # w.current => x.builds[k] = w.builds[k]
    /\ Recount(w.builds[w.current], x.builds[w.current], elements, levels)

Replaced(w, x, c) == x = [w EXCEPT !.builds[w.current] = c]

LEMMA Replacing ==
    ASSUME NEW w, IsWriter(w), w.builds \in Seq(BuildRecords), w.current \in 1..Len(w.builds),
           NEW x, NEW c \in BuildRecords, Replaced(w, x, c), NEW elements, NEW levels,
           Alike(w.builds[w.current], c), Recount(w.builds[w.current], c, elements, levels)
    PROVE  Tallied(w, x, elements, levels)
<1>1. DOMAIN w = Fields
    BY DEF IsWriter
<1>. DEFINE builds == [w.builds EXCEPT ![w.current] = c]
            n == Len(w.builds)
            i == w.current
<1>2. x = [w EXCEPT !.builds = builds]
    BY DEF Replaced
<1>3. builds \in Seq(BuildRecords) /\ Len(builds) = n
    OBVIOUS
<1>4. builds[i] = c /\ \A k \in 1..n : k # i => builds[k] = w.builds[k]
    OBVIOUS
<1>. HIDE DEF builds
<1>5. IsWriter(x) /\ x.builds = builds /\ x.pages = w.pages /\ x.sink = w.sink /\ x.partial = w.partial
    BY <1>1, <1>2 DEF IsWriter, Fields
<1>6. /\ x.error = w.error /\ x.out = w.out /\ x.heap = w.heap /\ x.current = w.current /\ x.stash = w.stash
      /\ x.size = w.size /\ x.buffer = w.buffer
    BY <1>1, <1>2 DEF IsWriter, Fields
<1>7. AllAlike(w.builds, x.builds)
    <2>1. ASSUME NEW k \in 1..n
          PROVE  Alike(w.builds[k], builds[k])
        <3>1. k # i => Alike(w.builds[k], builds[k])
            BY <1>4 DEF Alike, SamePlace
        <3>2. k = i => Alike(w.builds[k], builds[k])
            BY <1>4
        <3>. QED
            BY <3>1, <3>2
    <2>. QED
        BY <1>3, <1>5, <2>1 DEF AllAlike
<1>. QED
    BY <1>4, <1>5, <1>6, <1>7 DEF Tallied

LEMMA TalliedNot ==
    ASSUME NEW w, IsWriter(w), w.builds \in Seq(BuildRecords), w.current \in 1..Len(w.builds)
    PROVE  Tallied(w, w, 0, 0)
<1>. DEFINE b == w.builds[w.current]
<1>1. b \in BuildRecords
    OBVIOUS
<1>2. Recount(b, b, 0, 0)
    <2>1. Elements(b) \in Nat /\ b.nested \in Int
        BY <1>1, ElementsOf
    <2>. HIDE DEF b
    <2>. QED
        BY <2>1 DEF Recount
<1>. HIDE DEF b
<1>3. AllAlike(w.builds, w.builds)
    BY DEF AllAlike, Alike, SamePlace
<1>. QED
    BY <1>2, <1>3 DEF Tallied, b

LEMMA Tracking ==
    ASSUME NEW w, IsWriter(w), w.builds \in Seq(BuildRecords), w.current \in 1..Len(w.builds), w.current # 0,
           NEW x, x = TrackElement(w)
    PROVE  Tallied(w, x, IF w.builds[w.current].nested = 0 THEN 1 ELSE 0, 0)
<1>. DEFINE b == w.builds[w.current]
            c == IF b.type = "map" /\ ~b.half THEN [b EXCEPT !.half = TRUE]
                 ELSE [b EXCEPT !.half = FALSE, !.count = @ + 1]
<1>1. CASE b.nested # 0
    <2>1. x = w
        BY <1>1 DEF TrackElement
    <2>. QED
        BY <1>1, <2>1, TalliedNot
<1>2. CASE b.nested = 0
    <2>0. x = [w EXCEPT !.builds[w.current] = CountElement(@)]
        BY <1>2 DEF TrackElement
    <2>1. Replaced(w, x, c)
        BY <2>0 DEF Replaced, CountElement
    <2>2. b \in BuildRecords
        OBVIOUS
    <2>. HIDE DEF b
    <2>3. Elements(b) \in Nat /\ b.nested \in Int /\ b.count \in Nat /\ b.half \in BOOLEAN /\ b.type \in {"array", "map"}
        BY <2>2, ElementsOf
    <2>4. /\ c \in BuildRecords /\ Alike(b, c) /\ c.parent = b.parent /\ c.type = b.type /\ c.nested = b.nested
          /\ b.type = "map" /\ ~b.half => c.half /\ c.count = b.count
          /\ ~(b.type = "map" /\ ~b.half) => ~c.half /\ c.count = b.count + 1
        <3>1. CASE b.type = "map" /\ ~b.half
            <4>1. c = [b EXCEPT !.half = TRUE]
                BY <3>1
            <4>. HIDE DEF c
            <4>. QED
                BY <2>2, <3>1, <4>1 DEF BuildRecords, Alike, SamePlace
        <3>2. CASE ~(b.type = "map" /\ ~b.half)
            <4>. DEFINE i == b.count + 1
            <4>1. c = [b EXCEPT !.half = FALSE, !.count = i] /\ i \in Nat
                BY <2>3, <3>2
            <4>. HIDE DEF c, i
            <4>2. c \in BuildRecords /\ Alike(b, c) /\ c.parent = b.parent /\ c.type = b.type /\ c.nested = b.nested
                  /\ c.half = FALSE /\ c.count = i
                BY <2>2, <4>1 DEF BuildRecords, Alike, SamePlace
            <4>. QED
                BY <3>2, <4>2 DEF i
        <3>. QED
            BY <3>1, <3>2
    <2>5. Recount(b, c, 1, 0)
        <3>. HIDE DEF c
        <3>1. c.nested = b.nested + 0
            BY <2>3, <2>4
        <3>. DEFINE n == b.count
                    i == c.count
        <3>2. CASE b.type = "map" /\ ~b.half
            <4>1. Elements(b) = 2 * n + 0 /\ Elements(c) = 2 * i + 1 /\ i = n /\ n \in Nat
                BY <2>3, <2>4, <3>2 DEF Elements
            <4>. HIDE DEF n, i
            <4>2. Elements(c) = Elements(b) + 1
                BY <4>1
            <4>. QED
                BY <2>4, <3>1, <3>2, <4>2 DEF Recount
        <3>3. CASE b.type = "map" /\ b.half
            <4>1. Elements(b) = 2 * n + 1 /\ Elements(c) = 2 * i + 0 /\ i = n + 1 /\ n \in Nat
                BY <2>3, <2>4, <3>3 DEF Elements
            <4>. HIDE DEF n, i
            <4>2. Elements(c) = Elements(b) + 1
                BY <4>1
            <4>. QED
                BY <2>4, <3>1, <3>3, <4>2 DEF Recount
        <3>4. CASE b.type # "map"
            <4>1. Elements(b) = n /\ Elements(c) = i /\ i = n + 1 /\ n \in Nat /\ ~c.half
                BY <2>3, <2>4, <3>4 DEF Elements
            <4>. HIDE DEF n, i
            <4>2. Elements(c) = Elements(b) + 1
                BY <4>1
            <4>. QED
                BY <2>4, <3>1, <4>1, <4>2 DEF Recount
        <3>. QED
            BY <2>3, <3>2, <3>3, <3>4
    <2>. HIDE DEF c
    <2>6. Tallied(w, x, 1, 0)
        BY <2>1, <2>4, <2>5, Replacing DEF b
    <2>. QED
        BY <1>2, <2>6 DEF b
<1>. QED
    BY <1>1, <1>2

LEMMA Nesting ==
    ASSUME NEW w, IsWriter(w), w.builds \in Seq(BuildRecords), w.current \in 1..Len(w.builds), w.current # 0,
           NEW by \in {1, -1}, NEW x, x = Nest(w, by)
    PROVE  Tallied(w, x, 0, by)
<1>. DEFINE b == w.builds[w.current]
            c == [b EXCEPT !.nested = @ + by]
<1>1. Replaced(w, x, c)
    BY DEF Nest, Replaced
<1>2. b \in BuildRecords
    OBVIOUS
<1>. HIDE DEF b
<1>3. Elements(b) \in Nat /\ b.nested \in Int
    BY <1>2, ElementsOf
<1>4. b.nested + by \in Int
    <2>. DEFINE n == b.nested
    <2>. HIDE DEF n
    <2>1. n \in Int
        BY <1>3 DEF n
    <2>2. n + by \in Int
        BY <2>1
    <2>. QED
        BY <2>2 DEF n
<1>5. c \in BuildRecords /\ Alike(b, c) /\ c.parent = b.parent /\ c.type = b.type /\ c.nested = b.nested + by
      /\ c.half = b.half /\ c.count = b.count
    BY <1>2, <1>4 DEF BuildRecords, Alike, SamePlace
<1>6. Recount(b, c, 0, by)
    <2>. HIDE DEF c
    <2>1. Elements(c) = Elements(b)
        BY <1>5 DEF Elements
    <2>2. Elements(c) = Elements(b) + 0
        BY <1>3, <2>1
    <2>. QED
        BY <1>5, <2>2 DEF Recount
<1>. HIDE DEF c
<1>. QED
    BY <1>1, <1>5, <1>6, Replacing DEF b

LEMMA TalliedMoved ==
    ASSUME NEW w, NEW x, NEW elements, NEW levels, Tallied(w, x, elements, levels)
    PROVE  Moved(w, x, elements, levels)
<1>1. /\ IsWriter(x) /\ x.sink = w.sink /\ x.partial = w.partial /\ x.out = w.out /\ x.stash = w.stash
      /\ x.current = w.current /\ x.pages = w.pages /\ x.heap = w.heap
    BY DEF Tallied
<1>2. \A own : Owning(w, own) => Owning(x, own)
    BY <1>1 DEF Owning
<1>3. Len(x.builds) = Len(w.builds)
    BY DEF Tallied, AllAlike
<1>4. \A k \in 1..Len(w.builds) : k # w.current => SameCounts(x.builds[k], w.builds[k])
    BY DEF Tallied, SameCounts
<1>5. Recount(w.builds[w.current], x.builds[w.current], elements, levels)
    BY DEF Tallied
<1>. QED
    BY <1>1, <1>2, <1>3, <1>4, <1>5 DEF Moved

LEMMA TalliedBuilding ==
    ASSUME NEW w, NEW bodies, Building(w, bodies), NEW x, NEW elements, NEW levels, Tallied(w, x, elements, levels)
    PROVE  Building(x, bodies) /\ x.error = w.error
<1>1. IsWriter(x) /\ x.current # 0 /\ x.buffer = w.buffer /\ x.pages = w.pages /\ AllAlike(w.builds, x.builds)
      /\ x.error = w.error
    BY DEF Tallied, Building
<1>. QED
    BY <1>1, BuildingAlike

------------------------------------------------------------------------------------
(* The builder's operations: a page more, a build more, bytes for the last build. *)

PageAdded(w, x) ==
    /\ IsWriter(x) /\ x.builds = w.builds
    /\ x.sink = w.sink /\ x.size = w.size /\ x.partial = w.partial
    /\ x.buffer = w.buffer /\ x.out = w.out /\ x.current = w.current /\ x.stash = w.stash
    /\ \/ x.error = w.error /\ x.pages = Append(w.pages, <<>>) /\ x.heap = w.heap + 1
       \/ /\ x.error = IF w.error = "ok" THEN "memory" ELSE w.error
          /\ x.pages = w.pages /\ x.heap = w.heap

LEMMA PageAdding ==
    ASSUME NEW w, IsWriter(w), NEW x, x = AddPage(w)
    PROVE  PageAdded(w, x)
<1>1. DOMAIN w = Fields
    BY DEF IsWriter
<1>2. CASE Fails(w)
    <2>1. x = [w EXCEPT !.error = IF w.error = "ok" THEN "memory" ELSE w.error]
        <3>1. x = Flag(w, "memory")
            BY <1>2 DEF AddPage
        <3>2. w = [w EXCEPT !.error = w.error]
            BY <1>1 DEF IsWriter, Fields
        <3>. QED
            BY <3>1, <3>2 DEF Flag
    <2>. DEFINE e == IF w.error = "ok" THEN "memory" ELSE w.error
    <2>2. x = [w EXCEPT !.error = e]
        BY <2>1
    <2>. HIDE DEF e
    <2>3. x.error = e /\ x.pages = w.pages /\ x.heap = w.heap /\ IsWriter(x) /\ x.builds = w.builds
        BY <1>1, <2>2 DEF IsWriter, Fields
    <2>4. /\ x.sink = w.sink /\ x.size = w.size /\ x.partial = w.partial
          /\ x.buffer = w.buffer /\ x.out = w.out /\ x.current = w.current /\ x.stash = w.stash
        BY <1>1, <2>2 DEF Fields
    <2>. QED
        BY <2>3, <2>4 DEF PageAdded, e
<1>3. CASE ~Fails(w)
    <2>. DEFINE s == Spent(w)
    <2>1. /\ DOMAIN s = Fields /\ s.error = w.error /\ s.builds = w.builds /\ s.sink = w.sink /\ s.size = w.size
          /\ s.partial = w.partial /\ s.buffer = w.buffer /\ s.out = w.out /\ s.current = w.current
          /\ s.stash = w.stash /\ s.pages = w.pages /\ s.heap = w.heap
        BY <1>1 DEF Spent, Fields
    <2>2. x = [s EXCEPT !.pages = Append(@, <<>>), !.heap = @ + 1]
        BY <1>3 DEF AddPage
    <2>. HIDE DEF s
    <2>3. x.pages = Append(s.pages, <<>>) /\ x.heap = s.heap + 1
        BY <2>1, <2>2 DEF Fields
    <2>4. /\ IsWriter(x) /\ x.builds = s.builds /\ x.sink = s.sink /\ x.size = s.size /\ x.partial = s.partial
        BY <2>1, <2>2 DEF IsWriter, Fields
    <2>5. x.buffer = s.buffer /\ x.out = s.out /\ x.current = s.current /\ x.stash = s.stash /\ x.error = s.error
        BY <2>1, <2>2 DEF Fields
    <2>. QED
        BY <2>1, <2>3, <2>4, <2>5 DEF PageAdded
<1>. QED
    BY <1>2, <1>3

LEMMA PageOwned ==
    ASSUME NEW w, NEW x, PageAdded(w, x), w.pages \in Seq(Bytes), NEW own, Owning(w, own)
    PROVE  Owning(x, own)
<1>1. own \in Nat /\ w.heap = own + Len(w.pages) /\ Len(w.pages) \in Nat
    BY DEF Owning
<1>2. CASE x.pages = w.pages /\ x.heap = w.heap
    BY <1>1, <1>2 DEF Owning
<1>3. CASE x.pages = Append(w.pages, <<>>) /\ x.heap = w.heap + 1
    <2>1. Len(x.pages) = Len(w.pages) + 1
        BY <1>3, AppendedPage
    <2>. DEFINE n == Len(w.pages)
                h == w.heap
    <2>2. Len(x.pages) = n + 1 /\ x.heap = h + 1 /\ h = own + n /\ n \in Nat
        BY <1>1, <1>3, <2>1
    <2>. HIDE DEF n, h
    <2>3. x.heap = own + (n + 1) /\ n + 1 \in Nat
        BY <1>1, <2>2
    <2>. QED
        BY <1>1, <2>2, <2>3 DEF Owning
<1>. QED
    BY <1>2, <1>3 DEF PageAdded

NewBuild(v, type) ==
    [page |-> Len(v.pages), offset |-> BuildEnd(v) - BuildSize, parent |-> v.current, type |-> type,
     count |-> 0, bytes |-> 0, half |-> FALSE, nested |-> 0]
Fresh(b, parent, type) ==
    b.parent = parent /\ b.type = type /\ Elements(b) = 0 /\ b.half = FALSE /\ b.nested = 0

\* A writer that has a place for a build more.
Opened(v, x, type) ==
    /\ IsWriter(x) /\ x.sink = v.sink /\ x.partial = v.partial /\ x.out = v.out /\ x.stash = v.stash
    /\ \A own : Owning(v, own) => Owning(x, own)
    /\ x.builds = Append(v.builds, NewBuild(v, type)) /\ x.current = Len(v.builds) + 1

\* The pages of a writer that has a place for a build more.
Placed2(v, type) ==
    [v EXCEPT !.pages = Longer(v.pages, Zeros(BytesUsed(v.pages[Len(v.pages)]))),
              !.builds = Append(v.builds, NewBuild(v, type)), !.current = Len(v.builds) + 1]

LEMMA PlaceIs ==
    ASSUME NEW v, NEW type, v.pages \in Seq(Bytes), Len(v.pages) >= 1
    PROVE  PlaceBuild(v, type) = ConfigureBuffer(IF PageSize - BuildEnd(v) < MinBuffer THEN AddPage(Placed2(v, type))
                                                 ELSE Placed2(v, type))
<1>. DEFINE P == Len(v.pages)
            last == v.pages[P]
            zeros == [i \in 1..(BuildEnd(v) - BytesUsed(last)) |-> 0]
            placed == [v EXCEPT !.pages[P] = last \o zeros,
                                !.builds = Append(v.builds, [page |-> Len(v.pages), offset |-> BuildEnd(v) - BuildSize,
                                    parent |-> v.current, type |-> type, count |-> 0, bytes |-> 0, half |-> FALSE,
                                    nested |-> 0]),
                                !.current = Len(v.builds) + 1]
<1>1. BuildEnd(v) = Align(BytesUsed(last)) + BuildSize
    BY DEF BuildEnd, Last
<1>2. PlaceBuild(v, type) = ConfigureBuffer(IF PageSize - BuildEnd(v) < MinBuffer THEN AddPage(placed) ELSE placed)
    BY DEF PlaceBuild
<1>3. zeros = Zeros(BytesUsed(last))
    <2>. DEFINE used == BytesUsed(last)
                e == BuildEnd(v) - used
                d == Align(used) + BuildSize - used
    <2>1. e = d
        <3>. DEFINE a == Align(used)
        <3>1. used \in Nat /\ a \in Nat
            BY NextUsed
        <3>2. BuildEnd(v) = a + BuildSize
            BY <1>1
        <3>. HIDE DEF used, a, last
        <3>3. (a + BuildSize) - used = a + BuildSize - used
            BY <3>1, Sizes
        <3>. QED
            BY <3>2, <3>3 DEF a
    <2>2. zeros = [i \in 1..e |-> 0]
        OBVIOUS
    <2>3. Zeros(used) = [i \in 1..d |-> 0]
        BY DEF Zeros
    <2>. HIDE DEF used, e, d
    <2>4. zeros = Zeros(used)
        <3>. HIDE DEF zeros
        <3>. QED
            BY <2>1, <2>2, <2>3
    <2>. QED
        BY <2>4 DEF used
<1>4. placed = [v EXCEPT !.pages = [v.pages EXCEPT ![P] = last \o zeros], !.builds = Append(v.builds, NewBuild(v, type)),
                         !.current = Len(v.builds) + 1]
    BY DEF NewBuild
<1>5. [v.pages EXCEPT ![P] = last \o zeros] = Longer(v.pages, zeros)
    BY DEF Longer
<1>. HIDE DEF zeros
<1>6. placed = Placed2(v, type)
    BY <1>3, <1>4, <1>5 DEF Placed2
<1>. HIDE DEF placed
<1>. QED
    BY <1>2, <1>6

LEMMA PlacedWriter ==
    ASSUME NEW v, IsWriter(v), NEW type, NEW p, p = Placed2(v, type)
    PROVE  /\ IsWriter(p) /\ p.sink = v.sink /\ p.partial = v.partial /\ p.out = v.out /\ p.stash = v.stash
           /\ p.error = v.error /\ p.heap = v.heap /\ p.buffer = v.buffer
           /\ p.pages = Longer(v.pages, Zeros(BytesUsed(v.pages[Len(v.pages)])))
           /\ p.builds = Append(v.builds, NewBuild(v, type)) /\ p.current = Len(v.builds) + 1
<1>1. DOMAIN v = Fields
    BY DEF IsWriter
<1>. DEFINE pages == Longer(v.pages, Zeros(BytesUsed(v.pages[Len(v.pages)])))
            builds == Append(v.builds, NewBuild(v, type))
            current == Len(v.builds) + 1
<1>2. p = [v EXCEPT !.pages = pages, !.builds = builds, !.current = current]
    BY DEF Placed2
<1>. HIDE DEF pages, builds, current
<1>3. IsWriter(p) /\ p.pages = pages /\ p.builds = builds /\ p.current = current
    BY <1>1, <1>2 DEF IsWriter, Fields
<1>4. /\ p.sink = v.sink /\ p.partial = v.partial /\ p.out = v.out /\ p.stash = v.stash
      /\ p.error = v.error /\ p.heap = v.heap /\ p.buffer = v.buffer
    BY <1>1, <1>2 DEF Fields
<1>. QED
    BY <1>3, <1>4 DEF pages, builds, current

\* What the writer's builder has done once it has placed a build.
LEMMA PlaceOpens ==
    ASSUME NEW v, IsWriter(v), NEW type, v.pages \in Seq(Bytes), Len(v.pages) >= 1,
           NEW x, x = PlaceBuild(v, type)
    PROVE  /\ Opened(v, x, type) /\ x.error \in {v.error, "memory"} /\ (v.error # "ok" => x.error = v.error)
           /\ x.error = "ok" =>
                /\ x.buffer = <<>>
                /\ LET more == Longer(v.pages, Zeros(BytesUsed(v.pages[Len(v.pages)])))
                   IN  \/ x.pages = more
                       \/ x.pages = Append(more, <<>>) /\ PageSize - BuildEnd(v) < MinBuffer
<1>. DEFINE p == Placed2(v, type)
            more == Longer(v.pages, Zeros(BytesUsed(v.pages[Len(v.pages)])))
            q == IF PageSize - BuildEnd(v) < MinBuffer THEN AddPage(p) ELSE p
<1>1. /\ IsWriter(p) /\ p.sink = v.sink /\ p.partial = v.partial /\ p.out = v.out /\ p.stash = v.stash
      /\ p.error = v.error /\ p.heap = v.heap /\ p.buffer = v.buffer /\ p.pages = more
      /\ p.builds = Append(v.builds, NewBuild(v, type)) /\ p.current = Len(v.builds) + 1
    <2>1. p = Placed2(v, type)
        OBVIOUS
    <2>. HIDE DEF p
    <2>. QED
        BY <2>1, PlacedWriter
<1>2. x = ConfigureBuffer(q)
    BY PlaceIs
<1>3. more \in Seq(Bytes) /\ Len(more) = Len(v.pages)
    BY NextUsed
<1>. HIDE DEF p, more
<1>4. \/ q = p
      \/ PageAdded(p, q) /\ PageSize - BuildEnd(v) < MinBuffer
    <2>1. CASE PageSize - BuildEnd(v) < MinBuffer
        <3>1. q = AddPage(p)
            BY <2>1
        <3>. HIDE DEF q
        <3>2. PageAdded(p, q)
            BY <1>1, <3>1, PageAdding
        <3>. QED
            BY <2>1, <3>2
    <2>2. CASE ~(PageSize - BuildEnd(v) < MinBuffer)
        BY <2>2
    <2>. QED
        BY <2>1, <2>2
<1>. HIDE DEF q
<1>5. /\ IsWriter(q) /\ q.sink = p.sink /\ q.partial = p.partial /\ q.out = p.out /\ q.stash = p.stash
      /\ q.builds = p.builds /\ q.current = p.current /\ q.error \in {p.error, "memory"} /\ (p.error # "ok" => q.error = p.error)
      /\ q.error = "ok" => q.pages = p.pages \/ (q.pages = Append(p.pages, <<>>) /\ PageSize - BuildEnd(v) < MinBuffer)
    BY <1>1, <1>4 DEF PageAdded
<1>6. /\ IsWriter(x) /\ x.builds = q.builds /\ x.pages = q.pages /\ x.sink = q.sink /\ x.partial = q.partial
      /\ x.error = q.error /\ x.out = q.out /\ x.heap = q.heap /\ x.current = q.current /\ x.stash = q.stash
      /\ q.error = "ok" => x.buffer = <<>>
    BY <1>2, <1>5, Configuring
<1>7. ASSUME NEW own, Owning(v, own)
      PROVE  Owning(x, own)
    <2>1. Owning(p, own)
        BY <1>1, <1>3, <1>7 DEF Owning
    <2>2. Owning(q, own)
        <3>1. p.pages \in Seq(Bytes)
            BY <1>1, <1>3
        <3>. QED
            BY <1>4, <2>1, <3>1, PageOwned
    <2>. QED
        BY <1>6, <2>2 DEF Owning
<1>8. Opened(v, x, type)
    BY <1>1, <1>5, <1>6, <1>7 DEF Opened
<1>. QED
    BY <1>1, <1>5, <1>6, <1>8 DEF more

LEMMA NewBuildIs ==
    ASSUME NEW v, v.pages \in Seq(Bytes), Len(v.pages) >= 1, v.current \in Nat, NEW type \in {"array", "map"},
           NEW used, used = BytesUsed(v.pages[Len(v.pages)])
    PROVE  /\ NewBuild(v, type) \in BuildRecords /\ Fresh(NewBuild(v, type), v.current, type)
           /\ BuildEnd(v) = Align(used) + BuildSize /\ used \in Nat /\ Align(used) \in Nat
           /\ Align(used) + BuildSize <= PageSize => NextPlace(Len(v.pages), used, NewBuild(v, type))
<1>. DEFINE a == Align(used)
            b == NewBuild(v, type)
<1>1. used \in Nat /\ a \in Nat
    BY NextUsed
<1>2. BuildEnd(v) = a + BuildSize
    BY DEF BuildEnd, Last
<1>3. BuildEnd(v) - BuildSize = a
    <2>. HIDE DEF a
    <2>. QED
        BY <1>1, <1>2, Sizes
<1>4. b = [page |-> Len(v.pages), offset |-> a, parent |-> v.current, type |-> type, count |-> 0, bytes |-> 0,
           half |-> FALSE, nested |-> 0]
    BY <1>3 DEF NewBuild
<1>. HIDE DEF b, a
<1>5. Len(v.pages) \in Nat
    OBVIOUS
<1>6. b \in BuildRecords
    BY <1>1, <1>4, <1>5 DEF BuildRecords
<1>7. b.page = Len(v.pages) /\ b.offset = a /\ b.bytes = 0 /\ b.parent = v.current /\ b.type = type /\ b.half = FALSE
      /\ b.nested = 0 /\ b.count = 0
    BY <1>4
<1>8. Elements(b) = 0
    <2>1. 2 * 0 + 0 = 0
        OBVIOUS
    <2>. QED
        BY <1>7, <2>1 DEF Elements
<1>9. Fresh(b, v.current, type)
    BY <1>7, <1>8 DEF Fresh
<1>. QED
    BY <1>1, <1>2, <1>6, <1>7, <1>9 DEF a, b, NextPlace

LEMMA Placing ==
    ASSUME NEW v, v.error = "ok", IsWriter(v), v.pages \in Seq(Bytes), Len(v.pages) >= 1,
           v.builds \in Seq(BuildRecords), v.current \in Nat, NEW type \in {"array", "map"},
           NEW used, used = BytesUsed(v.pages[Len(v.pages)]), Align(used) + BuildSize <= PageSize,
           NEW bodies, Laid(Longer(v.pages, Zeros(used)), Append(v.builds, NewBuild(v, type)), bodies),
           BuildSize >= MinBuffer, NEW x, x = PlaceBuild(v, type), x.error = "ok"
    PROVE  Building(x, bodies)
<1>. DEFINE more == Longer(v.pages, Zeros(used))
            builds == Append(v.builds, NewBuild(v, type))
            e == Align(used) + BuildSize
<1>1. /\ NewBuild(v, type) \in BuildRecords /\ BuildEnd(v) = e /\ used \in Nat /\ Align(used) \in Nat
    BY NewBuildIs
<1>2. BytesUsed(more[Len(v.pages)]) = e /\ more \in Seq(Bytes) /\ Len(more) = Len(v.pages)
    BY NextUsed
<1>3. builds \in Seq(BuildRecords) /\ Len(builds) = Len(v.builds) + 1 /\ Len(v.builds) \in Nat
    BY <1>1
<1>4. IsWriter(x) /\ x.builds = builds /\ x.current = Len(v.builds) + 1 /\ x.buffer = <<>>
    BY PlaceOpens DEF Opened
<1>5. x.pages = more \/ (x.pages = Append(more, <<>>) /\ PageSize - BuildEnd(v) < MinBuffer)
    BY PlaceOpens
<1>6. Laid(more, builds, bodies)
    OBVIOUS
<1>. HIDE DEF more, builds
<1>7. Laid(x.pages, builds, bodies)
    <2>1. CASE x.pages = more
        BY <1>6, <2>1
    <2>2. CASE x.pages = Append(more, <<>>) /\ PageSize - BuildEnd(v) < MinBuffer
        <3>. DEFINE z == Align(e)
        <3>1. e \in Nat
            <4>. DEFINE a == Align(used)
            <4>1. a \in Nat
                BY <1>1
            <4>. HIDE DEF a
            <4>2. a + BuildSize \in Nat
                BY <4>1, Sizes
            <4>. QED
                BY <4>2 DEF a
        <3>. HIDE DEF e
        <3>2. z \in Nat /\ e <= z
            BY <3>1, Aligned
        <3>. HIDE DEF z
        <3>3. z + BuildSize > PageSize
            <4>1. PageSize - e < MinBuffer
                BY <1>1, <2>2
            <4>. QED
                BY <3>1, <3>2, <4>1, Sizes
        <3>4. Align(BytesUsed(more[Len(more)])) + BuildSize > PageSize
            BY <1>2, <3>3 DEF z
        <3>5. Laid(Append(more, <<>>), builds, bodies)
            BY <1>6, <3>4, LaidMore
        <3>. QED
            BY <2>2, <3>5
    <2>. QED
        BY <1>5, <2>1, <2>2
<1>8. x.pages \in Seq(Bytes) /\ Len(x.pages) >= 1
    BY <1>7, LaidFacts
<1>9. Len(builds) >= 1
    BY <1>3
<1>10. Longer(x.pages, <<>>) = x.pages /\ Lengthened(builds, <<>>) = builds
    BY <1>3, <1>8, <1>9, NoLonger
<1>11. x.current # 0
    BY <1>3, <1>4
<1>. QED
    BY <1>3, <1>4, <1>7, <1>8, <1>9, <1>10, <1>11, Nothings DEF Building

\* A build in another one.
Enclosed(w, x, type) ==
    /\ IsWriter(x) /\ x.sink = w.sink /\ x.partial = w.partial /\ x.out = w.out /\ x.stash = w.stash
    /\ \A own : Owning(w, own) => Owning(x, own)
    /\ Len(x.builds) = Len(w.builds) + 1 /\ x.current = Len(w.builds) + 1
    /\ \A k \in 1..Len(w.builds) : k # w.current => SameCounts(x.builds[k], w.builds[k])
    /\ Recount(w.builds[w.current], x.builds[w.current], IF w.builds[w.current].nested = 0 THEN 1 ELSE 0, 0)
    /\ Fresh(x.builds[Len(w.builds) + 1], w.current, type)

\* What the builder has gone over to before it places a build in another one.
LEMMA Applied ==
    ASSUME NEW t, NEW bodies, Building(t, bodies), t.error = "ok", NEW a, a = ApplyWrites(t)
    PROVE  /\ Kept(t, a) /\ a.error = "ok" /\ a.pages \in Seq(Bytes) /\ Len(a.pages) >= 1
           /\ a.builds \in Seq(BuildRecords) /\ Laid(a.pages, a.builds, bodies)
<1>1. /\ t.pages \in Seq(Bytes) /\ Len(t.pages) >= 1 /\ t.builds \in Seq(BuildRecords) /\ Len(t.builds) >= 1
      /\ t.buffer \in Bytes /\ IsWriter(t)
      /\ Laid(Longer(t.pages, t.buffer), Lengthened(t.builds, t.buffer), bodies)
    BY DEF Building
<1>2. /\ IsWriter(a) /\ a.pages = Longer(t.pages, t.buffer) /\ a.builds = Lengthened(t.builds, t.buffer)
      /\ a.sink = t.sink /\ a.partial = t.partial /\ a.error = t.error
      /\ a.out = t.out /\ a.heap = t.heap /\ a.current = t.current /\ a.stash = t.stash
    BY <1>1, Applying
<1>3. a.pages \in Seq(Bytes) /\ Len(a.pages) = Len(t.pages)
    BY <1>1, <1>2, LongerTwice
<1>. DEFINE b == Lengthened(t.builds, t.buffer)
            n == Len(t.builds)
<1>4. /\ Len(b) = n /\ b \in Seq(BuildRecords) /\ \A k \in 1..(n - 1) : b[k] = t.builds[k]
      /\ SameCounts(b[n], t.builds[n])
    BY <1>1, LengthenedBuilds
<1>5. ASSUME NEW k \in 1..n
      PROVE  SameCounts(b[k], t.builds[k])
    <2>. HIDE DEF b
    <2>1. k \in 1..(n - 1) \/ k = n
        BY <1>1
    <2>. QED
        BY <1>4, <2>1 DEF SameCounts
<1>. HIDE DEF b
<1>6. a.builds = b
    BY <1>2 DEF b
<1>7. \A own : Owning(t, own) => Owning(a, own)
    BY <1>2, <1>3 DEF Owning
<1>8. Kept(t, a)
    BY <1>2, <1>4, <1>5, <1>6, <1>7 DEF Kept
<1>. QED
    BY <1>1, <1>2, <1>3, <1>4, <1>6, <1>8

LEMMA KeptPage ==
    ASSUME NEW w, w.pages \in Seq(Bytes), NEW x, PageAdded(w, x)
    PROVE  Kept(w, x)
<1>1. \A own : Owning(w, own) => Owning(x, own)
    BY PageOwned
<1>. QED
    BY <1>1 DEF PageAdded, Kept, SameCounts

\* The page that the next build has its place in.
LEMMA PageForBuild ==
    ASSUME NEW a, IsWriter(a), a.error = "ok", a.pages \in Seq(Bytes), Len(a.pages) >= 1,
           NEW v, v = IF BuildEnd(a) > PageSize THEN AddPage(a) ELSE a
    PROVE  /\ Kept(a, v) /\ v.error \in {"ok", "memory"} /\ v.builds = a.builds
           /\ v.pages \in Seq(Bytes) /\ Len(v.pages) >= 1
           /\ v.error = "ok" =>
                /\ \/ v.pages = a.pages
                   \/ v.pages = Append(a.pages, <<>>) /\ Align(BytesUsed(a.pages[Len(a.pages)])) + BuildSize > PageSize
                /\ Align(BytesUsed(v.pages[Len(v.pages)])) + BuildSize <= PageSize
<1>0. /\ BuildEnd(a) = Align(BytesUsed(a.pages[Len(a.pages)])) + BuildSize
      /\ BytesUsed(a.pages[Len(a.pages)]) \in Nat /\ Align(BytesUsed(a.pages[Len(a.pages)])) \in Nat
    <2>. DEFINE used == BytesUsed(a.pages[Len(a.pages)])
    <2>1. used \in Nat /\ Align(used) \in Nat
        BY NextUsed
    <2>. QED
        BY <2>1 DEF BuildEnd, Last
<1>1. CASE ~(BuildEnd(a) > PageSize)
    <2>1. v = a
        BY <1>1
    <2>2. Kept(a, v)
        BY <2>1, KeptItself
    <2>3. BuildEnd(a) <= PageSize
        <3>. DEFINE n == Align(BytesUsed(a.pages[Len(a.pages)]))
        <3>1. n \in Nat /\ BuildEnd(a) = n + BuildSize
            BY <1>0
        <3>. HIDE DEF n
        <3>. QED
            BY <1>1, <3>1, Sizes
    <2>. QED
        BY <1>0, <2>1, <2>2, <2>3
<1>2. CASE BuildEnd(a) > PageSize
    <2>1. v = AddPage(a)
        BY <1>2
    <2>2. PageAdded(a, v)
        BY <2>1, PageAdding
    <2>3. Kept(a, v)
        BY <2>2, KeptPage
    <2>4. v.error \in {"ok", "memory"} /\ v.builds = a.builds /\ (v.error = "ok" => v.pages = Append(a.pages, <<>>))
          /\ (v.pages = a.pages \/ v.pages = Append(a.pages, <<>>))
        BY <2>2 DEF PageAdded
    <2>5. Append(a.pages, <<>>) \in Seq(Bytes) /\ Len(Append(a.pages, <<>>)) = Len(a.pages) + 1 /\ Len(a.pages) \in Nat
        BY AppendedPage
    <2>6. v.pages \in Seq(Bytes) /\ Len(v.pages) >= 1
        <3>1. Len(a.pages) + 1 >= 1
            BY <2>5
        <3>. QED
            BY <2>4, <2>5, <3>1
    <2>7. ASSUME v.error = "ok"
          PROVE  Align(BytesUsed(v.pages[Len(v.pages)])) + BuildSize <= PageSize
        <3>1. v.pages[Len(v.pages)] = <<>>
            BY <2>4, <2>5, <2>7
        <3>2. BytesUsed(<<>>) = PageHeader
            BY Sizes DEF BytesUsed
        <3>. DEFINE z == Align(PageHeader)
        <3>3. z \in Nat /\ z <= PageHeader + Alignment - 1
            BY Aligned, Sizes
        <3>. HIDE DEF z
        <3>4. z + BuildSize <= PageSize
            BY <3>3, Sizes
        <3>. QED
            BY <3>1, <3>2, <3>4 DEF z
    <2>. QED
        BY <1>0, <1>2, <2>3, <2>4, <2>6, <2>7
<1>. QED
    BY <1>1, <1>2

LEMMA OpenedEnclosed ==
    ASSUME NEW w, NEW v, NEW elements, Moved(w, v, elements, 0), w.current \in 1..Len(w.builds), Len(w.builds) \in Nat,
           elements = IF w.builds[w.current].nested = 0 THEN 1 ELSE 0,
           v.builds \in Seq(BuildRecords), NEW x, NEW type, Opened(v, x, type),
           Fresh(NewBuild(v, type), v.current, type)
    PROVE  Enclosed(w, x, type)
<1>. DEFINE n == Len(w.builds)
            new == NewBuild(v, type)
<1>1. /\ v.sink = w.sink /\ v.partial = w.partial /\ v.out = w.out /\ v.stash = w.stash /\ v.current = w.current
      /\ \A own : Owning(w, own) => Owning(v, own)
      /\ Len(v.builds) = n
      /\ \A k \in 1..n : k # w.current => SameCounts(v.builds[k], w.builds[k])
      /\ Recount(w.builds[w.current], v.builds[w.current], elements, 0)
    BY DEF Moved
<1>2. /\ IsWriter(x) /\ x.sink = v.sink /\ x.partial = v.partial /\ x.out = v.out /\ x.stash = v.stash
      /\ \A own : Owning(v, own) => Owning(x, own)
      /\ x.builds = Append(v.builds, new) /\ x.current = Len(v.builds) + 1
    BY DEF Opened
<1>. HIDE DEF new
<1>3. /\ Len(x.builds) = n + 1 /\ x.builds[n + 1] = new
      /\ \A k \in 1..n : x.builds[k] = v.builds[k]
    BY <1>1, <1>2
<1>4. \A k \in 1..n : k # w.current => SameCounts(x.builds[k], w.builds[k])
    BY <1>1, <1>3 DEF SameCounts
<1>5. Recount(w.builds[w.current], x.builds[w.current], elements, 0)
    BY <1>1, <1>3
<1>6. Fresh(x.builds[n + 1], w.current, type)
    BY <1>1, <1>3 DEF new
<1>. QED
    BY <1>1, <1>2, <1>3, <1>4, <1>5, <1>6 DEF Enclosed

LEMMA BuildNested ==
    ASSUME NEW w, NEW bodies, Building(w, bodies), w.error = "ok", w.current \in 1..Len(w.builds),
           NEW type \in {"array", "map"}, BuildSize >= MinBuffer, NEW x, x = BuildCompound(w, type)
    PROVE  /\ Enclosed(w, x, type) /\ x.error \in {"ok", "memory"}
           /\ x.error = "ok" => Building(x, Append(bodies, <<>>))
<1>. DEFINE t == TrackElement(w)
            a == ApplyWrites(t)
            v == IF BuildEnd(a) > PageSize THEN AddPage(a) ELSE a
            elements == IF w.builds[w.current].nested = 0 THEN 1 ELSE 0
<1>1. IsWriter(w) /\ w.builds \in Seq(BuildRecords) /\ w.current # 0 /\ Len(w.builds) >= 1 /\ Len(w.builds) \in Nat
      /\ elements \in Int
    BY DEF Building
<1>2. Tallied(w, t, elements, 0)
    <2>1. t = TrackElement(w)
        OBVIOUS
    <2>. HIDE DEF t
    <2>. QED
        BY <1>1, <2>1, Tracking
<1>. HIDE DEF t, elements
<1>3. Building(t, bodies) /\ t.error = "ok" /\ Moved(w, t, elements, 0) /\ t.current = w.current
    <2>1. Building(t, bodies) /\ t.error = w.error
        BY <1>2, TalliedBuilding
    <2>2. Moved(w, t, elements, 0)
        BY <1>2, TalliedMoved
    <2>. QED
        BY <2>1, <2>2 DEF Moved
<1>4. /\ Kept(t, a) /\ a.error = "ok" /\ a.pages \in Seq(Bytes) /\ Len(a.pages) >= 1
      /\ a.builds \in Seq(BuildRecords) /\ Laid(a.pages, a.builds, bodies)
    <2>1. a = ApplyWrites(t)
        OBVIOUS
    <2>. HIDE DEF a
    <2>. QED
        BY <1>3, <2>1, Applied
<1>5. IsWriter(a)
    BY <1>4 DEF Kept
<1>. HIDE DEF a
<1>6. /\ Kept(a, v) /\ v.error \in {"ok", "memory"} /\ v.builds = a.builds
      /\ v.pages \in Seq(Bytes) /\ Len(v.pages) >= 1
      /\ v.error = "ok" =>
           /\ \/ v.pages = a.pages
              \/ v.pages = Append(a.pages, <<>>) /\ Align(BytesUsed(a.pages[Len(a.pages)])) + BuildSize > PageSize
           /\ Align(BytesUsed(v.pages[Len(v.pages)])) + BuildSize <= PageSize
    <2>1. v = IF BuildEnd(a) > PageSize THEN AddPage(a) ELSE a
        OBVIOUS
    <2>. HIDE DEF v
    <2>. QED
        BY <1>4, <1>5, <2>1, PageForBuild
<1>7. x = PlaceBuild(v, type)
    <2>1. a.error = "ok" /\ t.current # 0
        BY <1>3, <1>4, <1>1
    <2>. QED
        BY <2>1 DEF BuildCompound, Then, a, t
<1>. HIDE DEF v
<1>8. Moved(w, v, elements, 0)
    <2>1. 0 \in Int
        OBVIOUS
    <2>2. Kept(t, v)
        BY <1>4, <1>6, KeptTwice
    <2>. QED
        BY <1>1, <1>3, <2>1, <2>2, MovedKept
<1>9. IsWriter(v) /\ v.current = w.current /\ v.current \in Nat
    BY <1>1, <1>8 DEF Moved
<1>10. Opened(v, x, type) /\ x.error \in {v.error, "memory"} /\ (v.error # "ok" => x.error = v.error)
    BY <1>6, <1>7, <1>9, PlaceOpens
<1>11. NewBuild(v, type) \in BuildRecords /\ Fresh(NewBuild(v, type), v.current, type)
       /\ (Align(BytesUsed(v.pages[Len(v.pages)])) + BuildSize <= PageSize
            => NextPlace(Len(v.pages), BytesUsed(v.pages[Len(v.pages)]), NewBuild(v, type)))
    BY <1>6, <1>9, NewBuildIs
<1>12. Enclosed(w, x, type)
    <2>1. elements = IF w.builds[w.current].nested = 0 THEN 1 ELSE 0
        BY DEF elements
    <2>2. v.builds \in Seq(BuildRecords)
        BY <1>4, <1>6
    <2>. QED
        BY <1>1, <1>8, <1>10, <1>11, <2>1, <2>2, OpenedEnclosed
<1>13. ASSUME x.error = "ok"
       PROVE  Building(x, Append(bodies, <<>>))
    <2>. DEFINE used == BytesUsed(v.pages[Len(v.pages)])
    <2>1. v.error = "ok"
        BY <1>6, <1>10, <1>13
    <2>2. Laid(v.pages, v.builds, bodies)
        <3>1. CASE v.pages = a.pages
            BY <1>4, <1>6, <3>1
        <3>2. CASE v.pages = Append(a.pages, <<>>) /\ Align(BytesUsed(a.pages[Len(a.pages)])) + BuildSize > PageSize
            BY <1>4, <1>6, <3>2, LaidMore
        <3>. QED
            BY <1>6, <2>1, <3>1, <3>2
    <2>3. Align(used) + BuildSize <= PageSize /\ NextPlace(Len(v.pages), used, NewBuild(v, type))
        BY <1>6, <1>11, <2>1
    <2>4. used = BytesUsed(v.pages[Len(v.pages)])
        OBVIOUS
    <2>. HIDE DEF used
    <2>5. Laid(Longer(v.pages, Zeros(used)), Append(v.builds, NewBuild(v, type)), Append(bodies, <<>>))
        BY <2>2, <2>3, <2>4, LaidNext
    <2>6. v.builds \in Seq(BuildRecords)
        BY <1>4, <1>6
    <2>. QED
        BY <1>6, <1>7, <1>9, <1>13, <2>1, <2>3, <2>4, <2>5, <2>6, Placing
<1>. QED
    BY <1>6, <1>10, <1>12, <1>13

\* The first build of a builder.
Outermost(w, x, type) ==
    /\ IsWriter(x) /\ x.sink = w.sink /\ x.partial = w.partial /\ x.out = w.out
    /\ \A own : Owning(w, own) => Owning(x, own)
    /\ \/ x.error = "memory" /\ x.current = 0 /\ x.pages = <<>>
       \/ /\ x.error \in {"ok", "memory"} /\ x.current = 1 /\ x.stash = [buffer |-> w.buffer, size |-> w.size]
          /\ Len(x.builds) = 1 /\ Fresh(x.builds[1], 0, type)
          /\ x.error = "ok" => Building(x, << <<>> >>)

LEMMA BuildOuter ==
    ASSUME NEW w, IsWriter(w), w.error = "ok", w.current = 0, w.pages = <<>>, w.builds = <<>>,
           NEW type \in {"array", "map"}, BuildSize >= MinBuffer, NEW x, x = BuildCompound(w, type)
    PROVE  Outermost(w, x, type)
<1>. DEFINE s == [w EXCEPT !.stash = [buffer |-> w.buffer, size |-> w.size]]
            b == AddPage(s)
            v == IF BuildEnd(b) > PageSize THEN AddPage(b) ELSE b
<1>1. /\ IsWriter(s) /\ s.sink = w.sink /\ s.partial = w.partial /\ s.out = w.out /\ s.heap = w.heap
      /\ s.pages = <<>> /\ s.builds = <<>> /\ s.current = 0 /\ s.error = "ok"
      /\ s.stash = [buffer |-> w.buffer, size |-> w.size]
    <2>1. DOMAIN w = Fields
        BY DEF IsWriter
    <2>. DEFINE stash == [buffer |-> w.buffer, size |-> w.size]
    <2>2. s = [w EXCEPT !.stash = stash]
        OBVIOUS
    <2>. HIDE DEF s, stash
    <2>3. /\ IsWriter(s) /\ s.sink = w.sink /\ s.partial = w.partial /\ s.out = w.out /\ s.heap = w.heap
          /\ s.pages = <<>> /\ s.builds = <<>> /\ s.current = 0 /\ s.error = "ok" /\ s.stash = stash
        BY <2>1, <2>2 DEF IsWriter, Fields
    <2>. QED
        BY <2>3 DEF stash
<1>2. PageAdded(s, b)
    <2>1. b = AddPage(s)
        OBVIOUS
    <2>. HIDE DEF b, s
    <2>. QED
        BY <1>1, <2>1, PageAdding
<1>3. x = IF b.error = "ok" THEN PlaceBuild(v, type) ELSE b
    <2>1. TrackElement(w) = w
        BY DEF TrackElement
    <2>2. BeginBuilder(w) = b
        BY DEF BeginBuilder
    <2>. QED
        BY <2>1, <2>2 DEF BuildCompound, Then
<1>. HIDE DEF b, s
<1>4. <<>> \in Seq(Bytes)
    OBVIOUS
<1>5. ASSUME NEW own, Owning(w, own)
      PROVE  Owning(b, own)
    <2>1. Owning(s, own)
        BY <1>1, <1>5 DEF Owning
    <2>2. s.pages \in Seq(Bytes)
        BY <1>1, <1>4
    <2>. QED
        BY <1>2, <2>1, <2>2, PageOwned
<1>6. /\ IsWriter(b) /\ b.sink = w.sink /\ b.partial = w.partial /\ b.out = w.out /\ b.current = 0 /\ b.builds = <<>>
      /\ b.stash = [buffer |-> w.buffer, size |-> w.size] /\ b.error \in {"ok", "memory"}
      /\ b.error = "ok" => b.pages = Append(<<>>, <<>>)
      /\ b.error # "ok" => b.pages = <<>>
    BY <1>1, <1>2 DEF PageAdded
<1>7. CASE b.error # "ok"
    BY <1>3, <1>5, <1>6, <1>7 DEF Outermost
<1>8. CASE b.error = "ok"
    <2>. DEFINE z == Align(PageHeader)
    <2>1. b.pages = << <<>> >>
        BY <1>6, <1>8
    <2>2. b.pages \in Seq(Bytes) /\ Len(b.pages) = 1 /\ BytesUsed(b.pages[Len(b.pages)]) = PageHeader
        <3>1. << <<>> >> \in Seq(Bytes)
            BY Nothings
        <3>2. BytesUsed(<<>>) = PageHeader
            BY Sizes DEF BytesUsed
        <3>. QED
            BY <2>1, <3>1, <3>2
    <2>3. z \in Nat /\ z <= PageHeader + Alignment - 1
        BY Aligned, Sizes
    <2>4. z + BuildSize <= PageSize
        <3>. HIDE DEF z
        <3>. QED
            BY <2>3, Sizes
    <2>5. /\ NewBuild(b, type) \in BuildRecords /\ Fresh(NewBuild(b, type), 0, type) /\ BuildEnd(b) = z + BuildSize
          /\ NextPlace(1, PageHeader, NewBuild(b, type))
        <3>. DEFINE used == BytesUsed(b.pages[Len(b.pages)])
        <3>1. Len(b.pages) >= 1 /\ b.current \in Nat
            BY <1>6, <2>2
        <3>. HIDE DEF z
        <3>2. /\ NewBuild(b, type) \in BuildRecords /\ Fresh(NewBuild(b, type), b.current, type)
              /\ BuildEnd(b) = Align(used) + BuildSize
              /\ Align(used) + BuildSize <= PageSize => NextPlace(Len(b.pages), used, NewBuild(b, type))
            BY <2>2, <3>1, NewBuildIs
        <3>3. used = PageHeader
            BY <2>2
        <3>. HIDE DEF used
        <3>. QED
            BY <1>6, <2>2, <2>4, <3>2, <3>3 DEF z
    <2>6. v = b
        <3>. HIDE DEF z
        <3>1. ~(BuildEnd(b) > PageSize)
            BY <2>3, <2>4, <2>5, Sizes
        <3>. QED
            BY <3>1
    <2>. HIDE DEF v
    <2>7. x = PlaceBuild(b, type)
        BY <1>3, <1>8, <2>6
    <2>8. Opened(b, x, type) /\ x.error \in {b.error, "memory"}
        BY <1>6, <2>2, <2>7, PlaceOpens
    <2>9. Len(x.builds) = 1 /\ x.builds[1] = NewBuild(b, type) /\ x.current = 1
        BY <1>6, <2>8 DEF Opened
    <2>10. ASSUME x.error = "ok"
           PROVE  Building(x, << <<>> >>)
        <3>. DEFINE new == NewBuild(b, type)
                    bodies == << <<>> >>
        <3>1. Laid(Longer(<< <<>> >>, Zeros(PageHeader)), <<new>>, bodies)
            <4>1. NextPlace(1, PageHeader, new)
                BY <2>5
            <4>. HIDE DEF new
            <4>. QED
                BY <4>1, LaidFirst
        <3>2. Append(b.builds, new) = <<new>> /\ b.builds \in Seq(BuildRecords)
            BY <1>6
        <3>. DEFINE used == PageHeader
        <3>3. Laid(Longer(b.pages, Zeros(PageHeader)), Append(b.builds, NewBuild(b, type)), bodies)
            BY <2>1, <3>1, <3>2
        <3>4. b.current \in Nat /\ Len(b.pages) >= 1 /\ PageHeader = BytesUsed(b.pages[Len(b.pages)])
              /\ Align(PageHeader) + BuildSize <= PageSize
            BY <1>6, <2>2, <2>4
        <3>. HIDE DEF bodies, new
        <3>5. Building(x, bodies)
            BY <1>6, <1>8, <2>2, <2>7, <2>10, <3>2, <3>3, <3>4, Placing
        <3>. QED
            BY <3>5 DEF bodies
    <2>11. \A own : Owning(w, own) => Owning(x, own)
        BY <1>5, <2>8 DEF Opened
    <2>. QED
        BY <1>6, <1>8, <2>5, <2>8, <2>9, <2>10, <2>11 DEF Opened, Outermost
<1>. QED
    BY <1>7, <1>8

------------------------------------------------------------------------------------
(* A build that is completed: within another one, or the outermost one. *)

\* A build in another one that is completed.
Ended(w, x, parent) ==
    /\ IsWriter(x) /\ x.sink = w.sink /\ x.partial = w.partial /\ x.out = w.out /\ x.stash = w.stash
    /\ x.current = parent
    /\ \A own : Owning(w, own) => Owning(x, own)
    /\ Len(x.builds) = Len(w.builds) /\ \A k \in 1..Len(w.builds) : SameCounts(x.builds[k], w.builds[k])

\* The build that is around a completed one goes on behind it.
LEMMA CompleteNested ==
    ASSUME NEW w, NEW bodies, Building(w, bodies), w.error = "ok",
           w.builds[w.current].half = FALSE, w.builds[w.current].nested = 0,
           NEW parent, parent = w.builds[w.current].parent, parent # 0, NEW x, x = CompleteCompound(w)
    PROVE  Ended(w, x, parent) /\ x.error = "ok" /\ Building(x, bodies)
<1>. DEFINE a == ApplyWrites(w)
<1>1. /\ Kept(w, a) /\ a.error = "ok" /\ a.pages \in Seq(Bytes) /\ Len(a.pages) >= 1
      /\ a.builds \in Seq(BuildRecords) /\ Laid(a.pages, a.builds, bodies)
    BY Applied
<1>2. x = ConfigureBuffer([a EXCEPT !.current = parent])
    BY DEF CompleteCompound
<1>. HIDE DEF a
<1>. DEFINE c == [a EXCEPT !.current = parent]
<1>3. DOMAIN a = Fields
    BY <1>1 DEF Kept, IsWriter
<1>4. IsWriter(c) /\ c.current = parent
    BY <1>3 DEF IsWriter, Fields
<1>5. /\ c.sink = a.sink /\ c.partial = a.partial /\ c.out = a.out /\ c.stash = a.stash /\ c.heap = a.heap
      /\ c.error = a.error /\ c.pages = a.pages /\ c.builds = a.builds
    BY <1>3 DEF Fields
<1>6. x = ConfigureBuffer(c)
    BY <1>2
<1>. HIDE DEF c
<1>7. /\ IsWriter(x) /\ x.builds = c.builds /\ x.pages = c.pages /\ x.sink = c.sink /\ x.partial = c.partial
      /\ x.error = c.error /\ x.out = c.out /\ x.heap = c.heap /\ x.current = c.current /\ x.stash = c.stash
      /\ c.error = "ok" => x.buffer = <<>>
    BY <1>4, <1>6, Configuring
<1>8. x.error = "ok" /\ x.buffer = <<>> /\ x.pages = a.pages /\ x.builds = a.builds
    BY <1>1, <1>5, <1>7
<1>9. Len(a.builds) >= 1
    BY <1>1, LaidFacts
<1>10. Longer(x.pages, <<>>) = x.pages /\ Lengthened(x.builds, <<>>) = x.builds
    BY <1>1, <1>8, <1>9, NoLonger
<1>11. Building(x, bodies)
    BY <1>1, <1>4, <1>7, <1>8, <1>9, <1>10, Nothings DEF Building
<1>12. \A own : Owning(w, own) => Owning(x, own)
    BY <1>1, <1>5, <1>7 DEF Kept, Owning
<1>13. Ended(w, x, parent)
    BY <1>1, <1>4, <1>5, <1>7, <1>8, <1>12 DEF Ended, Kept
<1>. QED
    BY <1>8, <1>11, <1>13

\* What is told of each build depends on its type and its count alone.
LEMMA ToldAlike ==
    ASSUME NEW builds, NEW bodies, NEW told, Told(builds, bodies, told), NEW others, Len(others) = Len(builds),
           \A k \in 1..Len(builds) : SameCounts(others[k], builds[k])
    PROVE  Told(others, bodies, told)
<1>1. ASSUME NEW k \in 1..Len(builds)
      PROVE  others[k].type = builds[k].type /\ others[k].count = builds[k].count
    BY DEF SameCounts
<1>. QED
    BY <1>1 DEF Told

LEMMA Restoring ==
    ASSUME NEW w, IsWriter(w), NEW x, x = Restored(w)
    PROVE  /\ IsWriter(x) /\ x.sink = w.sink /\ x.partial = w.partial /\ x.out = w.out /\ x.luck = w.luck
           /\ x.error = w.error /\ x.heap = w.heap
           /\ x.buffer = w.stash.buffer /\ x.size = w.stash.size /\ x.stash = <<>>
           /\ x.current = 0 /\ x.pages = <<>> /\ x.builds = <<>>
<1>1. DOMAIN w = Fields
    BY DEF IsWriter
<1>. DEFINE b == w.stash.buffer
            s == w.stash.size
<1>2. x = [w EXCEPT !.buffer = b, !.size = s, !.stash = <<>>, !.current = 0, !.pages = <<>>, !.builds = <<>>]
    BY DEF Restored
<1>. HIDE DEF b, s
<1>3. /\ IsWriter(x) /\ x.buffer = b /\ x.size = s /\ x.stash = <<>>
      /\ x.current = 0 /\ x.pages = <<>> /\ x.builds = <<>>
    BY <1>1, <1>2 DEF IsWriter, Fields
<1>4. /\ x.sink = w.sink /\ x.partial = w.partial /\ x.out = w.out /\ x.luck = w.luck
      /\ x.error = w.error /\ x.heap = w.heap
    BY <1>1, <1>2 DEF Fields
<1>. QED
    BY <1>3, <1>4 DEF b, s

\* The outermost build that is completed: every byte behind what was there before.
Resolved(w, x) ==
    /\ x.sink = w.sink /\ x.partial = w.partial /\ x.current = 0 /\ x.pages = <<>> /\ x.builds = <<>>
    /\ \A own : Owning(w, own) => Owning(x, own)
    /\ w.sink = "fixed" => x.size = w.stash.size

LEMMA CompleteOuter ==
    ASSUME NEW w, NEW bodies, Building(w, bodies), w.error = "ok", w.heap \in Int,
           w.builds[w.current].half = FALSE, w.builds[w.current].nested = 0, w.builds[w.current].parent = 0,
           NEW told, Told(w.builds, bodies, told), Holds(Restored(w), told[0]),
           NEW x, x = CompleteCompound(w)
    PROVE  Holds(x, told[Len(w.builds)]) /\ Resolved(w, x)
<1>. DEFINE a == ApplyWrites(w)
            r == Restored(a)
            s == Restored(w)
<1>1. /\ Kept(w, a) /\ a.error = "ok" /\ a.pages \in Seq(Bytes) /\ Len(a.pages) >= 1
      /\ a.builds \in Seq(BuildRecords) /\ Laid(a.pages, a.builds, bodies)
    BY Applied
<1>2. x = WriteBuilds(r, a.pages, a.builds)
    BY DEF CompleteCompound, Resolve
<1>3. IsWriter(w) /\ a.heap = w.heap
    <2>1. IsWriter(w)
        BY DEF Building
    <2>. QED
        BY <2>1, Applying
<1>. HIDE DEF a
<1>4. /\ IsWriter(r) /\ r.sink = a.sink /\ r.partial = a.partial /\ r.out = a.out
      /\ r.error = a.error /\ r.heap = a.heap
      /\ r.buffer = a.stash.buffer /\ r.size = a.stash.size
      /\ r.current = 0 /\ r.pages = <<>> /\ r.builds = <<>>
    BY <1>1, Restoring DEF Kept
<1>5. /\ s.sink = w.sink /\ s.partial = w.partial /\ s.out = w.out
      /\ s.error = w.error /\ s.buffer = w.stash.buffer /\ s.size = w.stash.size
    BY <1>3, Restoring
<1>6. Holds(s, told[0])
    OBVIOUS
<1>. HIDE DEF r, s
<1>7. /\ a.sink = w.sink /\ a.partial = w.partial /\ a.out = w.out /\ a.stash = w.stash
      /\ Len(a.builds) = Len(w.builds) /\ \A k \in 1..Len(w.builds) : SameCounts(a.builds[k], w.builds[k])
    BY <1>1 DEF Kept
<1>8. /\ r.sink = s.sink /\ r.partial = s.partial /\ r.out = s.out /\ r.error = s.error
      /\ r.buffer = s.buffer /\ r.size = s.size
    BY <1>1, <1>4, <1>5, <1>7
<1>9. Holds(r, told[0])
    BY <1>4, <1>6, <1>8 DEF Holds
<1>10. Told(a.builds, bodies, told)
    BY <1>7, ToldAlike
<1>11. PICK flat, edge, ends :
        /\ Spread(a.pages, a.builds, bodies, flat, edge, ends)
        /\ Settled(Len(a.pages), a.builds[Len(a.builds)], ends[Len(a.builds)], edge)
    BY <1>1 DEF Laid
<1>12. r.heap \in Int /\ r.heap = w.heap
    BY <1>3, <1>4
<1>13. Holds(x, told[Len(a.builds)]) /\ Walked(r, x) /\ x.heap = r.heap - Len(a.pages)
    BY <1>2, <1>4, <1>9, <1>10, <1>11, <1>12, BuildsWalk
<1>14. ASSUME NEW own, Owning(w, own)
       PROVE  Owning(x, own)
    <2>1. Owning(a, own)
        BY <1>1, <1>14 DEF Kept
    <2>2. x.pages = <<>> /\ x.heap = a.heap - Len(a.pages)
        BY <1>4, <1>13 DEF Walked
    <2>3. x.heap = own /\ own \in Nat
        BY <2>1, <2>2 DEF Owning
    <2>4. Len(x.pages) = 0
        BY <2>2
    <2>. QED
        BY <2>3, <2>4 DEF Owning
<1>15. Resolved(w, x)
    BY <1>4, <1>7, <1>13, <1>14 DEF Resolved, Walked
<1>. QED
    BY <1>7, <1>13, <1>15
====================================================================================
