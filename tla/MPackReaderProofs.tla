----------------------------- MODULE MPackReaderProofs -----------------------------
(* What the reader of mpack gives is what the writer's user said: every call for a    *)
(* tag, for bytes or for something expected, whatever the source, the buffer and the  *)
(* sizes of the pieces that arrive.                                                    *)
EXTENDS MPackStreamProofs, FiniteSetTheorems

------------------------------------------------------------------------------------
(* Numbers as bytes, and the bytes read back as numbers. *)

\* Whole chunks, until there are enough.
LEMMA DivisionIs ==
    ASSUME NEW a \in Nat, NEW c \in Nat, c > 0
    PROVE  a \div c \in Nat /\ c * (a \div c) <= a /\ a < c * (a \div c) + c
<1>1. a \div c \in Int
    OBVIOUS
<1>2. a = c * (a \div c) + (a % c) /\ (a % c) \in 0..(c - 1)
    OBVIOUS
<1>. DEFINE q == a \div c
            k == c * q
<1>3. k \in Int
    BY <1>1
<1>4. q >= 0
    OBVIOUS
<1>. QED
    BY <1>1, <1>2, <1>3, <1>4

LEMMA ChunksEnough ==
    ASSUME NEW min \in Nat, NEW chunk \in Nat, chunk > 0
    PROVE  LET calls == (min + chunk - 1) \div chunk IN calls * chunk \in Nat /\ calls * chunk >= min
<1>. DEFINE a == min + (chunk - 1)
            q == a \div chunk
            k == chunk * q
<1>1. a \in Nat /\ min + chunk - 1 = a
    OBVIOUS
<1>2. q \in Nat /\ k <= a /\ a < k + chunk
    <2>. HIDE DEF a
    <2>. QED
        BY <1>1, DivisionIs
<1>3. k \in Nat /\ q * chunk = k
    <2>. HIDE DEF a
    <2>. QED
        BY <1>2
<1>4. k >= min
    <2>. HIDE DEF k
    <2>. QED
        BY <1>1, <1>2, <1>3
<1>. QED
    BY <1>1, <1>3, <1>4

\* A quotient and a remainder that fit are the quotient and the remainder.
LEMMA DivisionOnly ==
    ASSUME NEW a \in Int, NEW d \in Nat, d > 0, NEW q \in Int, NEW r \in 0..(d - 1), a = d * q + r
    PROVE  a \div d = q /\ a % d = r
<1>. DEFINE p == a \div d
            s == a % d
<1>1. p \in Int /\ s \in 0..(d - 1) /\ a = d * p + s
    OBVIOUS
<1>2. p = q
    <2>. HIDE DEF p, s
    <2>1. d * (p - q) = r - s
        BY <1>1
    <2>2. p - q >= 1 => d * (p - q) >= d
        BY <1>1
    <2>3. q - p >= 1 => d * (p - q) <= -d
        BY <1>1
    <2>. QED
        BY <1>1, <2>1, <2>2, <2>3
<1>3. s = r
    <2>. HIDE DEF p, s
    <2>. QED
        BY <1>1, <1>2
<1>. QED
    BY <1>2, <1>3

LEMMA BaseIs == Base \in Nat /\ Base >= 4 /\ Base <= 256 /\ Base % 2 = 0 /\ Base \div 2 \in Nat /\ Base = 2 * (Base \div 2)
BY FixAssumption

\* Taking the digits of a number two at a time or all at once.
LEMMA DigitsSplit ==
    ASSUME NEW m \in Int, NEW b \in Nat, b > 0, NEW w \in Nat, w > 0
    PROVE  /\ m \div (b * w) = (m \div b) \div w
           /\ m % (b * w) = b * ((m \div b) % w) + (m % b)
<1>. DEFINE q == m \div b
            r == m % b
            p == q \div w
            s == q % w
            d == b * w
            t == b * s + r
<1>1. q \in Int /\ r \in 0..(b - 1) /\ m = b * q + r
    OBVIOUS
<1>2. p \in Int /\ s \in 0..(w - 1) /\ q = w * p + s
    <2>. HIDE DEF q
    <2>. QED
        BY <1>1
<1>3. d \in Nat /\ d > 0
    OBVIOUS
<1>4. t \in 0..(d - 1)
    <2>. HIDE DEF q, r, p, s
    <2>1. b * s \in Nat
        BY <1>2
    <2>2. b * s <= b * (w - 1)
        BY <1>2
    <2>3. b * (w - 1) = d - b
        OBVIOUS
    <2>. QED
        BY <1>1, <1>3, <2>1, <2>2, <2>3
<1>5. m = d * p + t
    <2>. HIDE DEF q, r, p, s
    <2>1. b * (w * p + s) = (b * w) * p + b * s
        BY <1>2
    <2>. QED
        BY <1>1, <1>2, <2>1
<1>6. m \div d = p /\ m % d = t
    <2>. HIDE DEF d, t, q, r, p, s
    <2>. QED
        BY <1>2, <1>3, <1>4, <1>5, DivisionOnly
<1>. QED
    BY <1>6

LEMMA WeightStep ==
    ASSUME NEW i \in 1..8
    PROVE  /\ Weight[i] = Base * Weight[i - 1] /\ Weight[i] \in Nat /\ Weight[i] > 0
           /\ Weight[i - 1] \in Nat /\ Weight[i - 1] > 0 /\ Weight[0] = 1
BY WeightOf

\* The digits of a number that are left of a place.
LEMMA DigitsAbove ==
    ASSUME NEW n \in Int, NEW i \in 1..8
    PROVE  n \div Weight[i] = (n \div Weight[i - 1]) \div Base
<1>. DEFINE w == Weight[i - 1]
<1>1. w \in Nat /\ w > 0 /\ Weight[i] = w * Base /\ Base \in Nat /\ Base > 0
    BY WeightStep, BaseIs
<1>. HIDE DEF w
<1>2. n \div (w * Base) = (n \div w) \div Base
    BY <1>1, DigitsSplit
<1>. QED
    BY <1>1, <1>2 DEF w

LEMMA DigitsBelow ==
    ASSUME NEW m \in Int, NEW i \in 1..8
    PROVE  m % Weight[i] = Base * ((m \div Base) % Weight[i - 1]) + (m % Base)
<1>. DEFINE w == Weight[i - 1]
<1>1. w \in Nat /\ w > 0 /\ Weight[i] = Base * w /\ Base \in Nat /\ Base > 0
    BY WeightStep, BaseIs
<1>. HIDE DEF w
<1>2. m % (Base * w) = Base * ((m \div Base) % w) + (m % Base)
    BY <1>1, DigitsSplit
<1>. QED
    BY <1>1, <1>2 DEF w

LEMMA LoadExists ==
    ASSUME NEW bytes, NEW n \in Nat
    PROVE  \E f : f = [i \in 0..n |-> IF i = 0 THEN 0 ELSE f[i - 1] * Base + bytes[i]]
<1>. DEFINE F(f, m) == [i \in 0..m |-> IF i = 0 THEN 0 ELSE f[i - 1] * Base + bytes[i]]
            S == {m \in Nat : ~\E f : f = F(f, m)}
<1>1. SUFFICES ASSUME S # {}
               PROVE  FALSE
    OBVIOUS
<1>2. PICK m \in S : \A i \in S : m <= i
    BY <1>1, LeastNumber
<1>3. m # 0
    <2>1. [i \in 0..0 |-> 0] = F([i \in 0..0 |-> 0], 0)
        OBVIOUS
    <2>. QED
        BY <2>1
<1>4. m - 1 \in Nat /\ m - 1 \notin S
    <2>1. m \in Nat
        OBVIOUS
    <2>. HIDE DEF S
    <2>. QED
        BY <1>2, <1>3, <2>1
<1>5. PICK f : f = F(f, m - 1)
    BY <1>4
<1>. DEFINE next == [i \in 0..m |-> IF i = 0 THEN 0 ELSE f[i - 1] * Base + bytes[i]]
<1>6. \A i \in 0..(m - 1) : next[i] = f[i]
    <2>. SUFFICES ASSUME NEW i \in 0..(m - 1)
                  PROVE  next[i] = f[i]
        OBVIOUS
    <2>1. f[i] = IF i = 0 THEN 0 ELSE f[i - 1] * Base + bytes[i]
        BY <1>5
    <2>2. i \in 0..m
        OBVIOUS
    <2>. QED
        BY <2>1, <2>2
<1>7. next = F(next, m)
    <2>1. \A i \in 0..m : i # 0 => i - 1 \in 0..(m - 1)
        OBVIOUS
    <2>2. \A i \in 0..m : i # 0 => next[i - 1] = f[i - 1]
        <3>. HIDE DEF next
        <3>. QED
            BY <1>6, <2>1
    <2>. QED
        BY <2>2
<1>. QED
    BY <1>7

\* Load() byte by byte.
LEMMA LoadIs ==
    ASSUME NEW bytes, Len(bytes) \in Nat
    PROVE  \E f : /\ f[0] = 0 /\ Load(bytes) = f[Len(bytes)]
                  /\ \A i \in 1..Len(bytes) : f[i] = f[i - 1] * Base + bytes[i]
<1>. DEFINE n == Len(bytes)
            F(f) == [i \in 0..n |-> IF i = 0 THEN 0 ELSE f[i - 1] * Base + bytes[i]]
            f == CHOOSE f : f = F(f)
<1>1. \E h : h = F(h)
    BY LoadExists
<1>2. f = F(f)
    BY <1>1
<1>3. Load(bytes) = f[n]
    BY DEF Load
<1>. HIDE DEF f
<1>4. f[0] = 0
    BY <1>2
<1>5. \A i \in 1..n : f[i] = f[i - 1] * Base + bytes[i]
    <2>1. \A i \in 1..n : i \in 0..n /\ i # 0
        OBVIOUS
    <2>. QED
        BY <1>2, <2>1
<1>. QED
    BY <1>3, <1>4, <1>5

\* What was stored is loaded, up to a multiple of what the bytes can hold.
LEMMA LoadStored ==
    ASSUME NEW n \in Int, NEW width \in 0..8
    PROVE  Load(Store(n, width)) = n % Weight[width]
<1>. DEFINE s == Store(n, width)
            up(i) == n \div Weight[width - i]
<1>1. Len(s) = width
    BY StoredBytes
<1>2. \A i \in 1..width : s[i] = up(i) % Base
    BY DEF Store
<1>3. PICK f : /\ f[0] = 0 /\ Load(s) = f[width]
               /\ \A i \in 1..width : f[i] = f[i - 1] * Base + s[i]
    <2>. HIDE DEF s
    <2>. QED
        BY <1>1, LoadIs
<1>. DEFINE T == {i \in 0..width : f[i] = up(i) % Weight[i]}
<1>4. \A i \in 0..width : up(i) \in Int
    <2>. SUFFICES ASSUME NEW i \in 0..width
                  PROVE  up(i) \in Int
        OBVIOUS
    <2>. DEFINE w == Weight[width - i]
    <2>1. w \in Nat /\ w > 0
        <3>1. width - i \in 0..8
            OBVIOUS
        <3>. QED
            BY <3>1, WeightOf
    <2>. HIDE DEF w
    <2>2. n \div w \in Int
        BY <2>1
    <2>. QED
        BY <2>2 DEF w
<1>5. 0 \in T
    <2>. DEFINE u == up(0)
    <2>1. u \in Int
        BY <1>4
    <2>. HIDE DEF u
    <2>2. u % 1 = 0
        BY <2>1
    <2>. QED
        BY <1>3, <2>2, WeightOf DEF u
<1>6. ASSUME NEW i \in 1..width, i - 1 \in T
      PROVE  i \in T
    <2>. DEFINE m == up(i)
                k == i - 1
                v == m \div Base
                x == v % Weight[k]
    <2>1. m \in Int /\ i \in 1..8 /\ k \in 0..width
        BY <1>4
    <2>2. f[k] = up(k) % Weight[k]
        BY <1>6
    <2>3. up(k) = v
        <3>. DEFINE j == width - i + 1
        <3>1. j \in 1..8 /\ width - k = j /\ j - 1 = width - i
            OBVIOUS
        <3>. HIDE DEF k
        <3>2. n \div Weight[j] = (n \div Weight[j - 1]) \div Base
            <4>. HIDE DEF j
            <4>. QED
                BY <3>1, DigitsAbove
        <3>. QED
            BY <3>1, <3>2
    <2>4. f[i] = x * Base + (m % Base)
        BY <1>2, <1>3, <2>2, <2>3
    <2>5. m % Weight[i] = Base * x + (m % Base)
        <3>. HIDE DEF m
        <3>. QED
            BY <2>1, DigitsBelow
    <2>6. x \in Int /\ m % Base \in Int
        <3>. HIDE DEF m
        <3>1. m % Base \in Int /\ m \div Base \in Int
            BY <2>1, BaseIs
        <3>2. Weight[k] \in Nat /\ Weight[k] > 0
            BY <2>1, WeightStep
        <3>. DEFINE w == Weight[k]
        <3>. HIDE DEF v, w
        <3>3. v % w \in Int
            BY <3>1, <3>2 DEF v, w
        <3>. QED
            BY <3>1, <3>3 DEF w
    <2>7. f[i] = m % Weight[i]
        <3>. DEFINE y == m % Base
                    z == m % Weight[i]
        <3>. HIDE DEF x, y, z, m
        <3>. QED
            BY <2>4, <2>5, <2>6, BaseIs DEF y, z
    <2>. QED
        BY <2>7
<1>7. width \in T
    <2>. HIDE DEF T
    <2>1. \A i \in 0..width : i \in T
        BY <1>5, <1>6, AllTheWay
    <2>. QED
        BY <2>1
<1>8. f[width] = up(width) % Weight[width]
    BY <1>7
<1>9. up(width) = n
    BY WeightOf
<1>. QED
    BY <1>3, <1>8, <1>9

------------------------------------------------------------------------------------
(* Every tag comes back from its bytes. *)

\* How a tag is encoded: in its type byte alone, or after it.
Alone(tag, b) ==
    \/ tag.type = "nil" /\ tag.value = 0 /\ b = 192
    \/ tag.type = "bool" /\ tag.value \in {0, 1} /\ b = 194 + tag.value
    \/ tag.type = "uint" /\ tag.value \in 0..127 /\ b = tag.value
    \/ tag.type = "int" /\ tag.value \in -32..-1 /\ b = 256 + tag.value
    \/ tag.type = "map" /\ tag.value \in 0..15 /\ b = 128 + tag.value
    \/ tag.type = "array" /\ tag.value \in 0..15 /\ b = 144 + tag.value
    \/ tag.type = "str" /\ tag.value \in 0..31 /\ b = 160 + tag.value
Ahead(tag, bytes, f) ==
    f \in Formats /\ f.type = tag.type /\ Fits(tag, f) /\ bytes = <<f.code>> \o Store(tag.value, f.width)

LEMMA EncodedHow ==
    ASSUME NEW tag, Valid(tag)
    PROVE  \/ \E b \in Octets : Encode(tag) = <<b>> /\ Alone(tag, b)
           \/ \E f : Ahead(tag, Encode(tag), f)
<1>. DEFINE n == tag.value
            P == Encode(tag)
            Single1(b) == b \in Octets /\ P = <<b>> /\ Alone(tag, b)
<1>f. FixUint \in 0..127 /\ FixInt \in -32..-1 /\ FixStr \in 0..31 /\ FixCount \in 0..15
    BY FixAssumption
<1>0. SUFFICES (\E b : Single1(b)) \/ (\E f : Ahead(tag, P, f))
    OBVIOUS
<1>1. CASE tag.type = "nil"
    <2>1. P = <<192>> /\ n = 0
        BY <1>1 DEF Encode, Valid
    <2>2. Single1(192)
        BY <1>1, <2>1 DEF Alone, Octets
    <2>. QED
        BY <2>2
<1>2. CASE tag.type = "bool"
    <2>1. P = <<194 + n>> /\ n \in {0, 1}
        BY <1>2 DEF Encode, Valid
    <2>2. Single1(194 + n)
        BY <1>2, <2>1 DEF Alone, Octets
    <2>. QED
        BY <2>2
<1>3. CASE tag.type \notin {"nil", "bool"}
    <2>1. n \in Int /\ (tag.type = "int" => n < 0) /\ (tag.type # "int" => n \in Nat)
        BY <1>3 DEF Valid
    <2>2. CASE tag.type = "uint" /\ n <= FixUint
        <3>1. P = <<n>>
            BY <2>2 DEF Encode
        <3>2. Single1(n)
            BY <2>1, <2>2, <1>f, <3>1 DEF Alone, Octets
        <3>. QED
            BY <3>2
    <2>3. CASE tag.type = "int" /\ n >= FixInt
        <3>1. P = <<256 + n>>
            BY <2>3 DEF Encode
        <3>2. Single1(256 + n)
            BY <2>1, <2>3, <1>f, <3>1 DEF Alone, Octets
        <3>. QED
            BY <3>2
    <2>4. CASE tag.type = "map" /\ n <= FixCount
        <3>1. P = <<128 + n>>
            BY <2>4 DEF Encode
        <3>2. Single1(128 + n)
            BY <2>1, <2>4, <1>f, <3>1 DEF Alone, Octets
        <3>. QED
            BY <3>2
    <2>5. CASE tag.type = "array" /\ n <= FixCount
        <3>1. P = <<144 + n>>
            BY <2>5 DEF Encode
        <3>2. Single1(144 + n)
            BY <2>1, <2>5, <1>f, <3>1 DEF Alone, Octets
        <3>. QED
            BY <3>2
    <2>6. CASE tag.type = "str" /\ n <= FixStr
        <3>1. P = <<160 + n>>
            BY <2>6 DEF Encode
        <3>2. Single1(160 + n)
            BY <2>1, <2>6, <1>f, <3>1 DEF Alone, Octets
        <3>. QED
            BY <3>2
    <2>7. CASE ~(\/ tag.type = "uint" /\ n <= FixUint
                 \/ tag.type = "int" /\ n >= FixInt
                 \/ tag.type = "map" /\ n <= FixCount
                 \/ tag.type = "array" /\ n <= FixCount
                 \/ tag.type = "str" /\ n <= FixStr)
        <3>. DEFINE f == Narrowest(tag)
        <3>1. P = <<f.code>> \o Store(n, f.width)
            BY <1>3, <2>7 DEF Encode
        <3>2. PICK g \in Formats : Fits(tag, g)
            BY <1>3 DEF Valid
        <3>3. f \in Formats /\ Fits(tag, f)
            BY <3>2, NarrowestFits
        <3>4. f.type = tag.type
            BY <3>3 DEF Fits
        <3>. HIDE DEF f
        <3>5. Ahead(tag, P, f)
            BY <3>1, <3>3, <3>4 DEF Ahead
        <3>. QED
            BY <3>5
    <2>. QED
        BY <2>2, <2>3, <2>4, <2>5, <2>6, <2>7
<1>. QED
    BY <1>1, <1>2, <1>3

LEMMA WeightEven ==
    ASSUME NEW i \in 1..8
    PROVE  Weight[i] \div 2 \in Nat /\ Weight[i] = 2 * (Weight[i] \div 2)
<1>. DEFINE h == Base \div 2
            v == Weight[i - 1]
            u == h * v
<1>1. Weight[i] = Base * v /\ v \in Nat
    BY WeightStep
<1>2. h \in Nat /\ Base = 2 * h
    BY BaseIs
<1>3. u \in Nat
    <2>. HIDE DEF h, v
    <2>. QED
        BY <1>1, <1>2
<1>4. Weight[i] = 2 * u
    <2>. HIDE DEF h, v
    <2>1. (2 * h) * v = 2 * (h * v)
        BY <1>1, <1>2
    <2>. QED
        BY <1>1, <1>2, <2>1
<1>. HIDE DEF u
<1>5. (2 * u) \div 2 = u
    BY <1>3
<1>. QED
    BY <1>3, <1>4, <1>5

\* What a format holds is what its bytes are read as.
LEMMA FieldBack ==
    ASSUME NEW tag, NEW f \in Formats, f.type = tag.type, Fits(tag, f), Valid(tag)
    PROVE  tag.value = IF f.type = "int" THEN AsInt(Store(tag.value, f.width))
                       ELSE Load(Store(tag.value, f.width))
<1>. DEFINE n == tag.value
            width == f.width
            W == Weight[width]
            s == Store(n, width)
<1>1. width \in 1..8
    BY FormatKinds
<1>2. n \in Int /\ (f.type = "int" => n < 0) /\ (f.type # "int" => n \in Nat)
    <2>1. f.type \notin {"nil", "bool"}
        BY DEF Formats, Format
    <2>. QED
        BY <2>1 DEF Valid
<1>3. W \in Nat /\ W > 0
    BY <1>1, WeightStep
<1>4. Load(s) = n % W /\ Len(s) = width
    <2>. HIDE DEF width
    <2>1. width \in 0..8
        BY <1>1
    <2>. QED
        BY <1>2, <2>1, LoadStored, StoredBytes
<1>. HIDE DEF n, s
<1>5. CASE f.type # "int"
    <2>1. n < W /\ n \in Nat
        BY <1>2, <1>5 DEF Fits, n
    <2>. HIDE DEF W
    <2>2. n % W = n
        BY <1>3, <2>1
    <2>. QED
        BY <1>4, <1>5, <2>2 DEF n, s
<1>6. CASE f.type = "int"
    <2>. DEFINE half == W \div 2
    <2>1. half \in Nat /\ W = 2 * half
        BY <1>1, WeightEven
    <2>2. n >= -half /\ n < 0
        BY <1>2, <1>6 DEF Fits, n
    <2>. HIDE DEF W
    <2>3. n % W = n + W
        <3>. DEFINE r == n + W
        <3>1. r \in 0..(W - 1) /\ n = W * (-1) + r
            <4>. HIDE DEF half
            <4>. QED
                BY <1>2, <1>3, <2>1, <2>2
        <3>. HIDE DEF r
        <3>2. n % W = r
            BY <1>2, <1>3, <3>1, DivisionOnly
        <3>. QED
            BY <3>2 DEF r
    <2>4. AsInt(s) = LET v == n % W IN IF v >= half THEN (v - half) - half ELSE v
        BY <1>4 DEF AsInt, W
    <2>5. AsInt(s) = n
        <3>. HIDE DEF half
        <3>. QED
            BY <1>2, <1>3, <2>1, <2>2, <2>3, <2>4
    <2>. QED
        BY <1>6, <2>5 DEF n, s
<1>. QED
    BY <1>5, <1>6

\* A tag comes back from its bytes, whatever follows them.
Decodes(bytes, tag, size) ==
    /\ Head(bytes) \in Octets /\ Head(bytes) \notin Extensions /\ Head(bytes) # Reserved
    /\ HeaderSize(Head(bytes)) = size
    /\ ParseTag(bytes) = tag

LEMMA HeadIs ==
    ASSUME NEW s \in Bytes, s # <<>>
    PROVE  Head(s) = s[1] /\ Head(s) \in Octets /\ Len(s) >= 1
BY DEF Bytes

\* mpack_parse_tag() by the kind of the type byte.
LEMMA ParseAlone ==
    ASSUME NEW bytes, Head(bytes) \in Int
    PROVE  LET b == Head(bytes)
           IN  /\ b \in 0..127 => ParseTag(bytes) = Tag("uint", b)
               /\ b \in 224..255 => ParseTag(bytes) = Tag("int", b - 256)
               /\ b \in 128..143 => ParseTag(bytes) = Tag("map", b - 128)
               /\ b \in 144..159 => ParseTag(bytes) = Tag("array", b - 144)
               /\ b \in 160..191 => ParseTag(bytes) = Tag("str", b - 160)
               /\ b = 192 => ParseTag(bytes) = Tag("nil", 0)
               /\ b \in {194, 195} => ParseTag(bytes) = Tag("bool", b % 2)
<1>. DEFINE b == Head(bytes)
<1>1. b \in PositiveFixnums /\ b \notin NegativeFixnums /\ b \notin FixMaps /\ b \notin FixArrays
      /\ b \notin FixStrs /\ b # 192 /\ b \notin Bools
        => ParseTag(bytes) = Tag("uint", b)
    BY DEF ParseTag
<1>2. b \notin PositiveFixnums /\ b \in NegativeFixnums /\ b \notin FixMaps /\ b \notin FixArrays
      /\ b \notin FixStrs /\ b # 192 /\ b \notin Bools
        => ParseTag(bytes) = Tag("int", b - 256)
    BY DEF ParseTag
<1>3. b \notin PositiveFixnums /\ b \notin NegativeFixnums /\ b \in FixMaps /\ b \notin FixArrays
      /\ b \notin FixStrs /\ b # 192 /\ b \notin Bools
        => ParseTag(bytes) = Tag("map", b - 128)
    BY DEF ParseTag
<1>4. b \notin PositiveFixnums /\ b \notin NegativeFixnums /\ b \notin FixMaps /\ b \in FixArrays
      /\ b \notin FixStrs /\ b # 192 /\ b \notin Bools
        => ParseTag(bytes) = Tag("array", b - 144)
    BY DEF ParseTag
<1>5. b \notin PositiveFixnums /\ b \notin NegativeFixnums /\ b \notin FixMaps /\ b \notin FixArrays
      /\ b \in FixStrs /\ b # 192 /\ b \notin Bools
        => ParseTag(bytes) = Tag("str", b - 160)
    BY DEF ParseTag
<1>6. b \notin PositiveFixnums /\ b \notin NegativeFixnums /\ b \notin FixMaps /\ b \notin FixArrays
      /\ b \notin FixStrs /\ b = 192 /\ b \notin Bools
        => ParseTag(bytes) = Tag("nil", 0)
    BY DEF ParseTag
<1>7. b \notin PositiveFixnums /\ b \notin NegativeFixnums /\ b \notin FixMaps /\ b \notin FixArrays
      /\ b \notin FixStrs /\ b # 192 /\ b \in Bools
        => ParseTag(bytes) = Tag("bool", b % 2)
    BY DEF ParseTag
<1>. HIDE DEF b
<1>8. b \in Int
    BY DEF b
<1>. QED
    BY <1>1, <1>2, <1>3, <1>4, <1>5, <1>6, <1>7, <1>8
       DEF b, PositiveFixnums, NegativeFixnums, FixMaps, FixArrays, FixStrs, Bools

LEMMA ParseAhead ==
    ASSUME NEW bytes, Head(bytes) \notin Single
    PROVE  LET f == FormatOf(Head(bytes))
               field == SubSeq(bytes, 2, 1 + f.width)
           IN  ParseTag(bytes) = Tag(f.type, IF f.type = "int" THEN AsInt(field) ELSE Load(field))
<1>. DEFINE b == Head(bytes)
<1>1. b \notin PositiveFixnums /\ b \notin NegativeFixnums /\ b \notin FixMaps /\ b \notin FixArrays
      /\ b \notin FixStrs /\ b # 192 /\ b \notin Bools
    BY DEF Single
<1>. QED
    BY <1>1 DEF ParseTag

LEMMA AloneBack ==
    ASSUME NEW tag \in [type : Kinds, value : Int], NEW b \in Octets, Alone(tag, b), NEW bytes, Head(bytes) = b
    PROVE  Decodes(bytes, tag, 1)
<1>1. b \in Single
    BY DEF Alone, Single, PositiveFixnums, NegativeFixnums, FixMaps, FixArrays, FixStrs, Bools
<1>2. HeaderSize(b) = 1
    BY <1>1 DEF HeaderSize
<1>3. b \notin Extensions /\ b # Reserved
    BY DEF Alone, Extensions, Reserved
<1>4. tag = Tag(tag.type, tag.value) /\ Head(bytes) \in Int
    BY DEF Tag, Octets
<1>. DEFINE n == tag.value
            Is(t) == ParseTag(bytes) = t
<1>5. CASE tag.type = "nil" /\ b = 192 /\ n = 0
    <2>1. Is(Tag("nil", 0))
        BY <1>4, <1>5, ParseAlone
    <2>. QED
        BY <1>2, <1>3, <1>4, <1>5, <2>1 DEF Decodes
<1>6. CASE tag.type = "bool" /\ n \in {0, 1} /\ b = 194 + n
    <2>1. Is(Tag("bool", b % 2))
        BY <1>4, <1>6, ParseAlone
    <2>2. b % 2 = n
        BY <1>6
    <2>. QED
        BY <1>2, <1>3, <1>4, <1>6, <2>1, <2>2 DEF Decodes
<1>7. CASE tag.type = "uint" /\ n \in 0..127 /\ b = n
    <2>1. Is(Tag("uint", b))
        BY <1>4, <1>7, ParseAlone
    <2>. QED
        BY <1>2, <1>3, <1>4, <1>7, <2>1 DEF Decodes
<1>8. CASE tag.type = "int" /\ n \in -32..-1 /\ b = 256 + n
    <2>1. Is(Tag("int", b - 256)) /\ b - 256 = n
        BY <1>4, <1>8, ParseAlone
    <2>. QED
        BY <1>2, <1>3, <1>4, <1>8, <2>1 DEF Decodes
<1>9. CASE tag.type = "map" /\ n \in 0..15 /\ b = 128 + n
    <2>1. Is(Tag("map", b - 128)) /\ b - 128 = n
        BY <1>4, <1>9, ParseAlone
    <2>. QED
        BY <1>2, <1>3, <1>4, <1>9, <2>1 DEF Decodes
<1>10. CASE tag.type = "array" /\ n \in 0..15 /\ b = 144 + n
    <2>1. Is(Tag("array", b - 144)) /\ b - 144 = n
        BY <1>4, <1>10, ParseAlone
    <2>. QED
        BY <1>2, <1>3, <1>4, <1>10, <2>1 DEF Decodes
<1>11. CASE tag.type = "str" /\ n \in 0..31 /\ b = 160 + n
    <2>1. Is(Tag("str", b - 160)) /\ b - 160 = n
        BY <1>4, <1>11, ParseAlone
    <2>. QED
        BY <1>2, <1>3, <1>4, <1>11, <2>1 DEF Decodes
<1>. QED
    BY <1>5, <1>6, <1>7, <1>8, <1>9, <1>10, <1>11 DEF Alone

LEMMA FormatCodes ==
    ASSUME NEW f \in Formats
    PROVE  /\ FormatOf(f.code) = f /\ f.code \notin Single
           /\ f.code \notin Extensions /\ f.code # Reserved
<1>1. \A g \in Formats : g.code = f.code => g = f
    BY DEF Formats, Format
<1>. QED
    BY <1>1 DEF FormatOf, Formats, Format, Single, PositiveFixnums, NegativeFixnums, FixMaps, FixArrays,
        FixStrs, Bools, Extensions, Reserved

LEMMA AheadBack ==
    ASSUME NEW tag \in [type : Kinds, value : Int], Valid(tag), NEW P, NEW f, Ahead(tag, P, f), NEW rest \in Bytes
    PROVE  Decodes(P \o rest, tag, 1 + f.width)
<1>. DEFINE c == f.code
            s == Store(tag.value, f.width)
            bytes == P \o rest
<1>1. f \in Formats /\ f.type = tag.type /\ Fits(tag, f) /\ P = <<c>> \o s
    BY DEF Ahead
<1>2. c \in Octets /\ f.width \in 0..8
    BY <1>1, FormatKinds DEF Octets
<1>3. s \in Bytes /\ Len(s) = f.width
    BY <1>2, StoredBytes
<1>. HIDE DEF s
<1>4. <<c>> \in Bytes /\ Len(<<c>>) = 1
    BY <1>2 DEF Bytes
<1>5. bytes = <<c>> \o (s \o rest) /\ s \o rest \in Bytes /\ Len(s \o rest) = f.width + Len(rest)
    <2>. DEFINE k == <<c>>
    <2>1. P = k \o s
        BY <1>1 DEF s
    <2>2. k \in Bytes
        BY <1>4
    <2>. HIDE DEF k
    <2>3. bytes = k \o (s \o rest)
        <3>1. k \in Bytes /\ s \in Bytes /\ rest \in Bytes
            BY <1>3, <2>2
        <3>2. Rejoined(k, s, rest)
            BY <3>1, Rejoins
        <3>3. (k \o s) \o rest = k \o (s \o rest)
            BY ONLY <3>2 DEF Rejoined
        <3>. QED
            BY <2>1, <3>3
    <2>4. s \o rest \in Bytes /\ Len(s \o rest) = f.width + Len(rest)
        <3>1. Joined(s, rest)
            BY <1>3, Joins
        <3>2. s \o rest \in Bytes /\ Len(s \o rest) = Len(s) + Len(rest)
            BY ONLY <3>1 DEF Joined
        <3>. QED
            BY <1>3, <3>2
    <2>. QED
        BY <2>3, <2>4 DEF k
<1>6. bytes \in Bytes /\ Len(bytes) = 1 + (f.width + Len(rest)) /\ bytes[1] = c
      /\ \A i \in 1..(f.width + Len(rest)) : bytes[1 + i] = (s \o rest)[i]
    <2>. DEFINE t == s \o rest
                k == <<c>>
    <2>1. k[1] = c
        OBVIOUS
    <2>. HIDE DEF t, k
    <2>2. bytes = k \o t /\ t \in Bytes /\ Len(t) = f.width + Len(rest) /\ k \in Bytes /\ Len(k) = 1
        BY <1>4, <1>5 DEF t, k
    <2>. DEFINE b == bytes
    <2>3. b = k \o t
        BY <2>2
    <2>. HIDE DEF b
    <2>4. t \in Bytes /\ k \in Bytes /\ Len(k) = 1 /\ Len(t) = f.width + Len(rest)
        BY <2>2
    <2>5. k \o t \in Bytes /\ Len(k \o t) = Len(k) + Len(t)
          /\ (\A i \in 1..Len(k) : (k \o t)[i] = k[i])
          /\ (\A i \in 1..Len(t) : (k \o t)[Len(k) + i] = t[i])
        BY <2>4, Join
    <2>6. b \in Bytes /\ Len(b) = 1 + Len(t) /\ b[1] = k[1] /\ \A i \in 1..Len(t) : b[1 + i] = t[i]
        BY <2>3, <2>4, <2>5
    <2>. QED
        BY <2>1, <2>4, <2>6 DEF t, b
<1>7. Head(bytes) = c
    <2>. DEFINE b == bytes
    <2>1. Len(rest) \in Nat
        BY DEF Bytes
    <2>. HIDE DEF b
    <2>2. b \in Bytes /\ Len(b) > 0 /\ b[1] = c
        BY <1>2, <1>6, <2>1 DEF b
    <2>3. b # <<>>
        BY <2>2
    <2>4. Head(b) = c
        BY <2>2, <2>3, HeadIs
    <2>. QED
        BY <2>4 DEF b
<1>8. SubSeq(bytes, 2, 1 + f.width) = s
    <2>1. \A i \in 1..f.width : (s \o rest)[i] = s[i]
        BY <1>3, Join
    <2>2. Len(rest) \in Nat
        BY DEF Bytes
    <2>3. \A i \in 1..f.width : bytes[i + 1] = s[i]
        <3>. DEFINE b == bytes
                    t == s \o rest
        <3>1. \A i \in 1..(f.width + Len(rest)) : b[1 + i] = t[i]
            BY <1>6
        <3>. HIDE DEF b, t
        <3>2. \A i \in 1..f.width : i \in 1..(f.width + Len(rest)) /\ 1 + i = i + 1
            BY <1>2, <2>2
        <3>3. \A i \in 1..f.width : t[i] = s[i]
            BY <2>1 DEF t
        <3>4. \A i \in 1..f.width : b[i + 1] = s[i]
            BY <3>1, <3>2, <3>3
        <3>. QED
            BY <3>4 DEF b
    <2>. DEFINE b == bytes
    <2>4. b \in Bytes /\ Len(b) >= 1 + f.width
        <3>. DEFINE w == f.width
                    m == Len(rest)
        <3>1. b \in Bytes /\ Len(b) = 1 + (w + m) /\ w \in Nat /\ m \in Nat
            BY <1>2, <1>6, <2>2
        <3>. HIDE DEF b, w, m
        <3>2. 1 + (w + m) >= 1 + w
            BY ONLY <3>1
        <3>. QED
            BY <3>1, <3>2 DEF w
    <2>. HIDE DEF b
    <2>5. \A i \in 1..f.width : b[i + 1] = s[i]
        BY <2>3 DEF b
    <2>6. SubSeq(b, 2, 1 + f.width) = [i \in 1..f.width |-> b[i + 1]]
        BY <1>2, <2>4 DEF Bytes
    <2>7. s = [i \in 1..f.width |-> s[i]]
        BY <1>3 DEF Bytes
    <2>8. SubSeq(b, 2, 1 + f.width) = s
        BY <2>5, <2>6, <2>7
    <2>. QED
        BY <2>8 DEF b
<1>9. FormatOf(c) = f /\ c \notin Single /\ c \notin Extensions /\ c # Reserved
    BY <1>1, FormatCodes
<1>10. HeaderSize(c) = 1 + f.width
    BY <1>9 DEF HeaderSize
<1>11. ParseTag(bytes) = Tag(f.type, IF f.type = "int" THEN AsInt(s) ELSE Load(s))
    <2>. DEFINE b == bytes
    <2>1. Head(b) = c /\ SubSeq(b, 2, 1 + f.width) = s
        BY <1>7, <1>8
    <2>. HIDE DEF b
    <2>2. ParseTag(b) = Tag(f.type, IF f.type = "int" THEN AsInt(s) ELSE Load(s))
        BY <1>9, <2>1, ParseAhead
    <2>. QED
        BY <2>2 DEF b
<1>12. tag.value = IF f.type = "int" THEN AsInt(s) ELSE Load(s)
    BY <1>1, FieldBack DEF s
<1>13. tag = Tag(tag.type, tag.value)
    BY DEF Tag
<1>. QED
    BY <1>1, <1>2, <1>7, <1>9, <1>10, <1>11, <1>12, <1>13 DEF Decodes

LEMMA TagsBack ==
    ASSUME NEW tag \in Tags, tag.type # "ext", NEW rest \in Bytes
    PROVE  Decodes(Encode(tag) \o rest, tag, Len(Encode(tag)))
<1>. DEFINE P == Encode(tag)
<1>1. Valid(tag) /\ tag \in [type : Kinds, value : Int]
    BY DEF Tags
<1>2. P \in Bytes
    BY <1>1, EncodedBytes
<1>3. ASSUME NEW b \in Octets, P = <<b>>, Alone(tag, b)
      PROVE  Decodes(P \o rest, tag, Len(P))
    <2>1. Len(P) = 1 /\ P[1] = b
        BY <1>3
    <2>. HIDE DEF P
    <2>2. P \o rest \in Bytes /\ (P \o rest)[1] = b
        BY <1>2, <2>1, Join
    <2>. DEFINE s == P \o rest
    <2>. HIDE DEF s
    <2>3. Head(s) = b
        <3>1. Len(s) = 1 + Len(rest) /\ Len(rest) \in Nat
            BY <1>2, <2>1, Join DEF s, Bytes
        <3>2. s # <<>>
            BY <3>1
        <3>. QED
            BY <2>2, <3>2, HeadIs DEF s
    <2>4. Decodes(s, tag, 1)
        BY <1>1, <1>3, <2>3, AloneBack
    <2>. QED
        BY <2>1, <2>4 DEF s
<1>4. ASSUME NEW f, Ahead(tag, P, f)
      PROVE  Decodes(P \o rest, tag, Len(P))
    <2>1. P = <<f.code>> \o Store(tag.value, f.width) /\ f \in Formats
        BY <1>4 DEF Ahead
    <2>2. f.width \in 0..8 /\ f.code \in Octets
        BY <2>1, FormatKinds DEF Octets
    <2>. DEFINE s == Store(tag.value, f.width)
                k == <<f.code>>
    <2>3. s \in Bytes /\ Len(s) = f.width
        BY <1>1, <2>2, StoredBytes
    <2>4. k \in Bytes /\ Len(k) = 1
        BY <2>2 DEF Bytes
    <2>. HIDE DEF s, k
    <2>5. Len(k \o s) = 1 + f.width
        <3>1. k \in Bytes /\ s \in Bytes
            BY <2>3, <2>4
        <3>2. Joined(k, s)
            BY <3>1, Joins
        <3>3. Len(k \o s) = Len(k) + Len(s)
            BY ONLY <3>2 DEF Joined
        <3>. QED
            BY <2>3, <2>4, <3>3
    <2>6. Len(P) = 1 + f.width
        BY <2>1, <2>5 DEF s, k
    <2>7. Decodes(P \o rest, tag, 1 + f.width)
        <3>. HIDE DEF P
        <3>. QED
            BY <1>1, <1>4, AheadBack
    <2>. QED
        BY <2>6, <2>7
<1>. QED
    BY <1>1, <1>3, <1>4, EncodedHow

------------------------------------------------------------------------------------
(* The reader and what it still has to give: its buffer, then its source. *)

ReaderFields == {"kind", "size", "chunk", "error", "data", "source", "feof", "got"}
IsReader(r) == r = [field \in ReaderFields |-> r[field]]
Fed(r) ==
    /\ IsReader(r) /\ r.data \in Bytes /\ r.source \in Bytes /\ r.feof \in BOOLEAN
    /\ r.kind \in {"data", "fill", "file", "pipe"}
    /\ r.kind = "data" => r.size = 0 /\ r.source = <<>>
    /\ r.kind # "data" => /\ r.size \in Nat /\ r.size >= 9 /\ r.chunk \in Nat /\ r.chunk > 0
                          /\ Len(r.data) <= r.size
    /\ r.feof => r.source = <<>>
SameKind(r, x) == x.kind = r.kind /\ x.size = r.size /\ x.chunk = r.chunk
Stream(r) == r.data \o r.source

LEMMA SplitOnly ==
    ASSUME NEW a \in Bytes, NEW b \in Bytes, NEW c \in Bytes, NEW d \in Bytes, a \o b = c \o d, Len(a) = Len(c)
    PROVE  a = c /\ b = d
<1>. DEFINE s == a \o b
<1>1. Len(s) = Len(a) + Len(b) /\ (\A i \in 1..Len(a) : s[i] = a[i]) /\ \A i \in 1..Len(b) : s[Len(a) + i] = b[i]
    BY Join
<1>2. Len(s) = Len(c) + Len(d) /\ (\A i \in 1..Len(c) : s[i] = c[i]) /\ \A i \in 1..Len(d) : s[Len(c) + i] = d[i]
    BY Join
<1>. HIDE DEF s
<1>3. Len(a) \in Nat /\ Len(b) \in Nat /\ Len(d) \in Nat
    BY DEF Bytes
<1>4. Len(b) = Len(d)
    BY <1>1, <1>2, <1>3
<1>5. a = [i \in 1..Len(a) |-> a[i]] /\ c = [i \in 1..Len(c) |-> c[i]]
      /\ b = [i \in 1..Len(b) |-> b[i]] /\ d = [i \in 1..Len(d) |-> d[i]]
    BY DEF Bytes
<1>6. a = c
    BY <1>1, <1>2, <1>5
<1>7. b = d
    <2>1. \A i \in 1..Len(b) : b[i] = d[i]
        BY <1>1, <1>2, <1>4
    <2>. QED
        BY <1>4, <1>5, <2>1
<1>. QED
    BY <1>6, <1>7

LEMMA AfterIs ==
    ASSUME NEW s \in Bytes, NEW n \in Nat
    PROVE  /\ n <= Len(s) => /\ SubSeq(s, 1, n) \in Bytes /\ Len(SubSeq(s, 1, n)) = n
                             /\ After(s, n) \in Bytes /\ Len(After(s, n)) = Len(s) - n
                             /\ SubSeq(s, 1, n) \o After(s, n) = s
           /\ n >= Len(s) => After(s, n) = <<>>
<1>1. CASE n <= Len(s)
    <2>1. n \in 0..Len(s) /\ (n >= Len(s) => n = Len(s))
        BY <1>1 DEF Bytes
    <2>2. n >= Len(s) => After(s, n) = <<>>
        BY <2>1 DEF After, Bytes
    <2>. QED
        BY <2>1, <2>2, Parts DEF After
<1>2. CASE n > Len(s)
    <2>1. After(s, n) = <<>>
        BY <1>2 DEF After, Bytes
    <2>. QED
        BY <1>2, <2>1 DEF Bytes
<1>3. Len(s) \in Nat
    BY DEF Bytes
<1>. QED
    BY <1>1, <1>2, <1>3

LEMMA FlaggedReader ==
    ASSUME NEW r, Fed(r), r.error = "ok", NEW error, error # "ok"
    PROVE  /\ Fed(FlagError(r, error)) /\ SameKind(r, FlagError(r, error)) /\ FlagError(r, error).error = error
<1>. DEFINE x == [r EXCEPT !.error = error, !.data = <<>>]
<1>1. FlagError(r, error) = x
    BY DEF FlagError
<1>2. IsReader(x) /\ x.error = error /\ x.data = <<>> /\ x.source = r.source /\ x.feof = r.feof
      /\ x.kind = r.kind /\ x.size = r.size /\ x.chunk = r.chunk
    BY DEF Fed, IsReader, ReaderFields
<1>. HIDE DEF x
<1>3. <<>> \in Bytes /\ Len(<<>>) = 0
    BY DEF Bytes
<1>4. Fed(x)
    BY <1>2, <1>3 DEF Fed
<1>. QED
    BY <1>1, <1>2, <1>4 DEF SameKind

\* What a fill brings is the next bytes of the source.
Fills(r, x, min, max) ==
    /\ Fed(x) /\ SameKind(r, x)
    /\ x.error = "ok" => /\ x.got \in Bytes /\ Len(x.got) >= min /\ Len(x.got) <= max
                         /\ x.got \o x.source = r.source /\ x.data = r.data
    /\ Len(r.source) >= min => x.error = "ok"

LEMMA Filling1 ==
    ASSUME NEW r, Fed(r), r.kind # "data", r.error = "ok", NEW min \in Nat, NEW max \in Nat, 0 < min, min <= max
    PROVE  Fills(r, FillRange(r, min, max), min, max)
<1>. DEFINE isFile == r.kind \in {"file", "pipe"}
            calls == (min + r.chunk - 1) \div r.chunk
            wanted == IF isFile THEN max ELSE Lesser(calls * r.chunk, max)
            count == Lesser(wanted, Len(r.source))
            x == [r EXCEPT !.source = After(@, count), !.feof = @ \/ (isFile /\ count < max)]
            y == FillRange(r, min, max)
<1>0. SUFFICES Fills(r, y, min, max)
    OBVIOUS
<1>1. y = IF r.feof THEN FlagError(r, "eof")
          ELSE IF count < min THEN FlagError(x, IF isFile /\ count > 0 THEN "eof" ELSE "io")
          ELSE Returning(x, SubSeq(r.source, 1, count))
    BY DEF FillRange
<1>. HIDE DEF y
<1>2. r.source \in Bytes /\ Len(r.source) \in Nat
    BY DEF Fed, Bytes
<1>3. wanted \in min..max
    <2>1. CASE isFile
        BY <2>1
    <2>2. CASE ~isFile
        <3>1. r.chunk \in Nat /\ r.chunk > 0
            BY DEF Fed
        <3>. DEFINE k == calls * r.chunk
        <3>2. k \in Nat /\ k >= min
            BY <3>1, ChunksEnough
        <3>. HIDE DEF k
        <3>3. Lesser(k, max) \in min..max
            BY <3>2 DEF Lesser
        <3>. QED
            BY <2>2, <3>3 DEF k
    <2>. QED
        BY <2>1, <2>2
<1>. HIDE DEF wanted
<1>4. count \in Nat /\ count <= Len(r.source) /\ count <= max
      /\ (count < min => Len(r.source) < min) /\ (isFile /\ count < wanted => count = Len(r.source))
      /\ (count >= Len(r.source) => count = Len(r.source))
    BY <1>2, <1>3 DEF Lesser
<1>5. isFile /\ count < max => After(r.source, count) = <<>>
    <2>1. isFile => wanted = max
        BY DEF wanted
    <2>. HIDE DEF count
    <2>. QED
        BY <1>2, <1>4, <2>1, AfterIs
<1>6. After(r.source, count) \in Bytes /\ SubSeq(r.source, 1, count) \in Bytes
      /\ SubSeq(r.source, 1, count) \o After(r.source, count) = r.source /\ Len(SubSeq(r.source, 1, count)) = count
    <2>. HIDE DEF count
    <2>. QED
        BY <1>2, <1>4, AfterIs
<1>. HIDE DEF count
<1>7. IsReader(x) /\ x.source = After(r.source, count) /\ x.feof = (r.feof \/ (isFile /\ count < max))
      /\ x.data = r.data /\ x.error = r.error /\ x.kind = r.kind /\ x.size = r.size /\ x.chunk = r.chunk
    BY DEF Fed, IsReader, ReaderFields
<1>. HIDE DEF x
<1>8. ~r.feof => Fed(x) /\ SameKind(r, x)
    BY <1>5, <1>6, <1>7 DEF Fed, SameKind
<1>9. CASE r.feof
    <2>1. Len(r.source) = 0
        BY <1>9 DEF Fed
    <2>2. y = FlagError(r, "eof")
        BY <1>1, <1>9
    <2>3. Fed(y) /\ SameKind(r, y) /\ y.error = "eof"
        BY <2>2, FlaggedReader
    <2>. QED
        BY <2>1, <2>3 DEF Fills
<1>10. CASE ~r.feof /\ count < min
    <2>. DEFINE e == IF isFile /\ count > 0 THEN "eof" ELSE "io"
    <2>1. y = FlagError(x, e) /\ e # "ok"
        BY <1>1, <1>10
    <2>. HIDE DEF e
    <2>2. Fed(y) /\ SameKind(x, y) /\ y.error # "ok"
        BY <1>7, <1>8, <1>10, <2>1, FlaggedReader
    <2>3. SameKind(r, y)
        BY <1>8, <1>10, <2>2 DEF SameKind
    <2>4. ~(Len(r.source) >= min)
        BY <1>2, <1>4, <1>10
    <2>5. Fed(y) /\ y.error # "ok"
        BY <2>2
    <2>. HIDE DEF isFile, calls
    <2>. QED
        BY <2>3, <2>4, <2>5 DEF Fills
<1>11. CASE ~r.feof /\ ~(count < min)
    <2>. DEFINE got == SubSeq(r.source, 1, count)
    <2>1. y = [x EXCEPT !.got = got]
        BY <1>1, <1>11 DEF Returning
    <2>. HIDE DEF got
    <2>2. IsReader(y) /\ y.got = got /\ y.error = "ok" /\ y.source = x.source /\ y.data = x.data
          /\ y.kind = x.kind /\ y.size = x.size /\ y.chunk = x.chunk /\ y.feof = x.feof
        BY <1>7, <2>1 DEF IsReader, ReaderFields
    <2>3. Fed(y)
        BY <1>8, <1>11, <2>2 DEF Fed
    <2>4. SameKind(r, y)
        BY <1>7, <2>2 DEF SameKind
    <2>5. count >= min
        BY <1>4, <1>11
    <2>. QED
        BY <1>4, <1>6, <1>7, <2>2, <2>3, <2>4, <2>5 DEF Fills, got
<1>. QED
    BY <1>9, <1>10, <1>11

\* A call that only looks: what there is to give stays.
Looks(r, x, n) ==
    /\ Fed(x) /\ SameKind(r, x)
    /\ x.error = "ok" => Stream(x) = Stream(r) /\ Len(x.data) >= n
    /\ Len(Stream(r)) >= n /\ (r.kind = "data" \/ n <= r.size) => x.error = "ok"

LEMMA StreamBytes ==
    ASSUME NEW r, Fed(r)
    PROVE  Stream(r) \in Bytes /\ Len(Stream(r)) = Len(r.data) + Len(r.source)
           /\ Len(r.data) \in Nat /\ Len(r.source) \in Nat
           /\ r.data \in Bytes /\ r.source \in Bytes
<1>1. r.data \in Bytes /\ r.source \in Bytes
    BY DEF Fed
<1>. QED
    BY <1>1, Join DEF Stream, Bytes

LEMMA Ensuring ==
    ASSUME NEW r, Fed(r), r.error = "ok", NEW n \in Nat
    PROVE  /\ Looks(r, EnsureBytes(r, n), n)
           /\ r.kind # "data" /\ n > r.size => EnsureBytes(r, n).error = "too_big"
<1>. DEFINE x == EnsureBytes(r, n)
            left == Len(r.data)
<1>0. SUFFICES Looks(r, x, n) /\ (r.kind # "data" /\ n > r.size => x.error = "too_big")
    OBVIOUS
<1>1. x = IF n <= left THEN r
          ELSE IF r.kind = "data" THEN FlagError(r, "invalid")
          ELSE IF n > r.size THEN FlagError(r, "too_big")
          ELSE LET f == FillRange(r, n - left, r.size - left)
               IN  IF f.error = "ok" THEN [f EXCEPT !.data = @ \o f.got] ELSE f
    BY DEF EnsureBytes, Then
<1>. HIDE DEF x
<1>2. left \in Nat /\ Len(r.source) \in Nat /\ Len(Stream(r)) = left + Len(r.source)
    BY StreamBytes
<1>3. r.kind # "data" => r.size \in Nat /\ left <= r.size
    BY DEF Fed
<1>4. CASE n <= left
    <2>1. x = r
        BY <1>1, <1>4
    <2>2. Fed(x) /\ SameKind(r, x) /\ x.error = "ok" /\ Stream(x) = Stream(r) /\ Len(x.data) >= n
        BY <1>2, <1>4, <2>1 DEF SameKind
    <2>3. ~(r.kind # "data" /\ n > r.size)
        <3>. HIDE DEF left
        <3>. QED
            BY <1>2, <1>3, <1>4
    <2>4. Looks(r, x, n)
        BY <2>2 DEF Looks
    <2>. QED
        BY <2>3, <2>4
<1>5. CASE ~(n <= left) /\ r.kind = "data"
    <2>1. x = FlagError(r, "invalid")
        BY <1>1, <1>2, <1>5
    <2>2. Fed(x) /\ SameKind(r, x) /\ x.error = "invalid"
        BY <2>1, FlaggedReader
    <2>3. Len(r.source) = 0
        BY <1>5 DEF Fed
    <2>4. ~(Len(Stream(r)) >= n)
        BY <1>2, <1>5, <2>3
    <2>5. Fed(x) /\ SameKind(r, x) /\ x.error # "ok"
        BY <2>2
    <2>6. Looks(r, x, n)
        BY <2>4, <2>5 DEF Looks
    <2>. QED
        BY <1>5, <2>6
<1>6. CASE ~(n <= left) /\ r.kind # "data" /\ n > r.size
    <2>1. x = FlagError(r, "too_big")
        BY <1>1, <1>2, <1>6
    <2>2. Fed(x) /\ SameKind(r, x) /\ x.error = "too_big"
        BY <2>1, FlaggedReader
    <2>3. ~(r.kind = "data" \/ n <= r.size)
        BY <1>3, <1>6
    <2>. QED
        BY <2>2, <2>3 DEF Looks
<1>7. CASE ~(n <= left) /\ r.kind # "data" /\ ~(n > r.size)
    <2>. DEFINE min == n - left
                max == r.size - left
                f == FillRange(r, min, max)
                g == [f EXCEPT !.data = @ \o f.got]
    <2>1. min \in Nat /\ max \in Nat /\ 0 < min /\ min <= max
        BY <1>2, <1>3, <1>7
    <2>2. Fills(r, f, min, max)
        <3>. HIDE DEF min, max
        <3>. QED
            BY <1>7, <2>1, Filling1
    <2>3. x = IF f.error = "ok" THEN g ELSE f
        BY <1>1, <1>2, <1>3, <1>7
    <2>. HIDE DEF f
    <2>4. Fed(f) /\ SameKind(r, f)
        BY <2>2 DEF Fills
    <2>5. CASE f.error # "ok"
        <3>1. x = f /\ Len(r.source) < min
            BY <2>2, <2>3, <2>5, <1>2, <2>1 DEF Fills
        <3>. DEFINE u == Len(Stream(r))
                    v == Len(r.source)
        <3>2. ~(u >= n)
            <4>1. v < n - left /\ u = left + v /\ left \in Nat /\ v \in Nat
                BY <1>2, <3>1
            <4>. HIDE DEF u, v, left
            <4>. QED
                BY <4>1
        <3>3. Fed(x) /\ SameKind(r, x) /\ x.error # "ok"
            BY <2>4, <2>5, <3>1
        <3>. QED
            BY <1>7, <3>2, <3>3 DEF Looks
    <2>6. CASE f.error = "ok"
        <3>1. f.got \in Bytes /\ Len(f.got) >= min /\ Len(f.got) <= max
              /\ f.got \o f.source = r.source /\ f.data = r.data
            BY <2>2, <2>6 DEF Fills
        <3>. DEFINE d == r.data \o f.got
        <3>0. r.data \in Bytes /\ f.source \in Bytes
            BY <2>4 DEF Fed
        <3>2. d \in Bytes /\ Len(d) = left + Len(f.got)
            BY <3>0, <3>1, Join
        <3>3. d \o f.source = r.data \o r.source
            <4>1. d \o f.source = r.data \o (f.got \o f.source)
                BY <3>0, <3>1, Rejoin
            <4>. QED
                BY <3>1, <4>1
        <3>. HIDE DEF d
        <3>4. x = [f EXCEPT !.data = d]
            BY <2>3, <2>6, <3>1 DEF d
        <3>5. IsReader(x) /\ x.data = d /\ x.source = f.source /\ x.error = "ok" /\ x.feof = f.feof
              /\ x.kind = f.kind /\ x.size = f.size /\ x.chunk = f.chunk
            BY <2>4, <2>6, <3>4 DEF Fed, IsReader, ReaderFields
        <3>6. Len(d) >= n /\ Len(d) <= r.size
            <4>1. Len(f.got) \in Nat
                BY <3>1 DEF Bytes
            <4>2. Len(f.got) >= n - left /\ Len(f.got) <= r.size - left
                BY <3>1
            <4>. DEFINE a == Len(f.got)
                        b == Len(d)
            <4>3. b = left + a
                BY <3>2
            <4>. HIDE DEF a, b
            <4>4. a \in Nat /\ a >= n - left /\ a <= r.size - left
                BY <4>1, <4>2 DEF a
            <4>5. r.size \in Nat
                BY <1>3, <1>7
            <4>. HIDE DEF left
            <4>6. b >= n /\ b <= r.size
                BY <1>2, <4>3, <4>4, <4>5
            <4>. QED
                BY <4>6 DEF b
        <3>7. Fed(x) /\ SameKind(r, x)
            BY <1>7, <2>4, <3>2, <3>5, <3>6 DEF Fed, SameKind
        <3>8. Stream(x) = Stream(r)
            BY <3>3, <3>5 DEF Stream
        <3>. QED
            BY <1>7, <3>5, <3>6, <3>7, <3>8 DEF Looks
    <2>. QED
        BY <2>5, <2>6
<1>. QED
    BY <1>2, <1>3, <1>4, <1>5, <1>6, <1>7

------------------------------------------------------------------------------------
(* The calls that take bytes. *)

\* A reader with another buffer.
Rebuffered(r, y, g, d) ==
    /\ IsReader(y) /\ y.got = g /\ y.data = d /\ y.source = r.source /\ y.feof = r.feof
    /\ y.kind = r.kind /\ y.size = r.size /\ y.chunk = r.chunk /\ y.error = r.error

LEMMA Refitted ==
    ASSUME NEW r, Fed(r), NEW d \in Bytes, NEW g, r.kind # "data" => Len(d) <= r.size,
           NEW y, Rebuffered(r, y, g, d)
    PROVE  Fed(y) /\ SameKind(r, y)
BY DEF Fed, SameKind, Rebuffered

LEMMA Redated ==
    ASSUME NEW r, Fed(r), NEW d \in Bytes, r.kind # "data" => Len(d) <= r.size,
           NEW y, y = [r EXCEPT !.data = d]
    PROVE  /\ Fed(y) /\ SameKind(r, y) /\ y.error = r.error
           /\ y.got = r.got /\ y.data = d /\ y.source = r.source /\ y.feof = r.feof
<1>1. IsReader(y) /\ y.got = r.got /\ y.data = d /\ y.source = r.source /\ y.feof = r.feof
      /\ y.kind = r.kind /\ y.size = r.size /\ y.chunk = r.chunk /\ y.error = r.error
    BY DEF Fed, IsReader, ReaderFields
<1>. QED
    BY <1>1 DEF Fed, SameKind

LEMMA Regotten ==
    ASSUME NEW r, Fed(r), NEW g, NEW y, y = [r EXCEPT !.got = g]
    PROVE  /\ Fed(y) /\ SameKind(r, y) /\ y.error = r.error /\ y.got = g /\ y.data = r.data /\ Stream(y) = Stream(r)
<1>1. IsReader(y) /\ y.got = g /\ y.data = r.data /\ y.source = r.source /\ y.feof = r.feof
      /\ y.kind = r.kind /\ y.size = r.size /\ y.chunk = r.chunk /\ y.error = r.error
    BY DEF Fed, IsReader, ReaderFields
<1>2. Stream(y) = Stream(r)
    BY <1>1 DEF Stream
<1>. QED
    BY <1>1, <1>2 DEF Fed, SameKind

\* A reader that has given the first n bytes of its buffer.
GivenFront(r, n) == [r EXCEPT !.got = SubSeq(r.data, 1, n), !.data = After(@, n)]
Fronted(r, y, n) ==
    /\ Fed(y) /\ SameKind(r, y) /\ y.error = r.error /\ y.data = After(r.data, n)
    /\ y.got \in Bytes /\ Len(y.got) = n /\ Stream(r) = y.got \o Stream(y)

\* A read of n bytes, from a source that can give them at once.
Reads(r, x, n, able) ==
    /\ Fed(x) /\ SameKind(r, x)
    /\ x.error = "ok" => x.got \in Bytes /\ Len(x.got) = n /\ Stream(r) = x.got \o Stream(x)
    /\ able /\ Len(Stream(r)) >= n => x.error = "ok"

LEMMA FrontMoved ==
    ASSUME NEW r, Fed(r), NEW n \in Nat, n <= Len(r.data)
    PROVE  Fronted(r, GivenFront(r, n), n)
<1>. DEFINE y == GivenFront(r, n)
            d == After(r.data, n)
            g == SubSeq(r.data, 1, n)
<1>1. r.data \in Bytes /\ r.source \in Bytes /\ Len(r.data) \in Nat
    BY DEF Fed, Bytes
<1>2. d \in Bytes /\ g \in Bytes /\ Len(g) = n /\ g \o d = r.data /\ Len(d) = Len(r.data) - n
    BY <1>1, AfterIs
<1>3. y = [r EXCEPT !.got = g, !.data = d]
    BY DEF GivenFront
<1>. HIDE DEF d, g, y
<1>4. r.kind # "data" => Len(d) <= r.size
    <2>1. r.kind # "data" => r.size \in Nat /\ Len(r.data) <= r.size
        BY DEF Fed
    <2>. QED
        BY <1>1, <1>2, <2>1
<1>5. Fed(y) /\ SameKind(r, y) /\ y.error = r.error /\ y.got = g /\ y.data = d /\ y.source = r.source
    <2>1. Rebuffered(r, y, g, d)
        BY <1>3 DEF Rebuffered, Fed, IsReader, ReaderFields
    <2>2. Fed(y) /\ SameKind(r, y)
        BY <1>2, <1>4, <2>1, Refitted
    <2>. QED
        BY <2>1, <2>2 DEF Rebuffered
<1>6. Stream(r) = g \o Stream(y)
    <2>1. Stream(r) = (g \o d) \o r.source /\ Stream(y) = d \o r.source
        BY <1>2, <1>5 DEF Stream
    <2>2. (g \o d) \o r.source = g \o (d \o r.source)
        BY <1>1, <1>2, Rejoin
    <2>. QED
        BY <2>1, <2>2
<1>7. Fronted(r, y, n)
    BY <1>2, <1>5, <1>6 DEF Fronted, d
<1>. QED
    BY <1>7 DEF y

LEMMA InPlace ==
    ASSUME NEW r, Fed(r), r.error = "ok", NEW n \in Nat
    PROVE  /\ Reads(r, ReadInPlace(r, n), n, r.kind = "data" \/ n <= r.size)
           /\ r.kind # "data" /\ n > r.size => ReadInPlace(r, n).error = "too_big"
<1>. DEFINE e == EnsureBytes(r, n)
            x == ReadInPlace(r, n)
            y == [e EXCEPT !.got = SubSeq(e.data, 1, n), !.data = After(@, n)]
            able == r.kind = "data" \/ n <= r.size
<1>0. SUFFICES Reads(r, x, n, able) /\ (r.kind # "data" /\ n > r.size => x.error = "too_big")
    OBVIOUS
<1>1. x = IF e.error = "ok" THEN y ELSE e
    BY DEF ReadInPlace, Then
<1>2. Looks(r, e, n) /\ (r.kind # "data" /\ n > r.size => e.error = "too_big")
    BY Ensuring
<1>. HIDE DEF x, e
<1>3. Fed(e) /\ SameKind(r, e) /\ (able /\ Len(Stream(r)) >= n => e.error = "ok")
    BY <1>2 DEF Looks
<1>. HIDE DEF able
<1>4. CASE e.error # "ok"
    <2>1. x = e
        BY <1>1, <1>4
    <2>2. Reads(r, x, n, able)
        BY <1>3, <1>4, <2>1 DEF Reads
    <2>. QED
        BY <1>2, <2>1, <2>2
<1>5. CASE e.error = "ok"
    <2>1. x = y /\ Len(e.data) >= n /\ Stream(e) = Stream(r) /\ Len(e.data) \in Nat
        BY <1>1, <1>2, <1>3, <1>5, StreamBytes DEF Looks
    <2>2. Fed(x) /\ SameKind(e, x) /\ x.error = "ok" /\ x.got \in Bytes /\ Len(x.got) = n
          /\ Stream(e) = x.got \o Stream(x)
        <3>1. n <= Len(e.data)
            BY <2>1
        <3>. HIDE DEF y
        <3>2. y = [e EXCEPT !.got = SubSeq(e.data, 1, n), !.data = After(@, n)]
            BY DEF y
        <3>3. Fed(y) /\ SameKind(e, y) /\ y.error = e.error /\ y.got \in Bytes /\ Len(y.got) = n
              /\ Stream(e) = y.got \o Stream(y)
            <4>1. Fed(e)
                BY <1>3
            <4>. QED
                <5>1. y = GivenFront(e, n)
                    BY <3>2 DEF GivenFront
                <5>2. Fronted(e, GivenFront(e, n), n)
                    BY <3>1, <4>1, FrontMoved
                <5>. QED
                    BY ONLY <5>1, <5>2 DEF Fronted
        <3>. QED
            BY <1>5, <2>1, <3>3
    <2>3. SameKind(r, x)
        BY <1>3, <2>2 DEF SameKind
    <2>4. Reads(r, x, n, able)
        BY <2>1, <2>2, <2>3 DEF Reads
    <2>. QED
        BY <1>2, <1>5, <2>4
<1>. QED
    BY <1>4, <1>5

LEMMA PartIsLess ==
    ASSUME NEW a \in Nat, NEW c \in Nat, c > 0
    PROVE  a \div c \in Nat /\ a \div c <= a
<1>. DEFINE q == a \div c
            k == c * q
<1>1. q \in Nat /\ k <= a
    BY DivisionIs
<1>2. q <= k
    <2>. HIDE DEF q
    <2>1. (c - 1) * q \in Nat /\ c * q = (c - 1) * q + q
        BY <1>1
    <2>. QED
        BY <1>1, <2>1
<1>. HIDE DEF q, k
<1>3. q <= a
    <2>1. k \in Int
        BY <1>1 DEF k
    <2>. QED
        BY <1>1, <1>2, <2>1
<1>. QED
    BY <1>1, <1>3 DEF q

LEMMA Native ==
    ASSUME NEW r, Fed(r), r.error = "ok", NEW n \in Nat
    PROVE  Reads(r, ReadNative(r, n), n, TRUE)
<1>. DEFINE left == Len(r.data)
            rest == n - left
            small == rest <= r.size \div SmallFraction
            max == IF small THEN r.size ELSE rest
            z == [r EXCEPT !.data = <<>>]
            f == FillRange(z, rest, max)
            g == r.data \o SubSeq(f.got, 1, rest)
            d == After(f.got, rest)
            x == ReadNative(r, n)
<1>0. SUFFICES Reads(r, x, n, TRUE)
    OBVIOUS
<1>1. /\ rest <= 0 => x = [r EXCEPT !.got = SubSeq(r.data, 1, n), !.data = After(@, n)]
      /\ ~(rest <= 0) /\ r.kind = "data" => x = FlagError(r, "invalid")
      /\ ~(rest <= 0) /\ r.kind # "data" => x = IF f.error = "ok" THEN Refilled(r, f, rest) ELSE f
    BY DEF ReadNative, Then
<1>. HIDE DEF x
<1>2. left \in Nat /\ Len(r.source) \in Nat /\ Len(Stream(r)) = left + Len(r.source)
      /\ r.data \in Bytes /\ r.source \in Bytes /\ rest \in Int
    <2>1. left \in Nat /\ Len(r.source) \in Nat /\ Len(Stream(r)) = left + Len(r.source)
          /\ r.data \in Bytes /\ r.source \in Bytes
        BY StreamBytes
    <2>2. rest \in Int
        <3>. HIDE DEF left
        <3>. QED
            BY <2>1
    <2>. QED
        BY <2>1, <2>2
<1>3. CASE rest <= 0
    <2>1. n <= Len(r.data)
        BY <1>2, <1>3
    <2>2. x = [r EXCEPT !.got = SubSeq(r.data, 1, n), !.data = After(@, n)]
        BY <1>1, <1>3
    <2>3. Fed(x) /\ SameKind(r, x) /\ x.error = r.error /\ x.got \in Bytes /\ Len(x.got) = n
          /\ Stream(r) = x.got \o Stream(x)
        <3>. HIDE DEF x
        <3>. QED
            <4>1. x = GivenFront(r, n)
                BY <2>2 DEF GivenFront
            <4>2. Fronted(r, GivenFront(r, n), n)
                BY <2>1, FrontMoved
            <4>. QED
                BY ONLY <4>1, <4>2 DEF Fronted
    <2>. QED
        BY <2>3 DEF Reads
<1>4. CASE ~(rest <= 0) /\ r.kind = "data"
    <2>1. x = FlagError(r, "invalid")
        BY <1>1, <1>4
    <2>2. Fed(x) /\ SameKind(r, x) /\ x.error = "invalid"
        BY <2>1, FlaggedReader
    <2>3. Len(r.source) = 0
        BY <1>4 DEF Fed
    <2>4. ~(Len(Stream(r)) >= n)
        BY <1>2, <1>4, <2>3
    <2>. QED
        BY <2>2, <2>4 DEF Reads
<1>5. CASE ~(rest <= 0) /\ r.kind # "data"
    <2>1. r.size \in Nat /\ left <= r.size
        BY <1>5 DEF Fed
    <2>2. rest \in Nat /\ 0 < rest /\ max \in Nat /\ rest <= max /\ max - rest <= r.size
        <3>1. SmallFraction \in Nat /\ SmallFraction > 0
            BY FractionAssumption
        <3>. DEFINE q == r.size \div SmallFraction
        <3>2. q \in Nat /\ q <= r.size
            BY <2>1, <3>1, PartIsLess
        <3>. HIDE DEF q, left
        <3>. QED
            BY <1>2, <1>5, <2>1, <3>2 DEF q
    <2>3. Fed(z) /\ SameKind(r, z) /\ z.error = "ok" /\ z.source = r.source /\ z.data = <<>>
        <3>1. <<>> \in Bytes /\ Len(<<>>) = 0 /\ (r.kind # "data" => Len(<<>>) <= r.size)
            BY <2>1 DEF Bytes
        <3>. HIDE DEF z
        <3>. QED
            BY <3>1, Redated DEF z
    <2>4. Fills(z, f, rest, max)
        <3>. HIDE DEF z, rest, max
        <3>1. z.kind # "data"
            BY <1>5, <2>3 DEF SameKind
        <3>. QED
            BY <2>2, <2>3, <3>1, Filling1
    <2>. HIDE DEF f, z, max
    <2>5. Fed(f) /\ SameKind(r, f)
        BY <2>3, <2>4 DEF Fills, SameKind
    <2>6. CASE f.error # "ok"
        <3>1. x = f /\ ~(Len(r.source) >= rest)
            BY <1>1, <1>5, <2>3, <2>4, <2>6 DEF Fills
        <3>. DEFINE u == Len(Stream(r))
                    v == Len(r.source)
        <3>2. ~(u >= n)
            <4>1. u = left + v /\ ~(v >= rest) /\ v \in Nat
                BY <1>2, <3>1
            <4>. HIDE DEF u, v, left
            <4>. QED
                BY <1>2, <4>1
        <3>. QED
            BY <2>5, <2>6, <3>1, <3>2 DEF Reads
    <2>7. CASE f.error = "ok"
        <3>1. f.got \in Bytes /\ Len(f.got) >= rest /\ Len(f.got) <= max /\ f.got \o f.source = r.source
            BY <2>3, <2>4, <2>7 DEF Fills
        <3>. DEFINE s == SubSeq(f.got, 1, rest)
        <3>2. s \in Bytes /\ Len(s) = rest /\ d \in Bytes /\ s \o d = f.got /\ Len(d) = Len(f.got) - rest
            <4>. HIDE DEF rest
            <4>. QED
                BY <2>2, <3>1, AfterIs
        <3>3. x = [f EXCEPT !.got = g, !.data = d]
            BY <1>1, <1>5, <2>7 DEF Refilled
        <3>4. f.source \in Bytes
            BY <2>5 DEF Fed
        <3>. HIDE DEF s, d, rest
        <3>5. g \in Bytes /\ Len(g) = left + rest
                <4>1. r.data \in Bytes /\ s \in Bytes
                BY <1>2, <3>2
            <4>2. r.data \o s \in Bytes /\ Len(r.data \o s) = Len(r.data) + Len(s)
                BY <4>1, Join
            <4>. QED
                BY <3>2, <4>2 DEF s
        <3>6. Stream(r) = g \o (d \o f.source)
            <4>1. g \o (d \o f.source) = r.data \o (s \o (d \o f.source))
                <5>1. d \o f.source \in Bytes
                    BY <3>2, <3>4, Join
                <5>. QED
                    BY <1>2, <3>2, <5>1, Rejoin DEF s
            <4>2. s \o (d \o f.source) = (s \o d) \o f.source
                BY <3>2, <3>4, Rejoin
            <4>. QED
                BY <3>1, <3>2, <4>1, <4>2 DEF Stream
        <3>. HIDE DEF g
        <3>7. r.kind # "data" => Len(d) <= r.size
            <4>1. Len(f.got) \in Nat
                BY <3>1 DEF Bytes
            <4>. QED
                BY <2>1, <2>2, <3>1, <3>2, <4>1
        <3>8. Fed(x) /\ SameKind(f, x) /\ x.error = "ok" /\ x.got = g /\ x.data = d /\ x.source = f.source
            <4>1. f.kind # "data" => Len(d) <= f.size
                BY <2>5, <3>7 DEF SameKind
            <4>2. Rebuffered(f, x, g, d)
                BY <2>5, <3>3 DEF Rebuffered, Fed, IsReader, ReaderFields
            <4>3. Fed(x) /\ SameKind(f, x)
                BY <2>5, <3>2, <4>1, <4>2, Refitted
            <4>. QED
                BY <2>7, <4>2, <4>3 DEF Rebuffered
        <3>9. SameKind(r, x)
            BY <2>5, <3>8 DEF SameKind
        <3>10. Stream(r) = x.got \o Stream(x)
            BY <3>6, <3>8 DEF Stream
        <3>11. left + rest = n
            BY <1>2 DEF rest
        <3>. QED
            BY <3>5, <3>8, <3>9, <3>10, <3>11 DEF Reads
    <2>. QED
        BY <2>6, <2>7
<1>. QED
    BY <1>3, <1>4, <1>5

NextFill(s) == Then(s, LAMBDA t : FillRange(t, t.size, t.size))

Filled(f, r, n) == [i \in 0..n |-> IF i = 0 THEN r ELSE NextFill(f[i - 1])]

LEMMA FillsExist ==
    ASSUME NEW r, NEW n \in Nat
    PROVE  \E f : f = Filled(f, r, n)
<1>0. SUFFICES \E f : f = [i \in 0..n |-> IF i = 0 THEN r ELSE NextFill(f[i - 1])]
    BY DEF Filled
<1>. DEFINE F(f, m) == [i \in 0..m |-> IF i = 0 THEN r ELSE NextFill(f[i - 1])]
            S == {m \in Nat : ~\E f : f = F(f, m)}
<1>1. SUFFICES ASSUME S # {}
               PROVE  FALSE
    OBVIOUS
<1>2. PICK m \in S : \A i \in S : m <= i
    BY <1>1, LeastNumber
<1>3. m # 0
    <2>1. [i \in 0..0 |-> r] = F([i \in 0..0 |-> r], 0)
        OBVIOUS
    <2>. QED
        BY <2>1
<1>4. m - 1 \in Nat /\ m - 1 \notin S
    <2>1. m \in Nat
        OBVIOUS
    <2>. HIDE DEF S
    <2>. QED
        BY <1>2, <1>3, <2>1
<1>5. PICK f : f = F(f, m - 1)
    BY <1>4
<1>. DEFINE next == [i \in 0..m |-> IF i = 0 THEN r ELSE NextFill(f[i - 1])]
<1>6. \A i \in 0..(m - 1) : next[i] = f[i]
    <2>. SUFFICES ASSUME NEW i \in 0..(m - 1)
                  PROVE  next[i] = f[i]
        OBVIOUS
    <2>1. f[i] = IF i = 0 THEN r ELSE NextFill(f[i - 1])
        BY <1>5
    <2>2. i \in 0..m
        OBVIOUS
    <2>. QED
        BY <2>1, <2>2
<1>7. next = F(next, m)
    <2>1. \A i \in 0..m : i # 0 => i - 1 \in 0..(m - 1)
        OBVIOUS
    <2>2. \A i \in 0..m : i # 0 => next[i - 1] = f[i - 1]
        <3>. HIDE DEF next
        <3>. QED
            BY <1>6, <2>1
    <2>. QED
        BY <2>2
<1>. QED
    BY <1>7

\* n bytes are gone, whatever they were; a seek may go past the end of a file.
Eats(r, x, n) ==
    /\ Fed(x) /\ SameKind(r, x)
    /\ x.error = "ok" => \/ \E a \in Bytes : Len(a) = n /\ Stream(r) = a \o Stream(x)
                         \/ r.kind = "file" /\ Len(Stream(r)) < n /\ Stream(x) = <<>>
    /\ Len(Stream(r)) >= n => x.error = "ok"

\* k whole buffers have been skipped.
Emptied(r, u, k) ==
    /\ Fed(u) /\ SameKind(r, u)
    /\ u.error = "ok" => u.data = <<>> /\ \E a \in Bytes : Len(a) = k * r.size /\ r.source = a \o u.source
    /\ Len(r.source) >= k * r.size => u.error = "ok"

LEMMA EmptiedOnce ==
    ASSUME NEW r, Fed(r), r.kind # "data", NEW k \in Nat, NEW u, Emptied(r, u, k)
    PROVE  Emptied(r, NextFill(u), k + 1)
<1>. DEFINE f == FillRange(u, u.size, u.size)
            x == NextFill(u)
            size == r.size
            done == k * size
            more == (k + 1) * size
<1>0. SUFFICES Emptied(r, x, k + 1)
    OBVIOUS
<1>1. x = IF u.error = "ok" THEN f ELSE u
    BY DEF NextFill, Then
<1>. HIDE DEF x
<1>2. Fed(u) /\ u.size = size /\ u.kind # "data" /\ size \in Nat /\ size > 0 /\ SameKind(r, u)
    BY DEF Emptied, Fed, SameKind
<1>. HIDE DEF size
<1>3. done \in Nat /\ more \in Nat /\ more = done + size
    BY <1>2
<1>. HIDE DEF done, more
<1>4. Len(r.source) \in Nat
    BY DEF Fed, Bytes
<1>5. CASE u.error # "ok"
    <2>1. ~(Len(r.source) >= done)
        BY <1>5 DEF Emptied, done, size
    <2>2. ~(Len(r.source) >= more)
        BY <1>2, <1>3, <1>4, <2>1
    <2>. QED
        BY <1>1, <1>2, <1>5, <2>2 DEF Emptied, more, size
<1>6. CASE u.error = "ok"
    <2>1. PICK a \in Bytes : Len(a) = done /\ r.source = a \o u.source
        BY <1>6 DEF Emptied, done, size
    <2>2. u.data = <<>> /\ u.source \in Bytes
        BY <1>6 DEF Emptied, Fed
    <2>3. Fills(u, f, size, size)
        <3>. HIDE DEF f
        <3>1. f = FillRange(u, size, size)
            BY <1>2 DEF f
        <3>2. Fills(u, FillRange(u, size, size), size, size)
            BY <1>2, <1>6, Filling1
        <3>. QED
            BY <3>1, <3>2
    <2>4. x = f
        BY <1>1, <1>6
    <2>. HIDE DEF f
    <2>5. Fed(x) /\ SameKind(r, x)
        BY <1>2, <2>3, <2>4 DEF Fills, SameKind
    <2>6. Len(r.source) = done + Len(u.source) /\ Len(u.source) \in Nat
        <3>1. Len(a \o u.source) = Len(a) + Len(u.source)
            BY <2>2, Join
        <3>. QED
            BY <2>1, <2>2, <3>1 DEF Bytes
    <2>7. Len(r.source) >= more => x.error = "ok"
        <3>1. Len(u.source) >= size => x.error = "ok"
            BY <2>3, <2>4 DEF Fills
        <3>. QED
            BY <1>2, <1>3, <2>6, <3>1
    <2>8. ASSUME x.error = "ok"
          PROVE  x.data = <<>> /\ \E b \in Bytes : Len(b) = more /\ r.source = b \o x.source
        <3>1. x.got \in Bytes /\ Len(x.got) = size /\ x.got \o x.source = u.source /\ x.data = <<>>
            <4>1. x.got \in Bytes /\ Len(x.got) >= size /\ Len(x.got) <= size
                  /\ x.got \o x.source = u.source /\ x.data = <<>>
                BY <2>2, <2>3, <2>4, <2>8 DEF Fills
            <4>2. Len(x.got) \in Nat
                BY <4>1 DEF Bytes
            <4>. QED
                BY <1>2, <4>1, <4>2
        <3>2. x.source \in Bytes
            BY <2>5 DEF Fed
        <3>3. a \o x.got \in Bytes /\ Len(a \o x.got) = more
            <4>1. a \o x.got \in Bytes /\ Len(a \o x.got) = Len(a) + Len(x.got)
                BY <3>1, Join
            <4>. QED
                BY <1>3, <2>1, <3>1, <4>1
        <3>4. r.source = (a \o x.got) \o x.source
            <4>1. (a \o x.got) \o x.source = a \o (x.got \o x.source)
                BY <3>1, <3>2, Rejoin
            <4>. QED
                BY <2>1, <3>1, <4>1
        <3>. QED
            BY <3>1, <3>3, <3>4
    <2>. QED
        BY <2>5, <2>7, <2>8 DEF Emptied, more, size
<1>. QED
    BY <1>5, <1>6

LEMMA SkippingByFill ==
    ASSUME NEW r, Fed(r), r.kind # "data", r.error = "ok", r.data = <<>>, NEW count \in Nat, count > 0
    PROVE  Eats(r, SkipUsingFill(r, count), count)
<1>. DEFINE whole == (count - 1) \div r.size
            rest == count - whole * r.size
            F(f) == [n \in 0..whole |->
                        IF n = 0 THEN r ELSE Then(f[n - 1], LAMBDA t : FillRange(t, t.size, t.size))]
            up == CHOOSE f : f = F(f)
            s == up[whole]
            f == FillRange(s, rest, s.size)
            x == SkipUsingFill(r, count)
<1>0. SUFFICES Eats(r, x, count)
    OBVIOUS
<1>1. r.size \in Nat /\ r.size > 0 /\ r.source \in Bytes /\ Len(r.source) \in Nat
    BY DEF Fed, Bytes
<1>2. whole \in Nat /\ rest \in Nat /\ rest > 0 /\ rest <= r.size /\ whole * r.size \in Nat
      /\ whole * r.size + rest = count
    <2>. DEFINE c == count - 1
                q == c \div r.size
                k == r.size * q
    <2>1. c \in Nat
        OBVIOUS
    <2>2. q \in Nat /\ k <= c /\ c < k + r.size
        <3>. HIDE DEF c
        <3>. QED
            BY <1>1, <2>1, DivisionIs
    <2>3. whole = q
        OBVIOUS
    <2>4. whole * r.size = k /\ k \in Nat
        <3>. HIDE DEF q, whole
        <3>. QED
            BY <1>1, <2>2, <2>3
    <2>5. rest = c + 1 - whole * r.size
        BY <2>1, <2>2, <2>4
    <2>6. count = c + 1
        OBVIOUS
    <2>. DEFINE product == whole * r.size
                left == rest
                size == r.size
    <2>7. product \in Nat /\ size \in Nat /\ left = c + 1 - product /\ product <= c /\ c < product + size
        BY <1>1, <2>2, <2>4, <2>5
    <2>8. whole \in Nat
        BY <2>2, <2>3
    <2>. HIDE DEF k, q, whole, c, product, left, size
    <2>9. left \in Nat /\ left > 0 /\ left <= size /\ product + left = count
        BY <2>1, <2>6, <2>7
    <2>. QED
        BY <2>7, <2>8, <2>9 DEF product, left, size
<1>3. \E h : h = F(h)
    <2>. HIDE DEF whole
    <2>1. whole \in Nat
        BY <1>2
    <2>2. \E h : h = Filled(h, r, whole)
        BY ONLY <2>1, FillsExist
    <2>. QED
        BY ONLY <2>2 DEF Filled, NextFill
<1>4. up = F(up)
    <2>. HIDE DEF F
    <2>. QED
        BY <1>3
<1>5. x = Then(Then(up[whole], LAMBDA t : FillRange(t, rest, t.size)),
               LAMBDA t : [t EXCEPT !.data = After(t.got, rest)])
    BY DEF SkipUsingFill
<1>6. x = LET a == IF s.error = "ok" THEN f ELSE s
          IN  IF a.error = "ok" THEN [a EXCEPT !.data = After(a.got, rest)] ELSE a
    <2>. HIDE DEF x, up
    <2>. QED
        BY <1>5 DEF Then
<1>. HIDE DEF x, up
<1>7. up[0] = r /\ \A n \in 1..whole : up[n] = NextFill(up[n - 1])
    <2>. HIDE DEF whole
    <2>1. 0 \in 0..whole /\ \A n \in 1..whole : n \in 0..whole /\ n # 0
        BY <1>2
    <2>2. \A n \in 0..whole : up[n] = IF n = 0 THEN r ELSE NextFill(up[n - 1])
        BY <1>4 DEF NextFill
    <2>. QED
        BY <2>1, <2>2
<1>8. Emptied(r, s, whole)
    <2>. HIDE DEF whole
    <2>. DEFINE T == {n \in 0..whole : Emptied(r, up[n], n)}
    <2>1. 0 \in T
        <3>1. <<>> \in Bytes /\ Len(<<>>) = 0 /\ <<>> \o r.source = r.source /\ 0 * r.size = 0
            BY <1>1, Join DEF Bytes
        <3>2. Emptied(r, r, 0)
            BY <1>1, <3>1 DEF Emptied, SameKind
        <3>. QED
            BY <1>2, <1>7, <3>2
    <2>2. ASSUME NEW n \in 1..whole, n - 1 \in T
          PROVE  n \in T
        <3>1. n - 1 \in Nat /\ (n - 1) + 1 = n
            BY <1>2
        <3>2. Emptied(r, up[n - 1], n - 1)
            BY <2>2
        <3>3. Emptied(r, NextFill(up[n - 1]), (n - 1) + 1)
            BY <3>1, <3>2, EmptiedOnce
        <3>. QED
            BY <1>7, <3>1, <3>3
    <2>. HIDE DEF T
    <2>3. \A n \in 0..whole : n \in T
        BY <1>2, <2>1, <2>2, AllTheWay
    <2>. QED
        BY <1>2, <2>3 DEF T
<1>. HIDE DEF s
<1>. DEFINE done == whole * r.size
<1>9. done \in Nat /\ done + rest = count
    BY <1>2
<1>10. Stream(r) = r.source
    BY <1>1, Join DEF Stream
<1>11. Fed(s) /\ SameKind(r, s) /\ s.size = r.size /\ s.kind # "data" /\ s.source \in Bytes
    BY <1>8 DEF Emptied, Fed, SameKind
<1>12. /\ s.error = "ok" => s.data = <<>> /\ \E a \in Bytes : Len(a) = done /\ r.source = a \o s.source
       /\ Len(r.source) >= done => s.error = "ok"
    BY <1>8 DEF Emptied
<1>. HIDE DEF whole, rest, done
<1>13. CASE s.error # "ok"
    <2>1. x = s
        BY <1>6, <1>13
    <2>2. ~(Len(Stream(r)) >= count)
        BY <1>1, <1>2, <1>9, <1>10, <1>12, <1>13
    <2>. QED
        BY <1>11, <1>13, <2>1, <2>2 DEF Eats
<1>14. CASE s.error = "ok"
    <2>1. PICK a \in Bytes : Len(a) = done /\ r.source = a \o s.source
        BY <1>12, <1>14
    <2>2. Fills(s, f, rest, r.size)
        <3>. HIDE DEF f
        <3>1. f = FillRange(s, rest, r.size)
            BY <1>11 DEF f
        <3>2. Fills(s, FillRange(s, rest, r.size), rest, r.size)
            BY <1>1, <1>2, <1>11, <1>14, Filling1
        <3>. QED
            BY <3>1, <3>2
    <2>. HIDE DEF f
    <2>3. Fed(f) /\ SameKind(r, f)
        BY <1>11, <2>2 DEF Fills, SameKind
    <2>4. Len(r.source) = done + Len(s.source) /\ Len(s.source) \in Nat
        <3>1. Len(a \o s.source) = Len(a) + Len(s.source)
            BY <1>11, Join
        <3>. QED
            BY <1>11, <2>1, <3>1 DEF Bytes
    <2>5. CASE f.error # "ok"
        <3>1. x = f
            BY <1>6, <1>14, <2>5
        <3>2. ~(Len(s.source) >= rest)
            BY <2>2, <2>5 DEF Fills
        <3>3. ~(Len(Stream(r)) >= count)
            BY <1>2, <1>9, <1>10, <2>4, <3>2
        <3>. QED
            BY <2>3, <2>5, <3>1, <3>3 DEF Eats
    <2>6. CASE f.error = "ok"
        <3>. DEFINE d == After(f.got, rest)
                    b == SubSeq(f.got, 1, rest)
        <3>1. f.got \in Bytes /\ Len(f.got) >= rest /\ Len(f.got) <= r.size /\ f.got \o f.source = s.source
            BY <2>2, <2>6 DEF Fills
        <3>2. b \in Bytes /\ Len(b) = rest /\ d \in Bytes /\ b \o d = f.got /\ Len(d) = Len(f.got) - rest
            BY <1>2, <3>1, AfterIs
        <3>3. x = [f EXCEPT !.data = d]
            BY <1>6, <1>14, <2>6
        <3>. HIDE DEF b, d
        <3>4. Len(d) <= r.size
            <4>1. Len(f.got) \in Nat
                BY <3>1 DEF Bytes
            <4>. QED
                BY <1>1, <1>2, <3>1, <3>2, <4>1
        <3>5. Fed(x) /\ SameKind(f, x) /\ x.error = "ok" /\ x.data = d /\ x.source = f.source
            <4>1. f.kind # "data" => Len(d) <= f.size
                BY <2>3, <3>4 DEF SameKind
            <4>. QED
                BY <2>3, <2>6, <3>2, <3>3, <4>1, Redated
        <3>6. SameKind(r, x)
            BY <2>3, <3>5 DEF SameKind
        <3>7. f.source \in Bytes
            BY <2>3 DEF Fed
        <3>8. a \o b \in Bytes /\ Len(a \o b) = count
            <4>1. a \o b \in Bytes /\ Len(a \o b) = Len(a) + Len(b)
                BY <3>2, Join
            <4>. QED
                BY <1>9, <2>1, <3>2, <4>1
        <3>9. Stream(r) = (a \o b) \o Stream(x)
            <4>1. d \o f.source \in Bytes
                BY <3>2, <3>7, Join
            <4>2. s.source = b \o (d \o f.source)
                <5>1. s.source = (b \o d) \o f.source
                    BY <3>1, <3>2
                <5>. QED
                    BY <3>2, <3>7, <5>1, Rejoin
            <4>3. (a \o b) \o (d \o f.source) = a \o (b \o (d \o f.source))
                BY <3>2, <4>1, Rejoin
            <4>. QED
                BY <1>10, <2>1, <3>5, <4>2, <4>3 DEF Stream
        <3>. QED
            BY <3>5, <3>6, <3>8, <3>9 DEF Eats
    <2>. QED
        BY <2>5, <2>6
<1>. QED
    BY <1>13, <1>14

LEMMA Skipping ==
    ASSUME NEW r, Fed(r), r.error = "ok", NEW n \in Nat
    PROVE  Eats(r, SkipBytes(r, n), n)
<1>. DEFINE left == Len(r.data)
            rest == n - left
            z == [r EXCEPT !.data = <<>>]
            x == SkipBytes(r, n)
            seeks == CanSeek(r) /\ rest > r.size \div SkipFraction
<1>0. SUFFICES Eats(r, x, n)
    OBVIOUS
<1>1. /\ rest <= 0 => x = [r EXCEPT !.data = After(@, n)]
      /\ ~(rest <= 0) /\ r.kind = "data" => x = FlagError(r, "invalid")
      /\ ~(rest <= 0) /\ r.kind # "data" => x = IF seeks THEN Seek(z, rest) ELSE SkipUsingFill(z, rest)
    BY DEF SkipBytes
<1>. HIDE DEF x, seeks
<1>2. left \in Nat /\ Len(r.source) \in Nat /\ Len(Stream(r)) = left + Len(r.source)
      /\ r.data \in Bytes /\ r.source \in Bytes
    BY StreamBytes
<1>2a. rest \in Int /\ left + rest = n
    <2>. HIDE DEF left
    <2>. QED
        BY <1>2
<1>3. CASE rest <= 0
    <2>. DEFINE d == After(r.data, n)
                g == SubSeq(r.data, 1, n)
    <2>1. n <= Len(r.data)
        BY <1>2, <1>3
    <2>2. d \in Bytes /\ g \in Bytes /\ Len(g) = n /\ g \o d = r.data /\ Len(d) = Len(r.data) - n
        BY <1>2, <2>1, AfterIs
    <2>3. x = [r EXCEPT !.data = d]
        BY <1>1, <1>3
    <2>. HIDE DEF d, g
    <2>4. r.kind # "data" => Len(d) <= r.size
        <3>1. r.kind # "data" => r.size \in Nat /\ Len(r.data) <= r.size
            BY DEF Fed
        <3>. QED
            BY <1>2, <2>2, <3>1
    <2>5. Fed(x) /\ SameKind(r, x) /\ x.error = "ok" /\ x.data = d /\ x.source = r.source
        BY <2>2, <2>3, <2>4, Redated
    <2>6. Stream(r) = g \o Stream(x)
        <3>1. (g \o d) \o r.source = g \o (d \o r.source)
            BY <1>2, <2>2, Rejoin
        <3>. QED
            BY <2>2, <2>5, <3>1 DEF Stream
    <2>. QED
        BY <2>2, <2>5, <2>6 DEF Eats
<1>4. CASE ~(rest <= 0) /\ r.kind = "data"
    <2>1. x = FlagError(r, "invalid")
        BY <1>1, <1>4
    <2>2. Fed(x) /\ SameKind(r, x) /\ x.error = "invalid"
        BY <2>1, FlaggedReader
    <2>3. Len(r.source) = 0
        BY <1>4 DEF Fed
    <2>4. ~(Len(Stream(r)) >= n)
        BY <1>2, <1>4, <2>3
    <2>. QED
        BY <2>2, <2>4 DEF Eats
<1>5. CASE ~(rest <= 0) /\ r.kind # "data"
    <2>. HIDE DEF rest
    <2>1. rest \in Nat /\ rest > 0
        BY <1>2a, <1>5
    <2>2. Fed(z) /\ SameKind(r, z) /\ z.error = "ok" /\ z.source = r.source /\ z.data = <<>>
        <3>1. r.size \in Nat
            BY <1>5 DEF Fed
        <3>2. <<>> \in Bytes /\ Len(<<>>) = 0 /\ (r.kind # "data" => Len(<<>>) <= r.size)
            BY <3>1 DEF Bytes
        <3>. HIDE DEF z
        <3>. QED
            BY <3>2, Redated DEF z
    <2>3. z.kind = r.kind
        BY <2>2 DEF SameKind
    <2>. HIDE DEF z, left
    <2>4. Stream(r) = r.data \o Stream(z) /\ Stream(z) = r.source /\ Len(Stream(z)) = Len(r.source)
        BY <1>2, <2>2, Join DEF Stream
    <2>5. Eats(z, x, rest)
        <3>1. CASE seeks
            <4>. DEFINE d == After(r.source, rest)
                        b == SubSeq(r.source, 1, rest)
            <4>0. x = Seek(z, rest) /\ r.kind = "file"
                BY <1>1, <1>5, <3>1 DEF seeks, CanSeek
            <4>1. x = [z EXCEPT !.source = d, !.feof = FALSE]
                BY <2>2, <4>0 DEF Seek
            <4>2. /\ rest <= Len(r.source) => d \in Bytes /\ b \in Bytes /\ Len(b) = rest /\ b \o d = r.source
                  /\ rest >= Len(r.source) => d = <<>>
                BY <1>2, <2>1, AfterIs
            <4>. HIDE DEF d, b
            <4>3. IsReader(x) /\ x.source = d /\ x.data = <<>> /\ x.feof = FALSE /\ x.error = "ok"
                  /\ x.kind = z.kind /\ x.size = z.size /\ x.chunk = z.chunk
                BY <2>2, <4>1 DEF Fed, IsReader, ReaderFields
            <4>4. d \in Bytes
                <5>1. rest <= Len(r.source) \/ rest >= Len(r.source)
                    BY <1>2, <2>1
                <5>. QED
                    BY <4>2, <5>1, Nothings
            <4>5. Fed(x) /\ SameKind(z, x)
                BY <1>5, <2>2, <2>3, <4>3, <4>4 DEF Fed, SameKind
            <4>6. Stream(x) = d
                BY <4>3, <4>4, Join DEF Stream
            <4>7. CASE rest <= Len(r.source)
                <5>1. b \in Bytes /\ Len(b) = rest /\ Stream(z) = b \o Stream(x)
                    BY <2>4, <4>2, <4>6, <4>7
                <5>. QED
                    BY <4>3, <4>5, <5>1 DEF Eats
            <4>8. CASE ~(rest <= Len(r.source))
                <5>1. Stream(x) = <<>> /\ z.kind = "file" /\ Len(Stream(z)) < rest
                    BY <1>2, <2>1, <2>3, <2>4, <4>0, <4>2, <4>6, <4>8
                <5>. QED
                    BY <4>3, <4>5, <5>1 DEF Eats
            <4>. QED
                BY <4>7, <4>8
        <3>2. CASE ~seeks
            <4>1. x = SkipUsingFill(z, rest)
                BY <1>1, <1>5, <3>2
            <4>2. z.kind # "data"
                BY <1>5, <2>3
            <4>3. Eats(z, SkipUsingFill(z, rest), rest)
                BY <2>1, <2>2, <4>2, SkippingByFill
            <4>. QED
                BY <4>1, <4>3
        <3>. QED
            BY <3>1, <3>2
    <2>6. Fed(x) /\ SameKind(r, x)
        BY <2>2, <2>5 DEF Eats, SameKind
    <2>7. Len(Stream(r)) >= n => x.error = "ok"
        <3>1. Len(r.source) >= rest => x.error = "ok"
            BY <2>4, <2>5 DEF Eats
        <3>. QED
            BY <1>2, <1>2a, <2>1, <3>1
    <2>8. ASSUME x.error = "ok"
          PROVE  \/ \E a \in Bytes : Len(a) = n /\ Stream(r) = a \o Stream(x)
                 \/ r.kind = "file" /\ Len(Stream(r)) < n /\ Stream(x) = <<>>
        <3>0. Stream(x) \in Bytes
            BY <2>6, StreamBytes
        <3>1. CASE \E a \in Bytes : Len(a) = rest /\ Stream(z) = a \o Stream(x)
            <4>1. PICK a \in Bytes : Len(a) = rest /\ Stream(z) = a \o Stream(x)
                BY <3>1
            <4>2. r.data \o a \in Bytes /\ Len(r.data \o a) = left + rest
                <5>1. r.data \o a \in Bytes /\ Len(r.data \o a) = Len(r.data) + Len(a)
                    BY <1>2, Join
                <5>. QED
                    BY <4>1, <5>1 DEF left
            <4>3. (r.data \o a) \o Stream(x) = r.data \o (a \o Stream(x))
                BY <1>2, <3>0, Rejoin
            <4>. QED
                BY <1>2a, <2>4, <4>1, <4>2, <4>3
        <3>2. CASE z.kind = "file" /\ Len(Stream(z)) < rest /\ Stream(x) = <<>>
            <4>1. Len(Stream(r)) < n
                BY <1>2, <1>2a, <2>1, <2>4, <3>2
            <4>. QED
                BY <2>3, <3>2, <4>1
        <3>. QED
            BY <2>5, <2>8, <3>1, <3>2 DEF Eats
    <2>. QED
        BY <2>6, <2>7, <2>8 DEF Eats
<1>. QED
    BY <1>3, <1>4, <1>5

------------------------------------------------------------------------------------
(* A call and the bytes that are still to come, or their beginning. *)

\* A reader with rest still to come, or with the beginning of it when it is cut.
Trailing(r, rest, c, t) ==
    /\ t \in Bytes /\ rest = Stream(r) \o t
    /\ ~c => t = <<>>
    /\ c /\ r.kind # "file" => t # <<>>
Along(r, rest, c) == Fed(r) /\ r.error = "ok" /\ \E t : Trailing(r, rest, c, t)
\* What a call that should succeed makes of it, and one that should not.
Gives(r, x, val, rest, c) ==
    /\ Fed(x) /\ SameKind(r, x)
    /\ x.error = "ok" => x.got = val /\ Along(x, rest, c)
    /\ ~c => x.error = "ok"
Leaves(r, x, rest, c) ==
    /\ Fed(x) /\ SameKind(r, x)
    /\ x.error = "ok" => Along(x, rest, c)
    /\ ~c => x.error = "ok"
Refuses(r, x, error, c) ==
    /\ Fed(x) /\ SameKind(r, x)
    /\ x.error # "ok"
    /\ ~c => x.error = error

LEMMA AlongParts ==
    ASSUME NEW r, NEW rest, NEW c, Along(r, rest, c)
    PROVE  /\ Fed(r) /\ r.error = "ok" /\ rest \in Bytes /\ Stream(r) \in Bytes
           /\ \E t \in Bytes : Trailing(r, rest, c, t)
           /\ ~c => Stream(r) = rest
<1>1. PICK t : Trailing(r, rest, c, t)
    BY DEF Along
<1>2. Fed(r) /\ r.error = "ok" /\ t \in Bytes /\ rest = Stream(r) \o t /\ (~c => t = <<>>)
    BY <1>1 DEF Along, Trailing
<1>3. Stream(r) \in Bytes
    BY <1>2, StreamBytes
<1>4. rest \in Bytes /\ Stream(r) \o <<>> = Stream(r)
    BY <1>2, <1>3, Join
<1>. QED
    BY <1>1, <1>2, <1>3, <1>4

LEMMA WholeAlong ==
    ASSUME NEW r, NEW a \in Bytes, NEW b \in Bytes, NEW c, Along(r, a \o b, c)
    PROVE  ~c => Stream(r) = a \o b
<1>. DEFINE full == a \o b
<1>1. Along(r, full, c)
    OBVIOUS
<1>. HIDE DEF full
<1>2. ~c => Stream(r) = full
    BY <1>1, AlongParts
<1>. QED
    BY <1>2 DEF full

LEMMA EatsAlong ==
    ASSUME NEW r, NEW P \in Bytes, NEW rest \in Bytes, NEW c, Along(r, P \o rest, c),
           NEW x, Eats(r, x, Len(P))
    PROVE  Leaves(r, x, rest, c)
<1>1. PICK t \in Bytes : Trailing(r, P \o rest, c, t)
    BY AlongParts
<1>2. P \o rest = Stream(r) \o t /\ (~c => t = <<>>) /\ (c /\ r.kind # "file" => t # <<>>) /\ Stream(r) \in Bytes
    BY <1>1, AlongParts DEF Trailing
<1>3. Fed(x) /\ SameKind(r, x)
    BY DEF Eats
<1>4. Len(P) \in Nat /\ Len(rest) \in Nat /\ Len(P \o rest) = Len(P) + Len(rest)
    BY Join DEF Bytes
<1>5. ~c => Stream(r) = P \o rest
    BY WholeAlong
<1>6. ~c => x.error = "ok"
    <2>1. ~c => Len(Stream(r)) >= Len(P)
        BY <1>4, <1>5
    <2>. QED
        BY <2>1 DEF Eats
<1>7. Stream(x) \in Bytes
    BY <1>3, StreamBytes
<1>8. ASSUME x.error = "ok"
      PROVE  Along(x, rest, c)
    <2>1. CASE \E a \in Bytes : Len(a) = Len(P) /\ Stream(r) = a \o Stream(x)
        <3>1. PICK a \in Bytes : Len(a) = Len(P) /\ Stream(r) = a \o Stream(x)
            BY <2>1
        <3>2. Stream(x) \o t \in Bytes
            BY <1>7, Join
        <3>3. a \o (Stream(x) \o t) = P \o rest
            <4>1. (a \o Stream(x)) \o t = a \o (Stream(x) \o t)
                BY <1>7, Rejoin
            <4>. QED
                BY <1>2, <3>1, <4>1
        <3>4. rest = Stream(x) \o t
            BY <3>1, <3>2, <3>3, SplitOnly
        <3>5. Trailing(x, rest, c, t)
            BY <1>2, <1>3, <3>4 DEF Trailing, SameKind
        <3>. QED
            BY <1>3, <1>8, <3>5 DEF Along
    <2>2. CASE r.kind = "file" /\ Len(Stream(r)) < Len(P) /\ Stream(x) = <<>>
        <3>1. c
            <4>1. ~c => ~(Len(Stream(r)) < Len(P))
                BY <1>4, <1>5
            <4>. QED
                BY <2>2, <4>1
        <3>2. rest = Stream(x) \o rest
            BY <2>2, Join
        <3>3. Trailing(x, rest, c, rest)
            BY <1>3, <2>2, <3>1, <3>2 DEF Trailing, SameKind
        <3>. QED
            BY <1>3, <1>8, <3>3 DEF Along
    <2>. QED
        BY <1>8, <2>1, <2>2 DEF Eats
<1>. QED
    BY <1>3, <1>6, <1>8 DEF Leaves

LEMMA ReadsAlong ==
    ASSUME NEW r, NEW P \in Bytes, NEW rest \in Bytes, NEW c, Along(r, P \o rest, c),
           NEW x, NEW n, n = Len(P), NEW able, able, Reads(r, x, n, able)
    PROVE  Gives(r, x, P, rest, c)
<1>1. PICK t \in Bytes : Trailing(r, P \o rest, c, t)
    BY AlongParts
<1>2. P \o rest = Stream(r) \o t /\ (~c => t = <<>>) /\ (c /\ r.kind # "file" => t # <<>>) /\ Stream(r) \in Bytes
    BY <1>1, AlongParts DEF Trailing
<1>3. Fed(x) /\ SameKind(r, x)
    BY DEF Reads
<1>4. Len(P) \in Nat /\ Len(rest) \in Nat /\ Len(P \o rest) = Len(P) + Len(rest)
    BY Join DEF Bytes
<1>5. ~c => Stream(r) = P \o rest
    BY WholeAlong
<1>6. ~c => x.error = "ok"
    <2>1. ~c => Len(Stream(r)) >= Len(P)
        BY <1>4, <1>5
    <2>. QED
        BY <2>1 DEF Reads
<1>7. Stream(x) \in Bytes
    BY <1>3, StreamBytes
<1>8. ASSUME x.error = "ok"
      PROVE  x.got = P /\ Along(x, rest, c)
    <2>. DEFINE a == x.got
    <2>1. a \in Bytes /\ Len(a) = Len(P) /\ Stream(r) = a \o Stream(x)
        BY <1>8 DEF Reads
    <2>. HIDE DEF a
    <2>2. Stream(x) \o t \in Bytes
        BY <1>7, Join
    <2>3. a \o (Stream(x) \o t) = P \o rest
        <3>1. (a \o Stream(x)) \o t = a \o (Stream(x) \o t)
            BY <1>7, <2>1, Rejoin
        <3>. QED
            BY <1>2, <2>1, <3>1
    <2>4. a = P /\ rest = Stream(x) \o t
        BY <2>1, <2>2, <2>3, SplitOnly
    <2>5. Trailing(x, rest, c, t)
        BY <1>2, <1>3, <2>4 DEF Trailing, SameKind
    <2>. QED
        BY <1>3, <1>8, <2>4, <2>5 DEF Along, a
<1>. QED
    BY <1>3, <1>6, <1>8 DEF Gives

LEMMA NativeAlong ==
    ASSUME NEW r, NEW P \in Bytes, NEW rest \in Bytes, NEW c, Along(r, P \o rest, c), NEW n, n = Len(P)
    PROVE  Gives(r, ReadNative(r, n), P, rest, c)
<1>1. Fed(r) /\ r.error = "ok" /\ n \in Nat
    BY AlongParts DEF Bytes
<1>2. Reads(r, ReadNative(r, n), n, TRUE)
    BY <1>1, Native
<1>. QED
    BY <1>2, ReadsAlong

LEMMA InPlaceAlong ==
    ASSUME NEW r, NEW P \in Bytes, NEW rest \in Bytes, NEW c, Along(r, P \o rest, c), NEW n, n = Len(P)
    PROVE  /\ r.kind = "data" \/ n <= r.size => Gives(r, ReadInPlace(r, n), P, rest, c)
           /\ r.kind # "data" /\ n > r.size => Refuses(r, ReadInPlace(r, n), "too_big", c)
<1>. DEFINE able == r.kind = "data" \/ n <= r.size
            x == ReadInPlace(r, n)
<1>1. Fed(r) /\ r.error = "ok" /\ n \in Nat
    BY AlongParts DEF Bytes
<1>2. Reads(r, x, n, able) /\ (r.kind # "data" /\ n > r.size => x.error = "too_big")
    BY <1>1, InPlace
<1>. HIDE DEF x
<1>3. ASSUME able
      PROVE  Gives(r, x, P, rest, c)
    <2>. HIDE DEF able
    <2>. QED
        BY <1>2, <1>3, ReadsAlong
<1>4. ASSUME r.kind # "data" /\ n > r.size
      PROVE  Refuses(r, x, "too_big", c)
    <2>1. Fed(x) /\ SameKind(r, x)
        BY <1>2 DEF Reads
    <2>. QED
        BY <1>2, <1>4, <2>1 DEF Refuses
<1>. QED
    BY <1>3, <1>4 DEF x

LEMMA SkipAlong ==
    ASSUME NEW r, NEW P \in Bytes, NEW rest \in Bytes, NEW c, Along(r, P \o rest, c), NEW n, n = Len(P)
    PROVE  Leaves(r, SkipBytes(r, n), rest, c)
<1>1. Fed(r) /\ r.error = "ok" /\ n \in Nat
    BY AlongParts DEF Bytes
<1>2. Eats(r, SkipBytes(r, n), Len(P))
    BY <1>1, Skipping
<1>. QED
    BY <1>2, EatsAlong

\* Bytes ensured are in the buffer.
Shows(r, x, P, rest, c) ==
    /\ Fed(x) /\ SameKind(r, x)
    /\ x.error = "ok" => Along(x, P \o rest, c) /\ Stream(x) = Stream(r) /\ \E more \in Bytes : x.data = P \o more
    /\ ~c => x.error = "ok"

LEMMA EnsureAlong ==
    ASSUME NEW r, NEW P \in Bytes, NEW rest \in Bytes, NEW c, Along(r, P \o rest, c), NEW n, n = Len(P), n <= 9
    PROVE  Shows(r, EnsureBytes(r, n), P, rest, c)
<1>. DEFINE x == EnsureBytes(r, n)
            full == P \o rest
<1>0. SUFFICES Shows(r, x, P, rest, c)
    OBVIOUS
<1>1. Fed(r) /\ r.error = "ok" /\ n \in Nat
    BY AlongParts DEF Bytes
<1>2. Looks(r, x, n)
    BY <1>1, Ensuring
<1>. HIDE DEF x, full
<1>3. Fed(x) /\ SameKind(r, x)
    BY <1>2 DEF Looks
<1>4. Along(r, full, c)
    BY DEF full
<1>5. Len(full) >= n
    BY Join DEF full, Bytes
<1>6. ~c => x.error = "ok"
    <2>1. ~c => Stream(r) = full
        BY <1>4, AlongParts
    <2>2. r.kind = "data" \/ n <= r.size
        BY <1>1 DEF Fed
    <2>. QED
        BY <1>2, <1>5, <2>1, <2>2 DEF Looks
<1>7. ASSUME x.error = "ok"
      PROVE  Along(x, full, c) /\ Stream(x) = Stream(r) /\ \E more \in Bytes : x.data = P \o more
    <2>1. Stream(x) = Stream(r) /\ Len(x.data) >= n
        BY <1>2, <1>7 DEF Looks
    <2>2. PICK t \in Bytes : Trailing(r, full, c, t)
        BY <1>4, AlongParts
    <2>3. Trailing(x, full, c, t)
        BY <1>3, <2>1, <2>2 DEF Trailing, SameKind
    <2>4. Along(x, full, c)
        BY <1>3, <1>7, <2>3 DEF Along
    <2>. DEFINE a == SubSeq(x.data, 1, n)
                d == After(x.data, n)
    <2>5. x.data \in Bytes /\ x.source \in Bytes
        BY <1>3, StreamBytes
    <2>6. a \in Bytes /\ d \in Bytes /\ Len(a) = n /\ a \o d = x.data
        BY <1>1, <2>1, <2>5, AfterIs
    <2>. HIDE DEF a, d
    <2>. DEFINE e == (d \o x.source) \o t
    <2>7. full = a \o e /\ e \in Bytes
        <3>1. d \o x.source \in Bytes /\ e \in Bytes
            BY <2>5, <2>6, Join
        <3>2. Stream(x) = a \o (d \o x.source)
            <4>1. Stream(x) = (a \o d) \o x.source
                BY <2>6 DEF Stream
            <4>. DEFINE o == x.source
            <4>2. a \in Bytes /\ d \in Bytes /\ o \in Bytes
                BY <2>5, <2>6
            <4>. HIDE DEF o
            <4>3. Rejoined(a, d, o)
                BY <4>2, Rejoins
            <4>4. (a \o d) \o o = a \o (d \o o)
                BY ONLY <4>3 DEF Rejoined
            <4>. QED
                BY <4>1, <4>4 DEF o
        <3>3. full = (a \o (d \o x.source)) \o t
            BY <2>3, <3>2 DEF Trailing
        <3>. DEFINE s == d \o x.source
        <3>. HIDE DEF s
        <3>4. (a \o s) \o t = a \o (s \o t)
            <4>1. a \in Bytes /\ s \in Bytes
                BY <2>6, <3>1 DEF s
            <4>2. Rejoined(a, s, t)
                BY <4>1, Rejoins
            <4>. QED
                BY ONLY <4>2 DEF Rejoined
        <3>. QED
            BY <3>1, <3>3, <3>4 DEF s
    <2>. HIDE DEF e
    <2>8. a = P
        <3>1. a \o e = P \o rest
            BY <2>7 DEF full
        <3>. QED
            BY <2>6, <2>7, <3>1, SplitOnly
    <2>. QED
        BY <2>1, <2>4, <2>6, <2>8
<1>. QED
    BY <1>3, <1>6, <1>7 DEF Shows, full

LEMMA FirstByte ==
    ASSUME NEW P \in Bytes, P # <<>>
    PROVE  /\ Head(P) \in Octets /\ <<Head(P)>> \in Bytes /\ Len(<<Head(P)>>) = 1
           /\ \E more \in Bytes : P = <<Head(P)>> \o more
           /\ \A s \in Bytes : Head(P \o s) = Head(P)
<1>. DEFINE b == Head(P)
            k == <<b>>
            t == SubSeq(P, 2, Len(P))
<1>1. b = P[1] /\ b \in Octets /\ Len(P) \in Nat /\ Len(P) >= 1
    BY HeadIs DEF Bytes
<1>. HIDE DEF b
<1>2. k \in Bytes /\ Len(k) = 1 /\ k[1] = b
    BY <1>1 DEF Bytes
<1>3. SubSeq(P, 1, 1) \in Bytes /\ Len(SubSeq(P, 1, 1)) = 1 /\ t \in Bytes /\ SubSeq(P, 1, 1) \o t = P
    <2>1. 1 \in 0..Len(P) /\ 1 + 1 = 2
        BY <1>1
    <2>. QED
        BY <2>1, Parts
<1>4. SubSeq(P, 1, 1) = k
    <2>. DEFINE a == SubSeq(P, 1, 1)
    <2>1. a[1] = P[1]
        BY <1>1 DEF Bytes
    <2>. HIDE DEF a, k
    <2>2. a \in Bytes /\ Len(a) = 1
        BY <1>3 DEF a
    <2>3. \A i \in 1..1 : a[i] = k[i]
        BY <1>1, <1>2, <2>1
    <2>4. a = [i \in 1..1 |-> a[i]] /\ k = [i \in 1..1 |-> k[i]]
        BY <1>2, <2>2 DEF Bytes
    <2>. QED
        BY <2>3, <2>4 DEF a
<1>5. ASSUME NEW s \in Bytes
      PROVE  Head(P \o s) = b
    <2>. DEFINE v == P \o s
    <2>1. v \in Bytes /\ Len(v) = Len(P) + Len(s) /\ (\A i \in 1..Len(P) : v[i] = P[i]) /\ Len(s) \in Nat
        BY Join DEF Bytes
    <2>. HIDE DEF v
    <2>2. v # <<>> /\ v[1] = P[1]
        BY <1>1, <2>1
    <2>3. Head(v) = v[1]
        BY <2>1, <2>2, HeadIs
    <2>. QED
        BY <1>1, <2>2, <2>3 DEF v
<1>. QED
    BY <1>1, <1>2, <1>3, <1>4, <1>5 DEF b

LEMMA AlongAgain ==
    ASSUME NEW r, NEW a \in Bytes, NEW b \in Bytes, NEW s \in Bytes, NEW c, Along(r, (a \o b) \o s, c)
    PROVE  Along(r, a \o (b \o s), c)
<1>1. (a \o b) \o s = a \o (b \o s)
    BY Rejoin
<1>. QED
    BY <1>1

\* The first byte, before it is known what it begins.
LEMMA ByteShown ==
    ASSUME NEW r, NEW P \in Bytes, P # <<>>, NEW rest \in Bytes, NEW c, Along(r, P \o rest, c),
           NEW e, e = EnsureBytes(r, 1)
    PROVE  /\ Fed(e) /\ SameKind(r, e)
           /\ e.error = "ok" => Along(e, P \o rest, c) /\ Head(e.data) = Head(P) /\ Stream(e) = Stream(r)
           /\ ~c => e.error = "ok"
<1>. DEFINE k == <<Head(P)>>
<1>1. k \in Bytes /\ Len(k) = 1 /\ \E more \in Bytes : P = k \o more
    BY FirstByte
<1>2. PICK more \in Bytes : P = k \o more
    BY <1>1
<1>3. more \o rest \in Bytes
    BY Join
<1>4. k[1] = Head(P)
    OBVIOUS
<1>. HIDE DEF k
<1>5. P \o rest = k \o (more \o rest)
    BY <1>1, <1>2, Rejoin
<1>6. Along(r, k \o (more \o rest), c)
    BY <1>5
<1>7. Shows(r, e, k, more \o rest, c)
    <2>1. Shows(r, EnsureBytes(r, 1), k, more \o rest, c)
        <3>. DEFINE n == 1
        <3>1. n = Len(k) /\ n <= 9
            BY <1>1
        <3>. HIDE DEF n
        <3>2. Shows(r, EnsureBytes(r, n), k, more \o rest, c)
            BY <1>1, <1>3, <1>6, <3>1, EnsureAlong
        <3>. QED
            BY <3>2 DEF n
    <2>. QED
        BY <2>1
<1>8. ASSUME e.error = "ok"
      PROVE  Along(e, P \o rest, c) /\ Head(e.data) = Head(P) /\ Stream(e) = Stream(r)
    <2>1. Along(e, k \o (more \o rest), c) /\ Stream(e) = Stream(r)
        BY <1>7, <1>8 DEF Shows
    <2>2. PICK d \in Bytes : e.data = k \o d
        BY <1>7, <1>8 DEF Shows
    <2>3. k # <<>>
        <3>1. Len(k) = 1 /\ Len(<<>>) = 0
            BY <1>1
        <3>. QED
            BY <3>1
    <2>4. Head(k) = k[1]
        BY <1>1, <2>3, HeadIs
    <2>5. Head(k \o d) = Head(k)
        BY <1>1, <2>3, FirstByte
    <2>. QED
        BY <1>4, <1>5, <2>1, <2>2, <2>4, <2>5
<1>. QED
    BY <1>7, <1>8 DEF Shows

LEMMA EncodedTag ==
    ASSUME NEW tag \in Tags, tag.type # "ext"
    PROVE  /\ Valid(tag) /\ Encode(tag) \in Bytes /\ Encode(tag) # <<>> /\ Len(Encode(tag)) <= 9
           /\ \A rest \in Bytes : Decodes(Encode(tag) \o rest, tag, Len(Encode(tag)))
<1>1. Valid(tag)
    BY DEF Tags
<1>2. Encode(tag) \in Bytes /\ Len(Encode(tag)) \in 1..9
    BY <1>1, EncodedBytes
<1>3. Len(Encode(tag)) # 0 /\ Len(Encode(tag)) <= 9
    <2>. DEFINE n == Len(Encode(tag))
    <2>1. n \in 1..9
        BY <1>2
    <2>. HIDE DEF n
    <2>2. n # 0 /\ n <= 9
        BY <2>1
    <2>. QED
        BY <2>2 DEF n
<1>4. \A rest \in Bytes : Decodes(Encode(tag) \o rest, tag, Len(Encode(tag)))
    BY TagsBack
<1>5. Encode(tag) # <<>>
    <2>1. Len(<<>>) = 0
        OBVIOUS
    <2>. QED
        BY <1>3, <2>1
<1>. QED
    BY <1>1, <1>2, <1>3, <1>4, <1>5

LEMMA ParsedAlong ==
    ASSUME NEW r, NEW tag \in Tags, tag.type # "ext", NEW rest \in Bytes, NEW c, Along(r, Encode(tag) \o rest, c)
    PROVE  Shows(r, Parsed(r), Encode(tag), rest, c)
<1>. DEFINE P == Encode(tag)
            e == EnsureBytes(r, 1)
            h == HeaderSize(Head(e.data))
            x == Parsed(r)
<1>0. SUFFICES Shows(r, x, P, rest, c)
    OBVIOUS
<1>1. P \in Bytes /\ P # <<>> /\ Len(P) <= 9 /\ Decodes(P \o rest, tag, Len(P))
    BY EncodedTag
<1>2. /\ e.error # "ok" => x = e
      /\ e.error = "ok" /\ Head(e.data) # Reserved /\ Head(e.data) \notin Extensions => x = EnsureBytes(e, h)
    BY DEF Parsed, Then
<1>3. /\ Fed(e) /\ SameKind(r, e)
      /\ e.error = "ok" => Along(e, P \o rest, c) /\ Head(e.data) = Head(P) /\ Stream(e) = Stream(r)
      /\ ~c => e.error = "ok"
    <2>. HIDE DEF P
    <2>. QED
        BY <1>1, ByteShown DEF P
<1>. HIDE DEF x, e, P
<1>4. CASE e.error # "ok"
    BY <1>2, <1>3, <1>4 DEF Shows
<1>5. CASE e.error = "ok"
    <2>1. Head(P \o rest) = Head(P)
        BY <1>1, FirstByte
    <2>2. Head(e.data) # Reserved /\ Head(e.data) \notin Extensions /\ h = Len(P)
        BY <1>1, <1>3, <1>5, <2>1 DEF Decodes
    <2>3. x = EnsureBytes(e, h)
        BY <1>2, <1>5, <2>2
    <2>. HIDE DEF h
    <2>4. Shows(e, EnsureBytes(e, h), P, rest, c)
        BY <1>1, <1>3, <1>5, <2>2, EnsureAlong
    <2>. QED
        BY <1>3, <1>5, <2>3, <2>4 DEF Shows, SameKind
<1>. QED
    BY <1>4, <1>5

LEMMA PeekAlong ==
    ASSUME NEW r, NEW tag \in Tags, tag.type # "ext", NEW rest \in Bytes, NEW c, Along(r, Encode(tag) \o rest, c)
    PROVE  /\ Gives(r, PeekTag(r), tag, Encode(tag) \o rest, c)
           /\ Shows(r, PeekTag(r), Encode(tag), rest, c)
<1>. DEFINE P == Encode(tag)
            p == Parsed(r)
            g == IF p.error = "ok" THEN ParseTag(p.data) ELSE Nil
            x == PeekTag(r)
<1>0. SUFFICES Gives(r, x, tag, P \o rest, c) /\ Shows(r, x, P, rest, c)
    OBVIOUS
<1>1. r.error = "ok"
    BY DEF Along
<1>2. x = [p EXCEPT !.got = g]
    BY <1>1 DEF PeekTag, Then, Returning
<1>3. Shows(r, p, P, rest, c)
    BY ParsedAlong
<1>4. P \in Bytes /\ P # <<>> /\ \A s \in Bytes : Decodes(P \o s, tag, Len(P))
    BY EncodedTag
<1>. HIDE DEF x, p, g, P
<1>5. Fed(p) /\ SameKind(r, p) /\ (~c => p.error = "ok")
    BY <1>3 DEF Shows
<1>6. Fed(x) /\ SameKind(p, x) /\ x.error = p.error /\ x.got = g /\ x.data = p.data /\ Stream(x) = Stream(p)
    BY <1>2, <1>5, Regotten
<1>7. SameKind(r, x)
    BY <1>5, <1>6 DEF SameKind
<1>8. ASSUME p.error = "ok"
      PROVE  x.got = tag /\ Along(x, P \o rest, c) /\ Stream(x) = Stream(r) /\ \E more \in Bytes : x.data = P \o more
    <2>1. Along(p, P \o rest, c) /\ Stream(p) = Stream(r) /\ \E more \in Bytes : p.data = P \o more
        BY <1>3, <1>8 DEF Shows
    <2>2. PICK more \in Bytes : p.data = P \o more
        BY <2>1
    <2>3. ParseTag(p.data) = tag
        BY <1>4, <2>2 DEF Decodes
    <2>4. Along(x, P \o rest, c)
        <3>. DEFINE full == P \o rest
        <3>. HIDE DEF full
        <3>1. PICK t : Trailing(p, full, c, t)
            BY <2>1 DEF Along, full
        <3>2. Trailing(x, full, c, t)
            BY <1>6, <3>1 DEF Trailing, SameKind
        <3>3. Along(x, full, c)
            BY <1>6, <1>8, <3>2 DEF Along
        <3>. QED
            BY <3>3 DEF full
    <2>. QED
        BY <1>6, <1>8, <2>1, <2>2, <2>3, <2>4 DEF g
<1>. QED
    BY <1>5, <1>6, <1>7, <1>8 DEF Gives, Shows

LEMMA TagAlong ==
    ASSUME NEW r, NEW tag \in Tags, tag.type # "ext", NEW rest \in Bytes, NEW c, Along(r, Encode(tag) \o rest, c)
    PROVE  /\ Gives(r, ReadTag(r), tag, rest, c)
           /\ ReadTag(r).error = "ok" => Stream(r) = Encode(tag) \o Stream(ReadTag(r))
<1>. DEFINE P == Encode(tag)
            p == PeekTag(r)
            n == HeaderSize(Head(p.data))
            x == ReadTag(r)
<1>0. SUFFICES Gives(r, x, tag, rest, c) /\ (x.error = "ok" => Stream(r) = P \o Stream(x))
    OBVIOUS
<1>1. x = IF p.error = "ok" THEN [p EXCEPT !.data = After(@, n)] ELSE p
    BY DEF ReadTag, Then
<1>2. Gives(r, p, tag, P \o rest, c) /\ Shows(r, p, P, rest, c)
    BY PeekAlong
<1>3. P \in Bytes /\ P # <<>> /\ \A s \in Bytes : Decodes(P \o s, tag, Len(P))
    BY EncodedTag
<1>. HIDE DEF x, p, P
<1>4. Fed(p) /\ SameKind(r, p) /\ (~c => p.error = "ok")
    BY <1>2 DEF Shows
<1>5. CASE p.error # "ok"
    BY <1>1, <1>4, <1>5 DEF Gives
<1>6. CASE p.error = "ok"
    <2>1. p.got = tag /\ Along(p, P \o rest, c) /\ Stream(p) = Stream(r)
        BY <1>2, <1>6 DEF Gives, Shows
    <2>2. PICK more \in Bytes : p.data = P \o more
        BY <1>2, <1>6 DEF Shows
    <2>3. n = Len(P)
        BY <1>3, <2>2 DEF Decodes
    <2>. DEFINE d == After(p.data, n)
                a == SubSeq(p.data, 1, n)
    <2>4. x = [p EXCEPT !.data = d]
        BY <1>1, <1>6
    <2>. HIDE DEF n
    <2>5. p.data \in Bytes /\ p.source \in Bytes /\ Len(p.data) \in Nat
        BY <1>4, StreamBytes
    <2>6. n \in Nat /\ n <= Len(p.data)
        <3>1. Len(p.data) = Len(P) + Len(more) /\ Len(P) \in Nat /\ Len(more) \in Nat
            BY <1>3, <2>2, Join DEF Bytes
        <3>. QED
            BY <2>3, <3>1
    <2>7. a \in Bytes /\ Len(a) = n /\ d \in Bytes /\ Len(d) = Len(p.data) - n /\ a \o d = p.data
        BY <2>5, <2>6, AfterIs
    <2>. HIDE DEF a, d
    <2>8. a = P
        BY <1>3, <2>2, <2>3, <2>7, SplitOnly
    <2>9. p.kind # "data" => Len(d) <= p.size
        <3>1. p.kind # "data" => p.size \in Nat /\ Len(p.data) <= p.size
            BY <1>4 DEF Fed
        <3>. QED
            BY <2>5, <2>6, <2>7, <3>1
    <2>10. Fed(x) /\ SameKind(p, x) /\ x.error = "ok" /\ x.got = p.got /\ x.data = d /\ x.source = p.source
        BY <1>4, <1>6, <2>4, <2>7, <2>9, Redated
    <2>11. Stream(p) = P \o Stream(x) /\ Stream(x) \in Bytes
        <3>1. (P \o d) \o p.source = P \o (d \o p.source)
            <4>. DEFINE a1 == P
                        o == p.source
            <4>1. a1 \in Bytes /\ d \in Bytes /\ o \in Bytes
                BY <1>3, <2>5, <2>7
            <4>. HIDE DEF a1, o
            <4>2. Rejoined(a1, d, o)
                BY <4>1, Rejoins
            <4>3. (a1 \o d) \o o = a1 \o (d \o o)
                BY ONLY <4>2 DEF Rejoined
            <4>. QED
                BY <4>3 DEF a1, o
        <3>2. d \o p.source \in Bytes
            BY <2>5, <2>7, Join
        <3>. QED
            BY <2>7, <2>8, <2>10, <3>1, <3>2 DEF Stream
    <2>13. Along(x, rest, c)
        <3>1. Eats(p, x, Len(P))
            BY <1>3, <2>10, <2>11 DEF Eats
        <3>2. Leaves(p, x, rest, c)
            BY <1>3, <2>1, <3>1, EatsAlong
        <3>. QED
            BY <2>10, <3>2 DEF Leaves
    <2>14. SameKind(r, x)
        BY <1>4, <2>10 DEF SameKind
    <2>. QED
        BY <2>1, <2>10, <2>11, <2>13, <2>14 DEF Gives
<1>. QED
    BY <1>5, <1>6

\* An object that mpack does not know is refused.
LEMMA ForeignAlong ==
    ASSUME NEW r, NEW rest \in Bytes, NEW c, Along(r, Foreign.body \o rest, c)
    PROVE  Refuses(r, PeekTag(r), "unsupported", c) /\ Refuses(r, ReadTag(r), "unsupported", c)
<1>. DEFINE P == Foreign.body
            e == EnsureBytes(r, 1)
            p == Parsed(r)
            x == PeekTag(r)
<1>1. P = <<212, 1, 1>>
    BY DEF Foreign
<1>2. P \in Bytes /\ P # <<>> /\ Head(P) = 212
    BY <1>1 DEF Bytes, Octets
<1>. HIDE DEF P
<1>3. /\ Fed(e) /\ SameKind(r, e)
      /\ e.error = "ok" => Head(e.data) = 212
      /\ ~c => e.error = "ok"
    BY <1>2, ByteShown DEF P
<1>4. p = IF e.error = "ok" THEN
             CASE Head(e.data) = Reserved -> FlagError(e, "invalid")
               [] Head(e.data) \in Extensions -> FlagError(e, "unsupported")
               [] OTHER -> EnsureBytes(e, HeaderSize(Head(e.data)))
          ELSE e
    BY DEF Parsed, Then
<1>. HIDE DEF p, e
<1>5. e.error = "ok" => p = FlagError(e, "unsupported")
    <2>1. e.error = "ok" => Head(e.data) # Reserved /\ Head(e.data) \in Extensions
        BY <1>3 DEF Reserved, Extensions
    <2>. QED
        BY <1>4, <2>1
<1>6. Refuses(r, p, "unsupported", c)
    <2>1. CASE e.error = "ok"
        <3>1. Fed(p) /\ SameKind(e, p) /\ p.error = "unsupported"
            BY <1>3, <1>5, <2>1, FlaggedReader
        <3>. QED
            BY <1>3, <3>1 DEF Refuses, SameKind
    <2>2. CASE e.error # "ok"
        BY <1>3, <1>4, <2>2 DEF Refuses
    <2>. QED
        BY <2>1, <2>2
<1>7. r.error = "ok" /\ p.error # "ok"
    BY <1>6 DEF Along, Refuses
<1>8. x = [p EXCEPT !.got = Nil]
    BY <1>7 DEF PeekTag, Then, Returning, p
<1>9. Fed(x) /\ SameKind(p, x) /\ x.error = p.error
    BY <1>6, <1>8, Regotten DEF Refuses
<1>10. Refuses(r, x, "unsupported", c)
    BY <1>6, <1>9 DEF Refuses, SameKind
<1>11. ReadTag(r) = x
    BY <1>7, <1>9 DEF ReadTag, Then
<1>. QED
    BY <1>10, <1>11

------------------------------------------------------------------------------------
(* Reading by expectation. *)

Answers(r, x, outcome, answer, rest, c) ==
    /\ outcome = "ok" => Gives(r, x, answer, rest, c)
    /\ outcome # "ok" => Refuses(r, x, outcome, c)

Regets(r, x, g) == x = [r EXCEPT !.got = g]

LEMMA AlongRefit ==
    ASSUME NEW r, NEW rest, NEW c, Along(r, rest, c), NEW g, NEW x, Regets(r, x, g)
    PROVE  Along(x, rest, c) /\ Fed(x) /\ SameKind(r, x) /\ x.error = "ok" /\ x.got = g
<1>1. Fed(r) /\ r.error = "ok"
    BY DEF Along
<1>2. Fed(x) /\ SameKind(r, x) /\ x.error = r.error /\ x.got = g /\ Stream(x) = Stream(r)
    BY <1>1, Regotten DEF Regets
<1>3. PICK t : Trailing(r, rest, c, t)
    BY DEF Along
<1>4. Trailing(x, rest, c, t)
    BY <1>2, <1>3 DEF Trailing, SameKind
<1>. QED
    BY <1>1, <1>2, <1>4 DEF Along

\* The next call works on what the last one made of the reader.
LEMMA GoesOn ==
    ASSUME NEW r, NEW y, NEW val, NEW first, NEW c, Gives(r, y, val, first, c), NEW x,
           y.error # "ok" => x = y,
           NEW outcome, NEW answer, NEW rest,
           y.error = "ok" /\ y.got = val /\ Along(y, first, c) => Answers(y, x, outcome, answer, rest, c)
    PROVE  Answers(r, x, outcome, answer, rest, c)
<1>1. Fed(y) /\ SameKind(r, y) /\ (~c => y.error = "ok")
    BY DEF Gives
<1>2. CASE y.error # "ok"
    BY <1>1, <1>2 DEF Answers, Gives, Refuses
<1>3. CASE y.error = "ok"
    <2>1. Answers(y, x, outcome, answer, rest, c)
        BY <1>3 DEF Gives
    <2>2. outcome = "ok" => Gives(r, x, answer, rest, c)
        BY <1>1, <2>1 DEF Answers, Gives, SameKind
    <2>3. outcome # "ok" => Refuses(r, x, outcome, c)
        BY <1>1, <2>1 DEF Answers, Refuses, SameKind
    <2>. QED
        BY <2>2, <2>3 DEF Answers
<1>. QED
    BY <1>2, <1>3

LEMMA StaysRefused ==
    ASSUME NEW r, NEW y, NEW error, NEW c, Refuses(r, y, error, c), error # "ok", NEW x,
           y.error # "ok" => x = y, NEW answer, NEW rest
    PROVE  Answers(r, x, error, answer, rest, c)
BY DEF Refuses, Answers

LEMMA Concludes ==
    ASSUME NEW y, NEW rest, NEW c, Along(y, rest, c), NEW val, y.got = val, NEW x, NEW outcome, NEW answer,
           outcome = "ok" => x = [y EXCEPT !.got = answer] \/ (x = y /\ answer = val),
           outcome # "ok" => x = FlagError(y, outcome)
    PROVE  Answers(y, x, outcome, answer, rest, c)
<1>1. Fed(y) /\ y.error = "ok"
    BY DEF Along
<1>2. SameKind(y, y)
    BY DEF SameKind
<1>3. CASE outcome # "ok"
    <2>1. Fed(x) /\ SameKind(y, x) /\ x.error = outcome
        BY <1>1, <1>3, FlaggedReader
    <2>. QED
        BY <1>3, <2>1 DEF Answers, Refuses
<1>4. CASE outcome = "ok" /\ x = y /\ answer = val
    BY <1>1, <1>2, <1>4 DEF Answers, Gives
<1>5. CASE outcome = "ok" /\ x = [y EXCEPT !.got = answer]
    <2>1. Along(x, rest, c) /\ Fed(x) /\ SameKind(y, x) /\ x.error = "ok" /\ x.got = answer
        <3>1. Regets(y, x, answer)
            BY <1>5 DEF Regets
        <3>. QED
            BY <3>1, AlongRefit
    <2>. QED
        BY <1>5, <2>1 DEF Answers, Gives
<1>. QED
    BY <1>3, <1>4, <1>5

\* A token as the writer's user makes it.
Sensible(t) ==
    /\ t \in Tokens
    /\ t.tag.type = "ext" => t = Foreign
    /\ HasBody(t.tag) => t.tag.value = Len(t.body)
    /\ ~HasBody(t.tag) /\ t.tag.type # "ext" => t.body = <<>>

LEMMA TokenTag ==
    ASSUME NEW t, Sensible(t)
    PROVE  /\ t.tag \in Tags /\ t.body \in Bytes /\ t.tag.value \in Int /\ t.tag.type \in Kinds
           /\ t.tag = Tag(t.tag.type, t.tag.value)
           /\ t.tag.type # "ext" => Spelled(t) = Encode(t.tag) \o t.body /\ Encode(t.tag) \in Bytes
                                    /\ Encode(t.tag) # <<>>
           /\ t.tag.type = "ext" => Spelled(t) = Foreign.body /\ t.tag = Tag("ext", 0)
           /\ Spelled(t) \in Bytes
<1>1. t.tag \in Tags /\ t.body \in Bytes
    BY DEF Sensible, Tokens
<1>2. t.tag.value \in Int /\ t.tag.type \in Kinds /\ t.tag = Tag(t.tag.type, t.tag.value)
    BY <1>1 DEF Tags, Tag
<1>3. t.tag.type # "ext" => Spelled(t) = Encode(t.tag) \o t.body /\ Encode(t.tag) \in Bytes /\ Encode(t.tag) # <<>>
    BY <1>1, EncodedTag DEF Spelled
<1>4. t.tag.type = "ext" => Spelled(t) = Foreign.body /\ t.tag = Tag("ext", 0)
    <2>1. Foreign.body \in Bytes
        BY DEF Foreign, Bytes, Octets
    <2>2. <<>> \o Foreign.body = Foreign.body
        BY <2>1, Join
    <2>. QED
        BY <2>2 DEF Spelled, Sensible, Foreign
<1>5. Spelled(t) \in Bytes
    BY SpelledBytes DEF Sensible
<1>. QED
    BY <1>1, <1>2, <1>3, <1>4, <1>5

LEMMA TokenRead ==
    ASSUME NEW r, NEW t, Sensible(t), NEW rest \in Bytes, NEW c, Along(r, Spelled(t) \o rest, c)
    PROVE  /\ t.tag.type # "ext" => Gives(r, ReadTag(r), t.tag, t.body \o rest, c)
                                    /\ Gives(r, PeekTag(r), t.tag, Spelled(t) \o rest, c)
           /\ t.tag.type = "ext" => Refuses(r, ReadTag(r), "unsupported", c)
                                    /\ Refuses(r, PeekTag(r), "unsupported", c)
           /\ t.body \o rest \in Bytes
<1>. DEFINE tag == t.tag
            body == t.body
            P == Encode(tag)
            S == Spelled(t)
<1>1. tag \in Tags /\ body \in Bytes /\ body \o rest \in Bytes
    BY TokenTag, Join
<1>2. ASSUME tag.type = "ext"
      PROVE  Refuses(r, ReadTag(r), "unsupported", c) /\ Refuses(r, PeekTag(r), "unsupported", c)
    <2>1. S = Foreign.body
        BY <1>2, TokenTag
    <2>. QED
        BY <2>1, ForeignAlong
<1>3. ASSUME tag.type # "ext"
      PROVE  Gives(r, ReadTag(r), tag, body \o rest, c) /\ Gives(r, PeekTag(r), tag, S \o rest, c)
    <2>1. S = P \o body /\ P \in Bytes
        BY <1>3, TokenTag
    <2>. HIDE DEF tag, body, P
    <2>2. S \o rest = P \o (body \o rest)
        <3>1. Rejoined(P, body, rest)
            BY <1>1, <2>1, Rejoins
        <3>2. (P \o body) \o rest = P \o (body \o rest)
            BY ONLY <3>1 DEF Rejoined
        <3>. QED
            BY <2>1, <3>2
    <2>3. Along(r, P \o (body \o rest), c)
        BY <2>2
    <2>. DEFINE u == body \o rest
    <2>4. u \in Bytes /\ Along(r, P \o u, c)
        BY <1>1, <2>3
    <2>. HIDE DEF u
    <2>5. Gives(r, ReadTag(r), tag, u, c)
        BY <1>1, <1>3, <2>4, TagAlong DEF P
    <2>6. Gives(r, PeekTag(r), tag, P \o u, c)
        BY <1>1, <1>3, <2>4, PeekAlong DEF P
    <2>. QED
        BY <2>2, <2>5, <2>6 DEF u
<1>. QED
    BY <1>1, <1>2, <1>3

\* What becomes of a tag that has been read: it is taken, or refused.
LEMMA TagTaken ==
    ASSUME NEW r, NEW t, Sensible(t), NEW rest \in Bytes, NEW c, Along(r, Spelled(t) \o rest, c),
           NEW y, y = ReadTag(r), NEW x, NEW outcome, NEW answer, y.error # "ok" => x = y,
           y.error = "ok" /\ y.got = t.tag /\ outcome = "ok"
               => x = [y EXCEPT !.got = answer] \/ (x = y /\ answer = t.tag),
           y.error = "ok" /\ y.got = t.tag /\ outcome # "ok" => x = FlagError(y, outcome),
           t.tag.type = "ext" => outcome = "unsupported"
    PROVE  Answers(r, x, outcome, answer, t.body \o rest, c)
<1>. DEFINE u == t.body \o rest
<1>1. CASE t.tag.type = "ext"
    <2>1. Refuses(r, y, "unsupported", c)
        BY <1>1, TokenRead
    <2>. QED
        BY <1>1, <2>1, StaysRefused
<1>2. CASE t.tag.type # "ext"
    <2>1. Gives(r, y, t.tag, u, c)
        BY <1>2, TokenRead
    <2>. HIDE DEF u
    <2>2. ASSUME y.error = "ok" /\ y.got = t.tag /\ Along(y, u, c)
          PROVE  Answers(y, x, outcome, answer, u, c)
        BY <2>2, Concludes
    <2>. QED
        BY <2>1, <2>2, GoesOn DEF u
<1>. QED
    BY <1>1, <1>2

LEMMA FlaggedWrong ==
    ASSUME NEW y, Fed(y), y.error = "ok"
    PROVE  Wrong(y) = FlagError(y, "type") /\ Wrong(y).error = "type"
BY FlaggedReader DEF Wrong

LEMMA TagKept ==
    ASSUME NEW r, NEW t, Sensible(t), NEW rest \in Bytes, NEW c, Along(r, Spelled(t) \o rest, c)
    PROVE  Fed(ReadTag(r)) /\ (t.tag.type = "ext" => ReadTag(r).error # "ok")
           /\ (ReadTag(r).error = "ok" => ReadTag(r).got = t.tag)
<1>1. t.tag.type # "ext" => Gives(r, ReadTag(r), t.tag, t.body \o rest, c)
    BY TokenRead
<1>2. t.tag.type = "ext" => Refuses(r, ReadTag(r), "unsupported", c)
    BY TokenRead
<1>. QED
    BY <1>1, <1>2 DEF Gives, Refuses

LEMMA IntExpected ==
    ASSUME NEW r, NEW t, Sensible(t), NEW rest \in Bytes, NEW c, Along(r, Spelled(t) \o rest, c),
           NEW type, Lowest(type) \in Int, Highest(type) \in Int
    PROVE  LET fits == IsNumber(t.tag) /\ t.tag.value >= Lowest(type) /\ t.tag.value <= Highest(type)
           IN  Answers(r, ExpectInt(r, type), IF fits THEN "ok" ELSE IF t.tag.type = "ext" THEN "unsupported" ELSE "type",
                       t.tag.value, t.body \o rest, c)
<1>. DEFINE n == t.tag.value
            fits == IsNumber(t.tag) /\ n >= Lowest(type) /\ n <= Highest(type)
            outcome == IF fits THEN "ok" ELSE IF t.tag.type = "ext" THEN "unsupported" ELSE "type"
            Fit(tag) == IsNumber(tag) /\ tag.value \in Lowest(type)..Highest(type)
            y == ReadTag(r)
            z == IF y.error = "ok" THEN IF Fit(y.got) THEN y ELSE Wrong(y) ELSE y
            x == ExpectInt(r, type)
<1>0. SUFFICES Answers(r, x, outcome, n, t.body \o rest, c)
    OBVIOUS
<1>1. x = IF z.error = "ok" THEN [z EXCEPT !.got = z.got.value] ELSE z
    BY DEF ExpectInt, Convert, Require, Then, Returning, ValueOf
<1>2. Fed(y) /\ (y.error = "ok" => y.got = t.tag)
    BY TagKept
<1>. HIDE DEF x, y
<1>3. n \in Int
    BY TokenTag
<1>4. Fit(t.tag) <=> fits
    BY <1>3
<1>5. t.tag.type = "ext" => outcome = "unsupported"
    BY DEF IsNumber
<1>. HIDE DEF Fit, fits
<1>6. y.error # "ok" => x = y
    BY <1>1
<1>7. y.error = "ok" /\ fits => x = [y EXCEPT !.got = n]
    BY <1>1, <1>2, <1>4
<1>8. y.error = "ok" /\ ~fits => x = FlagError(y, "type")
    <2>1. y.error = "ok" => Wrong(y) = FlagError(y, "type") /\ Wrong(y).error # "ok"
        BY <1>2, FlaggedWrong
    <2>. QED
        BY <1>1, <1>2, <1>4, <2>1
<1>9. outcome = "ok" <=> fits
    OBVIOUS
<1>10. y.error = "ok" => t.tag.type # "ext"
    BY TagKept DEF y
<1>11. y.error = "ok" /\ ~fits => outcome = "type"
    BY <1>10
<1>. HIDE DEF outcome, n
<1>. QED
    BY <1>5, <1>6, <1>7, <1>8, <1>9, <1>11, TagTaken DEF y

LEMMA ThenAnswers ==
    ASSUME NEW r, NEW y, NEW before, NEW val, NEW first, NEW c, Answers(r, y, before, val, first, c), NEW x,
           y.error # "ok" => x = y, NEW outcome, NEW answer, NEW rest, before # "ok" => outcome = before,
           before = "ok" /\ y.error = "ok" /\ y.got = val /\ Along(y, first, c)
               => Answers(y, x, outcome, answer, rest, c)
    PROVE  Answers(r, x, outcome, answer, rest, c)
<1>1. CASE before = "ok"
    <2>1. Gives(r, y, val, first, c)
        BY <1>1 DEF Answers
    <2>. QED
        BY <1>1, <2>1, GoesOn
<1>2. CASE before # "ok"
    <2>1. Refuses(r, y, before, c)
        BY <1>2 DEF Answers
    <2>. QED
        BY <1>2, <2>1, StaysRefused
<1>. QED
    BY <1>1, <1>2

\* What is in the bounds of a type, and the tag of a number.
LEMMA TypeBounds ==
    ASSUME NEW type \in [width : {1, 2, 4, 8}, signed : BOOLEAN]
    PROVE  Lowest(type) \in Int /\ Highest(type) \in Int /\ Lowest(type) <= 0 /\ Highest(type) >= 1
<1>. DEFINE w == type.width
            h == Weight[w] \div 2
<1>1. w \in 1..8
    OBVIOUS
<1>2. h \in Nat /\ Weight[w] = 2 * h
    BY <1>1, WeightEven
<1>3. h >= 2
    <2>. DEFINE v == Weight[w - 1]
    <2>1. Weight[w] = Base * v /\ v \in Nat /\ v > 0
        BY <1>1, WeightStep
    <2>. HIDE DEF v
    <2>2. Base * v >= 4
        <3>1. Base * v = Base * (v - 1) + Base /\ Base * (v - 1) \in Nat
            BY <2>1, BaseIs
        <3>. QED
            BY <3>1, BaseIs
    <2>. HIDE DEF h
    <2>. QED
        BY <1>2, <2>1, <2>2
<1>4. Lowest(type) = IF type.signed THEN -h ELSE 0
    BY DEF Lowest
<1>5. Highest(type) = IF type.signed THEN h - 1 ELSE Weight[w] - 1
    BY DEF Highest
<1>. HIDE DEF h, w
<1>. QED
    BY <1>2, <1>3, <1>4, <1>5

LEMMA RangeExpected ==
    ASSUME NEW r, NEW t, Sensible(t), NEW rest \in Bytes, NEW c, Along(r, Spelled(t) \o rest, c),
           NEW type, Lowest(type) \in Int, Highest(type) \in Int, NEW min \in Int, NEW max \in Int,
           Lowest(type) <= min, max <= Highest(type)
    PROVE  LET fits == IsNumber(t.tag) /\ t.tag.value \in min..max
           IN  Answers(r, ExpectIntRange(r, type, min, max),
                       IF fits THEN "ok" ELSE IF t.tag.type = "ext" THEN "unsupported" ELSE "type",
                       t.tag.value, t.body \o rest, c)
<1>. DEFINE n == t.tag.value
            fits == IsNumber(t.tag) /\ n \in min..max
            typed == IsNumber(t.tag) /\ n >= Lowest(type) /\ n <= Highest(type)
            outcome == IF fits THEN "ok" ELSE IF t.tag.type = "ext" THEN "unsupported" ELSE "type"
            before == IF typed THEN "ok" ELSE IF t.tag.type = "ext" THEN "unsupported" ELSE "type"
            y == ExpectInt(r, type)
            x == ExpectIntRange(r, type, min, max)
            u == t.body \o rest
<1>0. SUFFICES Answers(r, x, outcome, n, u, c)
    OBVIOUS
<1>1. x = IF y.error = "ok" THEN IF y.got \in min..max THEN y ELSE Wrong(y) ELSE y
    BY DEF ExpectIntRange, Require, Then
<1>2. Answers(r, y, before, n, u, c)
    BY IntExpected
<1>3. n \in Int
    BY TokenTag
<1>4. before # "ok" => outcome = before
    BY <1>3
<1>. HIDE DEF x, y, u
<1>5. ASSUME before = "ok", y.error = "ok", y.got = n, Along(y, u, c)
      PROVE  Answers(y, x, outcome, n, u, c)
    <2>1. t.tag.type # "ext"
        BY <1>5 DEF IsNumber
    <2>2. outcome = IF n \in min..max THEN "ok" ELSE "type"
        BY <1>5, <2>1
    <2>. HIDE DEF outcome, n
    <2>3. x = IF n \in min..max THEN y ELSE FlagError(y, "type")
        BY <1>1, <1>5 DEF Wrong
    <2>. QED
        BY <1>5, <2>2, <2>3, Concludes
<1>. HIDE DEF before, outcome, n
<1>. QED
    BY <1>1, <1>2, <1>4, <1>5, ThenAnswers

\* A tag that is taken as it is, or not.
LEMMA TagRequired ==
    ASSUME NEW r, NEW t, Sensible(t), NEW rest \in Bytes, NEW c, Along(r, Spelled(t) \o rest, c),
           NEW y, y = ReadTag(r), NEW x, NEW outcome, y.error # "ok" => x = y,
           y.error = "ok" /\ y.got = t.tag /\ outcome = "ok" => x = y,
           y.error = "ok" /\ y.got = t.tag /\ outcome # "ok" => x = FlagError(y, outcome),
           t.tag.type = "ext" => outcome = "unsupported"
    PROVE  Answers(r, x, outcome, t.tag, t.body \o rest, c)
BY TagTaken

LEMMA ThisTagExpected ==
    ASSUME NEW r, NEW t, Sensible(t), NEW rest \in Bytes, NEW c, Along(r, Spelled(t) \o rest, c), NEW tag,
           tag.type # "ext"
    PROVE  Answers(r, ExpectTag(r, tag),
                   IF t.tag = tag THEN "ok" ELSE IF t.tag.type = "ext" THEN "unsupported" ELSE "type",
                   t.tag, t.body \o rest, c)
<1>. DEFINE outcome == IF t.tag = tag THEN "ok" ELSE IF t.tag.type = "ext" THEN "unsupported" ELSE "type"
            y == ReadTag(r)
            x == ExpectTag(r, tag)
<1>1. x = IF y.error = "ok" THEN IF y.got = tag THEN y ELSE FlagError(y, "type") ELSE y
    BY DEF ExpectTag, Require, Then, Wrong
<1>2. y.error = "ok" => t.tag.type # "ext"
    BY TagKept
<1>. HIDE DEF x, y
<1>3. /\ y.error # "ok" => x = y
      /\ y.error = "ok" /\ y.got = t.tag /\ outcome = "ok" => x = y
      /\ y.error = "ok" /\ y.got = t.tag /\ outcome # "ok" => x = FlagError(y, outcome)
      /\ t.tag.type = "ext" => outcome = "unsupported"
    BY <1>1, <1>2
<1>. HIDE DEF outcome
<1>4. Answers(r, x, outcome, t.tag, t.body \o rest, c)
    BY <1>3, TagRequired DEF y
<1>. QED
    BY <1>4 DEF x, outcome

LEMMA FloatExpected ==
    ASSUME NEW r, NEW t, Sensible(t), NEW rest \in Bytes, NEW c, Along(r, Spelled(t) \o rest, c)
    PROVE  Answers(r, ExpectFloat(r),
                   IF IsNumber(t.tag) \/ t.tag.type \in {"float", "double"} THEN "ok"
                   ELSE IF t.tag.type = "ext" THEN "unsupported" ELSE "type", ToFloat(t.tag), t.body \o rest, c)
<1>. DEFINE Wide(tag) == IsNumber(tag) \/ tag.type \in {"float", "double"}
            outcome == IF Wide(t.tag) THEN "ok" ELSE IF t.tag.type = "ext" THEN "unsupported" ELSE "type"
            answer == ToFloat(t.tag)
            y == ReadTag(r)
            z == IF y.error = "ok" THEN IF Wide(y.got) THEN y ELSE Wrong(y) ELSE y
            x == ExpectFloat(r)
<1>1. x = IF z.error = "ok" THEN [z EXCEPT !.got = ToFloat(z.got)] ELSE z
    BY DEF ExpectFloat, Convert, Require, Then, Returning
<1>2. Fed(y) /\ (y.error = "ok" => y.got = t.tag /\ t.tag.type # "ext")
    BY TagKept
<1>3. y.error = "ok" => Wrong(y) = FlagError(y, "type") /\ Wrong(y).error # "ok"
    BY <1>2, FlaggedWrong
<1>. HIDE DEF x, y
<1>4. t.tag.type = "ext" => outcome = "unsupported"
    BY DEF IsNumber
<1>5. /\ y.error # "ok" => x = y
      /\ y.error = "ok" /\ y.got = t.tag /\ outcome = "ok" => x = [y EXCEPT !.got = answer]
      /\ y.error = "ok" /\ y.got = t.tag /\ outcome # "ok" => x = FlagError(y, outcome)
    <2>. HIDE DEF Wide
    <2>. QED
        BY <1>1, <1>2, <1>3
<1>. HIDE DEF outcome, answer
<1>6. Answers(r, x, outcome, answer, t.body \o rest, c)
    BY <1>4, <1>5, TagTaken DEF y
<1>. QED
    BY <1>6 DEF x, outcome, answer

LEMMA StrictFloatExpected ==
    ASSUME NEW r, NEW t, Sensible(t), NEW rest \in Bytes, NEW c, Along(r, Spelled(t) \o rest, c)
    PROVE  Answers(r, ExpectFloatStrict(r, {"float"}),
                   IF t.tag.type = "float" THEN "ok"
                   ELSE IF t.tag.type = "ext" THEN "unsupported" ELSE "type", t.tag, t.body \o rest, c)
<1>. DEFINE outcome == IF t.tag.type = "float" THEN "ok" ELSE IF t.tag.type = "ext" THEN "unsupported" ELSE "type"
            y == ReadTag(r)
            z == ExpectFloatStrict(r, {"float"})
<1>1. z = IF y.error = "ok" THEN IF y.got.type \in {"float"} THEN y ELSE FlagError(y, "type") ELSE y
    BY DEF ExpectFloatStrict, Require, Then, Wrong
<1>2. y.error = "ok" => t.tag.type # "ext"
    BY TagKept
<1>. HIDE DEF y, z
<1>3. t.tag.type = "ext" => outcome = "unsupported"
    OBVIOUS
<1>4. /\ y.error # "ok" => z = y
      /\ y.error = "ok" /\ y.got = t.tag /\ outcome = "ok" => z = y
      /\ y.error = "ok" /\ y.got = t.tag /\ outcome # "ok" => z = FlagError(y, outcome)
    BY <1>1, <1>2
<1>. HIDE DEF outcome
<1>5. Answers(r, z, outcome, t.tag, t.body \o rest, c)
    BY <1>3, <1>4, TagRequired DEF y
<1>. QED
    BY <1>5 DEF z, outcome

\* A count, of a type or of none.
LEMMA CompoundExpected ==
    ASSUME NEW r, NEW t, Sensible(t), NEW rest \in Bytes, NEW c, Along(r, Spelled(t) \o rest, c),
           NEW type, type # "ext", NEW max \in Int
    PROVE  Answers(r, ExpectCompoundOrNil(r, type, max),
                   IF t.tag.type = "nil" \/ (t.tag.type = type /\ t.tag.value <= max) THEN "ok"
                   ELSE IF t.tag.type = "ext" THEN "unsupported" ELSE "type", t.tag.value, t.body \o rest, c)
<1>. DEFINE n == t.tag.value
            Countable(tag) == tag.type = "nil" \/ (tag.type = type /\ tag.value <= max)
            outcome == IF Countable(t.tag) THEN "ok" ELSE IF t.tag.type = "ext" THEN "unsupported" ELSE "type"
            y == ReadTag(r)
            z == IF y.error = "ok" THEN IF Countable(y.got) THEN y ELSE Wrong(y) ELSE y
            x == ExpectCompoundOrNil(r, type, max)
<1>1. x = IF z.error = "ok" THEN [z EXCEPT !.got = z.got.value] ELSE z
    BY DEF ExpectCompoundOrNil, Convert, Require, Then, Returning, ValueOf
<1>2. Fed(y) /\ (y.error = "ok" => y.got = t.tag /\ t.tag.type # "ext")
    BY TagKept
<1>3. y.error = "ok" => Wrong(y) = FlagError(y, "type") /\ Wrong(y).error # "ok"
    BY <1>2, FlaggedWrong
<1>. HIDE DEF x, y
<1>4. t.tag.type = "ext" => outcome = "unsupported"
    OBVIOUS
<1>5. /\ y.error # "ok" => x = y
      /\ y.error = "ok" /\ y.got = t.tag /\ outcome = "ok" => x = [y EXCEPT !.got = n]
      /\ y.error = "ok" /\ y.got = t.tag /\ outcome # "ok" => x = FlagError(y, outcome)
    <2>. HIDE DEF Countable
    <2>. QED
        BY <1>1, <1>2, <1>3
<1>. HIDE DEF outcome, n
<1>6. Answers(r, x, outcome, n, t.body \o rest, c)
    BY <1>4, <1>5, TagTaken DEF y
<1>. QED
    BY <1>6 DEF x, outcome, n

LEMMA CountExpected ==
    ASSUME NEW r, NEW t, Sensible(t), NEW rest \in Bytes, NEW c, Along(r, Spelled(t) \o rest, c),
           NEW type, type # "ext"
    PROVE  Answers(r, ExpectCompound(r, type),
                   IF t.tag.type = type THEN "ok"
                   ELSE IF t.tag.type = "ext" THEN "unsupported" ELSE "type", t.tag.value, t.body \o rest, c)
<1>. DEFINE n == t.tag.value
            outcome == IF t.tag.type = type THEN "ok" ELSE IF t.tag.type = "ext" THEN "unsupported" ELSE "type"
            y == ReadTag(r)
            z == IF y.error = "ok" THEN IF y.got.type = type THEN y ELSE Wrong(y) ELSE y
            x == ExpectCompound(r, type)
<1>1. x = IF z.error = "ok" THEN [z EXCEPT !.got = z.got.value] ELSE z
    BY DEF ExpectCompound, Convert, Require, Then, Returning, ValueOf
<1>2. Fed(y) /\ (y.error = "ok" => y.got = t.tag /\ t.tag.type # "ext")
    BY TagKept
<1>3. y.error = "ok" => Wrong(y) = FlagError(y, "type") /\ Wrong(y).error # "ok"
    BY <1>2, FlaggedWrong
<1>. HIDE DEF x, y
<1>4. t.tag.type = "ext" => outcome = "unsupported"
    OBVIOUS
<1>5. /\ y.error # "ok" => x = y
      /\ y.error = "ok" /\ y.got = t.tag /\ outcome = "ok" => x = [y EXCEPT !.got = n]
      /\ y.error = "ok" /\ y.got = t.tag /\ outcome # "ok" => x = FlagError(y, outcome)
    BY <1>1, <1>2, <1>3
<1>. HIDE DEF outcome, n
<1>6. Answers(r, x, outcome, n, t.body \o rest, c)
    BY <1>4, <1>5, TagTaken DEF y
<1>. QED
    BY <1>6 DEF x, outcome, n

LEMMA CountRangeExpected ==
    ASSUME NEW r, NEW t, Sensible(t), NEW rest \in Bytes, NEW c, Along(r, Spelled(t) \o rest, c),
           NEW type, type # "ext", NEW min \in Int, NEW max \in Int
    PROVE  Answers(r, ExpectCompoundRange(r, type, min, max),
                   IF t.tag.type = type /\ t.tag.value \in min..max THEN "ok"
                   ELSE IF t.tag.type = "ext" THEN "unsupported" ELSE "type", t.tag.value, t.body \o rest, c)
<1>. DEFINE n == t.tag.value
            outcome == IF t.tag.type = type /\ n \in min..max THEN "ok"
                       ELSE IF t.tag.type = "ext" THEN "unsupported" ELSE "type"
            before == IF t.tag.type = type THEN "ok" ELSE IF t.tag.type = "ext" THEN "unsupported" ELSE "type"
            y == ExpectCompound(r, type)
            x == ExpectCompoundRange(r, type, min, max)
            u == t.body \o rest
<1>1. x = IF y.error = "ok" THEN IF y.got \in min..max THEN y ELSE FlagError(y, "type") ELSE y
    BY DEF ExpectCompoundRange, Require, Then, Wrong
<1>2. Answers(r, y, before, n, u, c)
    BY CountExpected
<1>3. before # "ok" => outcome = before
    OBVIOUS
<1>. HIDE DEF x, y, u
<1>4. ASSUME before = "ok", y.error = "ok", y.got = n, Along(y, u, c)
      PROVE  Answers(y, x, outcome, n, u, c)
    <2>1. outcome = IF n \in min..max THEN "ok" ELSE "type"
        BY <1>4
    <2>. HIDE DEF outcome, n
    <2>2. x = IF n \in min..max THEN y ELSE FlagError(y, "type")
        BY <1>1, <1>4
    <2>. QED
        BY <1>4, <2>1, <2>2, Concludes
<1>. HIDE DEF before, outcome, n
<1>5. Answers(r, x, outcome, n, u, c)
    BY <1>1, <1>2, <1>3, <1>4, ThenAnswers
<1>. QED
    BY <1>5 DEF x, outcome, n, u

LEMMA ArrayExpected ==
    ASSUME NEW r, NEW t, Sensible(t), NEW rest \in Bytes, NEW c, Along(r, Spelled(t) \o rest, c),
           NEW max \in Nat, NEW orNil \in BOOLEAN, NEW canAllocate \in BOOLEAN
    PROVE  LET none == orNil /\ t.tag.type = "nil"
               array == t.tag.type = "array" /\ t.tag.value <= max
               outcome == IF array /\ t.tag.value > 0 /\ ~canAllocate THEN "memory"
                          ELSE IF none \/ array THEN "ok"
                          ELSE IF t.tag.type = "ext" THEN "unsupported" ELSE "type"
           IN  Answers(r, ExpectArrayAlloc(r, max, orNil, canAllocate), outcome, t.tag.value, t.body \o rest, c)
<1>. DEFINE n == t.tag.value
            none == orNil /\ t.tag.type = "nil"
            array == t.tag.type = "array" /\ n <= max
            before == IF none \/ array THEN "ok" ELSE IF t.tag.type = "ext" THEN "unsupported" ELSE "type"
            outcome == IF array /\ n > 0 /\ ~canAllocate THEN "memory" ELSE before
            y == IF orNil THEN ExpectCompoundOrNil(r, "array", max) ELSE ExpectCompoundRange(r, "array", 0, max)
            x == ExpectArrayAlloc(r, max, orNil, canAllocate)
            u == t.body \o rest
<1>1. x = IF y.error = "ok" THEN IF y.got > 0 /\ ~canAllocate THEN FlagError(y, "memory") ELSE y ELSE y
    BY DEF ExpectArrayAlloc, Then
<1>2. t.tag.type = "array" => n \in Nat
    BY TokenTag DEF Tags, Valid
<1>2a. t.tag.type = "nil" => n = 0
    BY TokenTag DEF Tags, Valid
<1>3. Answers(r, y, before, n, u, c)
    <2>1. CASE orNil
        <3>1. Answers(r, ExpectCompoundOrNil(r, "array", max), before, n, u, c)
            BY <2>1, CompoundExpected
        <3>. QED
            BY <2>1, <3>1
    <2>2. CASE ~orNil
        <3>1. before = IF t.tag.type = "array" /\ n \in 0..max THEN "ok"
                       ELSE IF t.tag.type = "ext" THEN "unsupported" ELSE "type"
            BY <1>2, <2>2
        <3>2. Answers(r, ExpectCompoundRange(r, "array", 0, max), before, n, u, c)
            BY <3>1, CountRangeExpected
        <3>. QED
            BY <2>2, <3>2
    <2>. QED
        BY <2>1, <2>2
<1>4. before # "ok" => outcome = before
    OBVIOUS
<1>. HIDE DEF x, y, u
<1>5. ASSUME before = "ok", y.error = "ok", y.got = n, Along(y, u, c)
      PROVE  Answers(y, x, outcome, n, u, c)
    <2>1. outcome = IF n > 0 /\ ~canAllocate THEN "memory" ELSE "ok"
        BY <1>2, <1>2a, <1>5
    <2>. HIDE DEF outcome, n
    <2>2. x = IF n > 0 /\ ~canAllocate THEN FlagError(y, "memory") ELSE y
        BY <1>1, <1>5
    <2>. QED
        BY <1>5, <2>1, <2>2, Concludes
<1>. HIDE DEF before
<1>. HIDE DEF outcome, n
<1>6. Answers(r, x, outcome, n, u, c)
    BY <1>1, <1>3, <1>4, <1>5, ThenAnswers
<1>. QED
    BY <1>6 DEF x, outcome, n, u, before

\* What the first byte of a token tells of its tag.
Tells(t, b) ==
    /\ t.tag.type = "nil" <=> b = 192
    /\ t.tag.type = "bool" <=> b \in Bools
    /\ t.tag.type = "str" <=> b \in FixStrs \/ StrWidth(b) > 0
    /\ t.tag.type \in {"nil", "bool"} => Spelled(t) = <<b>>
    /\ t.tag.type = "bool" => t.tag.value = IF b = 195 THEN 1 ELSE 0
    /\ b \in FixStrs => Encode(t.tag) = <<b>> /\ t.tag.value = b - 160
    /\ b \notin FixStrs /\ StrWidth(b) > 0 =>
           LET s == Store(t.tag.value, StrWidth(b))
           IN  /\ Encode(t.tag) = <<b>> \o s /\ s \in Bytes /\ Len(s) = StrWidth(b) /\ Len(s) <= 4
               /\ Load(s) = t.tag.value

LEMMA HeadTells ==
    ASSUME NEW t, Sensible(t)
    PROVE  Tells(t, Head(Spelled(t))) /\ Spelled(t) # <<>> /\ Spelled(t) \in Bytes /\ StrWidth(Head(Spelled(t))) \in 0..4
<1>. DEFINE tag == t.tag
            b == Head(Spelled(t))
            P == Encode(tag)
<1>0. SUFFICES Tells(t, b) /\ Spelled(t) # <<>> /\ Spelled(t) \in Bytes /\ StrWidth(b) \in 0..4
    OBVIOUS
<1>w. \A k : StrWidth(k) = IF k = 217 THEN 1 ELSE IF k = 218 THEN 2 ELSE IF k = 219 THEN 4 ELSE 0
    BY DEF StrWidth
<1>1. CASE tag.type = "ext"
    <2>1. Spelled(t) = <<212, 1, 1>>
        BY <1>1, TokenTag DEF Foreign
    <2>2. b = 212 /\ Spelled(t) # <<>>
        BY <2>1
    <2>. HIDE DEF b
    <2>3. StrWidth(b) = 0
        BY <1>w, <2>2
    <2>4. b \notin FixStrs /\ b \notin Bools /\ b # 192
        BY <2>2 DEF Bools, FixStrs
    <2>5. Spelled(t) \in Bytes
        BY TokenTag
    <2>6. Tells(t, b)
        BY <1>1, <2>3, <2>4 DEF Tells
    <2>. QED
        BY <2>2, <2>3, <2>5, <2>6
<1>2. CASE tag.type # "ext"
    <2>1. P \in Bytes /\ P # <<>> /\ Spelled(t) = P \o t.body /\ t.body \in Bytes /\ Spelled(t) \in Bytes
        BY <1>2, TokenTag
    <2>2. b = Head(P)
        <3>. DEFINE p == P
                    y == t.body
        <3>1. p \in Bytes /\ p # <<>> /\ y \in Bytes
            BY <2>1
        <3>. HIDE DEF p, y
        <3>2. Head(p \o y) = Head(p)
            BY ONLY <3>1, FirstByte
        <3>. QED
            BY <2>1, <3>2 DEF p, y
    <2>3. Spelled(t) # <<>>
        <3>1. Len(P) >= 1
            BY <2>1, HeadIs
        <3>2. Len(P \o t.body) = Len(P) + Len(t.body) /\ Len(t.body) \in Nat /\ Len(P) \in Nat
            BY <2>1, Join DEF Bytes
        <3>. HIDE DEF P
        <3>3. Len(Spelled(t)) >= 1
            BY <2>1, <3>1, <3>2
        <3>4. Len(<<>>) = 0
            OBVIOUS
        <3>. QED
            BY <3>3, <3>4
    <2>4. tag.type \in {"nil", "bool"} => t.body = <<>>
        BY DEF Sensible, HasBody
    <2>5. tag.type \in {"nil", "bool"} => Spelled(t) = P
        BY <2>1, <2>4, Join
    <2>6. CASE \E k \in Octets : P = <<k>> /\ Alone(tag, k)
        <3>1. P = <<b>> /\ Alone(tag, b)
            BY <2>2, <2>6
        <3>. HIDE DEF b, P
        <3>2. tag.value \in Int
            BY TokenTag
        <3>3. b \in Int
            BY <3>1, <3>2 DEF Alone
        <3>4. StrWidth(b) = 0
            BY <1>w, <3>1, <3>2 DEF Alone
        <3>5. Tells(t, b)
            <4>1. /\ tag.type = "nil" <=> b = 192
                  /\ tag.type = "bool" <=> b \in Bools
                  /\ tag.type = "str" <=> b \in FixStrs
                <5>. DEFINE type == tag.type
                            val == tag.value
                <5>1. \/ type = "nil" /\ b = 192
                      \/ type = "bool" /\ val \in {0, 1} /\ b = 194 + val
                      \/ type = "uint" /\ val \in 0..127 /\ b = val
                      \/ type = "int" /\ val \in -32..-1 /\ b = 256 + val
                      \/ type = "map" /\ val \in 0..15 /\ b = 128 + val
                      \/ type = "array" /\ val \in 0..15 /\ b = 144 + val
                      \/ type = "str" /\ val \in 0..31 /\ b = 160 + val
                    BY <3>1 DEF Alone
                <5>. HIDE DEF type, val
                <5>2. type = "nil" <=> b = 192
                    BY ONLY <5>1
                <5>3. type = "bool" <=> b \in Bools
                    BY ONLY <5>1 DEF Bools
                <5>4. type = "str" <=> b \in FixStrs
                    BY ONLY <5>1 DEF FixStrs
                <5>. QED
                    BY <5>2, <5>3, <5>4 DEF type
            <4>2. tag.type = "bool" => tag.value = IF b = 195 THEN 1 ELSE 0
                BY <3>1 DEF Alone
            <4>3. b \in FixStrs => tag.value = b - 160
                BY <3>1, <3>2 DEF Alone, FixStrs
            <4>. QED
                BY <2>5, <3>1, <3>4, <4>1, <4>2, <4>3 DEF Tells, P
        <3>. QED
            BY <2>1, <2>3, <3>4, <3>5
    <2>7. CASE \E f : Ahead(tag, P, f)
        <3>1. PICK f : Ahead(tag, P, f)
            BY <2>7
        <3>. DEFINE s == Store(tag.value, f.width)
        <3>2. f \in Formats /\ f.type = tag.type /\ P = <<f.code>> \o s /\ Fits(tag, f)
            BY <3>1 DEF Ahead
        <3>3. f.width \in 0..8 /\ tag.value \in Int
            <4>1. f.width \in {1, 2, 4, 8}
                BY <3>2, FormatKinds
            <4>2. tag.value \in Int
                BY TokenTag
            <4>. QED
                BY <4>1, <4>2
        <3>4. s \in Bytes /\ Len(s) = f.width
            <4>. DEFINE v == tag.value
                        w == f.width
            <4>1. v \in Int /\ w \in 0..8
                BY <3>3
            <4>. HIDE DEF v, w
            <4>2. Store(v, w) \in Bytes /\ Len(Store(v, w)) = w
                BY ONLY <4>1, StoredBytes, Zenon
            <4>. QED
                BY <4>2 DEF v, w
        <3>5. f.code \in 196..223 /\ f.code \notin {192, 194, 195}
            <4>. DEFINE code == f.code
            <4>1. f \in Formats
                BY <3>2
            <4>2. code \in 196..223
                BY ONLY <4>1, FormatKinds
            <4>. HIDE DEF code
            <4>3. code \in 196..223 /\ code \notin {192, 194, 195}
                BY ONLY <4>2
            <4>. QED
                BY <4>3 DEF code
        <3>6. b = f.code
            <4>. DEFINE k == <<f.code>>
            <4>1. k \in Bytes /\ k # <<>> /\ Head(k) = f.code
                BY <3>5 DEF Bytes, Octets
            <4>. HIDE DEF k, s
            <4>2. Head(k \o s) = Head(k)
                BY <3>4, <4>1, FirstByte
            <4>. QED
                BY <2>2, <3>2, <4>1, <4>2 DEF k
        <3>7. f.type = "str" <=> f.code \in {217, 218, 219}
            BY <3>2 DEF Formats, Format
        <3>8. f.type = "str" => f.width = StrWidth(f.code) /\ f.width <= 4
            BY <1>w, <3>2 DEF Formats, Format
        <3>9. f.type # "nil" /\ f.type # "bool"
            BY <3>2 DEF Formats, Format
        <3>10. tag.type = "str" => Load(s) = tag.value
            BY <3>2, FieldBack, TokenTag, EncodedTag, <1>2
        <3>11. StrWidth(b) > 0 <=> f.type = "str"
            BY <1>w, <3>6, <3>7
        <3>12. StrWidth(b) \in 0..4
            BY <1>w
        <3>. HIDE DEF b, P
        <3>13. b \notin FixStrs /\ b \notin Bools /\ b # 192
            BY <3>5, <3>6 DEF FixStrs, Bools
        <3>14. StrWidth(b) > 0 =>
                   LET v == Store(t.tag.value, StrWidth(b))
                   IN  /\ P = <<b>> \o v /\ v \in Bytes /\ Len(v) = StrWidth(b) /\ Len(v) <= 4
                       /\ Load(v) = t.tag.value
            BY <3>2, <3>4, <3>6, <3>8, <3>10, <3>11
        <3>15. Tells(t, b)
            BY <3>2, <3>9, <3>11, <3>13, <3>14 DEF Tells, P
        <3>. QED
            BY <2>1, <2>3, <3>12, <3>15
    <2>8. Valid(tag)
        BY <1>2, EncodedTag, TokenTag
    <2>9. (\E k \in Octets : P = <<k>> /\ Alone(tag, k)) \/ (\E f : Ahead(tag, P, f))
        BY <2>8, EncodedHow
    <2>. HIDE DEF b, P, tag
    <2>. QED
        BY <2>6, <2>7, <2>9
<1>. QED
    BY <1>1, <1>2

\* The first byte by itself.
LEMMA ByteAlong ==
    ASSUME NEW r, NEW P \in Bytes, P # <<>>, NEW rest \in Bytes, NEW c, Along(r, P \o rest, c)
    PROVE  \E more \in Bytes : P = <<Head(P)>> \o more /\ Gives(r, TypeByte(r), Head(P), more \o rest, c)
<1>. DEFINE b == Head(P)
            k == <<b>>
            y == ReadInPlace(r, 1)
            x == TypeByte(r)
<1>1. k \in Bytes /\ Len(k) = 1 /\ \E more \in Bytes : P = k \o more
    BY FirstByte
<1>2. PICK more \in Bytes : P = k \o more
    BY <1>1
<1>3. Head(k) = b
    OBVIOUS
<1>4. x = IF y.error = "ok" THEN [y EXCEPT !.got = Head(y.got)] ELSE y
    BY DEF TypeByte, Convert, Then, Returning
<1>. DEFINE u == more \o rest
<1>5. u \in Bytes
    BY Join
<1>. HIDE DEF b, k
<1>6. Along(r, k \o u, c)
    <2>1. P \o rest = k \o u
        BY <1>1, <1>2, Rejoin
    <2>. QED
        BY <2>1
<1>. HIDE DEF u
<1>7. Gives(r, y, k, u, c)
    <2>1. Fed(r)
        BY DEF Along
    <2>2. r.kind = "data" \/ 1 <= r.size
        BY <2>1 DEF Fed
    <2>. DEFINE n == 1
    <2>3. n = Len(k) /\ (r.kind = "data" \/ n <= r.size)
        BY <1>1, <2>2
    <2>. HIDE DEF n
    <2>4. Gives(r, ReadInPlace(r, n), k, u, c)
        BY <1>1, <1>5, <1>6, <2>3, InPlaceAlong
    <2>. QED
        BY <2>4 DEF n
<1>. HIDE DEF x, y
<1>8. ASSUME y.error = "ok", y.got = k, Along(y, u, c)
      PROVE  Answers(y, x, "ok", b, u, c)
    <2>1. x = [y EXCEPT !.got = b]
        BY <1>3, <1>4, <1>8
    <2>. QED
        BY <1>8, <2>1, Concludes
<1>9. Answers(r, x, "ok", b, u, c)
    BY <1>4, <1>7, <1>8, GoesOn
<1>. QED
    BY <1>2, <1>9 DEF Answers, x, b, k, u

LEMMA OneByteToken ==
    ASSUME NEW t, Sensible(t), t.tag.type \in {"nil", "bool"}, NEW rest \in Bytes,
           NEW more \in Bytes, Spelled(t) = <<Head(Spelled(t))>> \o more
    PROVE  more \o rest = t.body \o rest
<1>. DEFINE k == <<Head(Spelled(t))>>
<1>1. Tells(t, Head(Spelled(t))) /\ Spelled(t) # <<>> /\ Spelled(t) \in Bytes
    BY HeadTells
<1>2. Spelled(t) = k
    BY <1>1 DEF Tells
<1>3. k \in Bytes
    BY <1>1, FirstByte
<1>4. t.body = <<>>
    BY DEF Sensible, HasBody
<1>5. Len(k) + Len(more) = Len(k)
    <2>1. Spelled(t) = k \o more
        OBVIOUS
    <2>. HIDE DEF k
    <2>2. Len(k \o more) = Len(k) + Len(more)
        BY <1>3, Join
    <2>. QED
        BY <1>2, <2>1, <2>2
<1>. HIDE DEF k
<1>6. more = <<>>
    BY <1>3, <1>5 DEF Bytes
<1>. QED
    BY <1>4, <1>6

LEMMA NilExpected ==
    ASSUME NEW r, NEW t, Sensible(t), NEW rest \in Bytes, NEW c, Along(r, Spelled(t) \o rest, c)
    PROVE  Answers(r, ExpectNil(r), IF t.tag.type = "nil" THEN "ok" ELSE "type", Nil, t.body \o rest, c)
<1>. DEFINE S == Spelled(t)
            b == Head(S)
            outcome == IF t.tag.type = "nil" THEN "ok" ELSE "type"
            y == TypeByte(r)
            z == IF y.error = "ok" THEN IF y.got = 192 THEN y ELSE Wrong(y) ELSE y
            x == ExpectNil(r)
            u == t.body \o rest
<1>1. x = IF z.error = "ok" THEN [z EXCEPT !.got = Nil] ELSE z
    BY DEF ExpectNil, Convert, Require, Then, Returning
<1>2. Tells(t, b) /\ S # <<>> /\ S \in Bytes
    BY HeadTells
<1>3. PICK more \in Bytes : S = <<b>> \o more /\ Gives(r, y, b, more \o rest, c)
    BY <1>2, ByteAlong
<1>. DEFINE v == more \o rest
<1>4. t.tag.type = "nil" => v = u
    BY <1>3, OneByteToken
<1>5. t.tag.type = "nil" <=> b = 192
    BY <1>2 DEF Tells
<1>. HIDE DEF x, y, u, v, b, S
<1>6. y.error # "ok" => x = y
    BY <1>1
<1>7. ASSUME y.error = "ok", y.got = b, Along(y, v, c)
      PROVE  Answers(y, x, outcome, Nil, u, c)
    <2>1. CASE b = 192
        <3>1. x = [y EXCEPT !.got = Nil] /\ outcome = "ok"
            BY <1>1, <1>5, <1>7, <2>1
        <3>. HIDE DEF outcome
        <3>. QED
            BY <1>4, <1>5, <1>7, <2>1, <3>1, Concludes
    <2>2. CASE b # 192
        <3>1. Fed(y)
            BY <1>7 DEF Along
        <3>2. Wrong(y) = FlagError(y, "type") /\ Wrong(y).error # "ok"
            BY <1>7, <3>1, FlaggedWrong
        <3>3. x = FlagError(y, "type") /\ outcome = "type"
            BY <1>1, <1>5, <1>7, <2>2, <3>2
        <3>. HIDE DEF outcome
        <3>4. Answers(y, x, outcome, Nil, v, c)
            BY <1>7, <3>3, Concludes
        <3>. QED
            BY <3>3, <3>4 DEF Answers
    <2>. QED
        BY <2>1, <2>2
<1>8. Gives(r, y, b, v, c)
    BY <1>3 DEF v
<1>. HIDE DEF outcome
<1>9. Answers(r, x, outcome, Nil, u, c)
    BY <1>6, <1>7, <1>8, GoesOn
<1>. QED
    BY <1>9 DEF x, u, outcome

LEMMA BoolExpected ==
    ASSUME NEW r, NEW t, Sensible(t), NEW rest \in Bytes, NEW c, Along(r, Spelled(t) \o rest, c), NEW value \in BOOLEAN
    PROVE  Answers(r, ExpectBoolMatch(r, value),
                   IF t.tag = Tag("bool", IF value THEN 1 ELSE 0) THEN "ok" ELSE "type", value, t.body \o rest, c)
<1>. DEFINE S == Spelled(t)
            b == Head(S)
            same == b \in Bools /\ (b = 195) = value
            outcome == IF same THEN "ok" ELSE "type"
            y == TypeByte(r)
            z == IF y.error = "ok" THEN IF y.got \in Bools THEN y ELSE Wrong(y) ELSE y
            w == IF z.error = "ok" THEN [z EXCEPT !.got = (z.got = 195)] ELSE z
            x == ExpectBoolMatch(r, value)
            u == t.body \o rest
<1>1. x = IF w.error = "ok" THEN IF w.got = value THEN w ELSE Wrong(w) ELSE w
    BY DEF ExpectBoolMatch, ExpectBool, Convert, Require, Then, Returning
<1>2. Tells(t, b) /\ S # <<>> /\ S \in Bytes
    BY HeadTells
<1>3. PICK more \in Bytes : S = <<b>> \o more /\ Gives(r, y, b, more \o rest, c)
    BY <1>2, ByteAlong
<1>. DEFINE v == more \o rest
<1>4. t.tag.type = "bool" => v = u
    BY <1>3, OneByteToken
<1>5. /\ t.tag.type = "bool" <=> b \in Bools
      /\ t.tag.type = "bool" => t.tag.value = IF b = 195 THEN 1 ELSE 0
    BY <1>2 DEF Tells
<1>6. (t.tag = Tag("bool", IF value THEN 1 ELSE 0)) <=> same
    <2>1. t.tag = Tag(t.tag.type, t.tag.value)
        BY TokenTag
    <2>. HIDE DEF b
    <2>2. same <=> t.tag.type = "bool" /\ t.tag.value = IF value THEN 1 ELSE 0
        BY <1>5
    <2>. HIDE DEF same
    <2>. QED
        BY <2>1, <2>2 DEF Tag
<1>. HIDE DEF x, y, u, v, b, S
<1>7. y.error # "ok" => x = y
    BY <1>1
<1>8. ASSUME y.error = "ok", y.got = b, Along(y, v, c)
      PROVE  Answers(y, x, outcome, value, u, c)
    <2>0. Fed(y)
        BY <1>8 DEF Along
    <2>1. CASE b \in Bools
        <3>1. z = y
            BY <1>8, <2>1
        <3>2. Regets(y, w, (b = 195))
            BY <1>8, <3>1 DEF Regets
        <3>. DEFINE val == (b = 195)
        <3>3. Along(w, v, c) /\ Fed(w) /\ SameKind(y, w) /\ w.error = "ok" /\ w.got = val
            <4>1. Regets(y, w, val)
                BY <3>2
            <4>. HIDE DEF val, w
            <4>. QED
                BY <1>8, <4>1, AlongRefit
        <3>4. v = u
            BY <1>4, <1>5, <2>1
        <3>. HIDE DEF w
        <3>5. outcome = "ok" => x = w /\ value = (b = 195)
            BY <1>1, <2>1, <3>3
        <3>6. outcome # "ok" => x = FlagError(w, outcome)
            BY <1>1, <2>1, <3>3 DEF Wrong
        <3>. HIDE DEF outcome
        <3>7. w.got = val /\ (outcome = "ok" => x = w /\ value = val)
            BY <3>3, <3>5
        <3>. HIDE DEF val
        <3>8. Answers(w, x, outcome, value, u, c)
            BY <3>3, <3>4, <3>6, <3>7, Concludes
        <3>. QED
            BY <3>3, <3>8 DEF Answers, Gives, Refuses, SameKind
    <2>2. CASE b \notin Bools
        <3>2. Wrong(y) = FlagError(y, "type") /\ Wrong(y).error # "ok"
            BY <1>8, <2>0, FlaggedWrong
        <3>3. z = FlagError(y, "type") /\ z.error # "ok"
            BY <1>8, <2>2, <3>2
        <3>. HIDE DEF z
        <3>4. x = FlagError(y, "type") /\ outcome = "type"
            BY <1>1, <2>2, <3>3
        <3>. HIDE DEF outcome
        <3>5. Answers(y, x, outcome, value, v, c)
            BY <1>8, <3>4, Concludes
        <3>. QED
            BY <3>4, <3>5 DEF Answers
    <2>. QED
        BY <2>1, <2>2
<1>9. Gives(r, y, b, v, c)
    BY <1>3 DEF v
<1>. HIDE DEF outcome, same
<1>10. Answers(r, x, outcome, value, u, c)
    BY <1>7, <1>8, <1>9, GoesOn
<1>. QED
    BY <1>6, <1>10 DEF x, u, outcome

------------------------------------------------------------------------------------
(* Strings and blobs. *)

\* A check at the end of a call.
LEMMA Checked ==
    ASSUME NEW r, NEW w, NEW mid, NEW val, NEW rest, NEW c, Answers(r, w, mid, val, rest, c),
           NEW x, NEW outcome, w.error # "ok" => x = w, mid # "ok" => outcome = mid,
           mid = "ok" /\ w.error = "ok" /\ w.got = val /\ outcome = "ok" => x = w,
           mid = "ok" /\ w.error = "ok" /\ w.got = val /\ outcome # "ok" => x = FlagError(w, outcome)
    PROVE  Answers(r, x, outcome, val, rest, c)
<1>1. ASSUME mid = "ok", w.error = "ok", w.got = val, Along(w, rest, c)
      PROVE  Answers(w, x, outcome, val, rest, c)
    BY <1>1, Concludes
<1>. QED
    BY <1>1, ThenAnswers

LEMMA NativeExpected ==
    ASSUME NEW r, NEW s \in Bytes, NEW n, n = Len(s), n <= 9, NEW rest \in Bytes, NEW c, Along(r, s \o rest, c)
    PROVE  Gives(r, ExpectNative(r, n), Load(s), rest, c)
<1>. DEFINE y == ReadInPlace(r, n)
            x == ExpectNative(r, n)
<1>1. x = IF y.error = "ok" THEN [y EXCEPT !.got = Load(y.got)] ELSE y
    BY DEF ExpectNative, Convert, Then, Returning
<1>2. Gives(r, y, s, rest, c)
    <2>1. Fed(r) /\ n \in Nat
        BY DEF Along, Bytes
    <2>2. r.kind = "data" \/ n <= r.size
        BY <2>1 DEF Fed
    <2>. QED
        BY <2>2, InPlaceAlong
<1>. HIDE DEF x, y
<1>3. ASSUME y.error = "ok", y.got = s, Along(y, rest, c)
      PROVE  Answers(y, x, "ok", Load(s), rest, c)
    <2>1. x = [y EXCEPT !.got = Load(s)]
        BY <1>1, <1>3
    <2>. QED
        BY <1>3, <2>1, Concludes
<1>4. Answers(r, x, "ok", Load(s), rest, c)
    BY <1>1, <1>2, <1>3, GoesOn
<1>. QED
    BY <1>4 DEF Answers, x

\* The length of a str, from its first byte and the bytes behind it.
LEMMA StrExpected ==
    ASSUME NEW r, NEW t, Sensible(t), NEW rest \in Bytes, NEW c, Along(r, Spelled(t) \o rest, c)
    PROVE  Answers(r, ExpectStr(r), IF t.tag.type = "str" THEN "ok" ELSE "type", t.tag.value, t.body \o rest, c)
<1>. DEFINE S == Spelled(t)
            b == Head(S)
            n == t.tag.value
            outcome == IF t.tag.type = "str" THEN "ok" ELSE "type"
            y == TypeByte(r)
            x == ExpectStr(r)
            u == t.body \o rest
            width == StrWidth(b)
<1>1. x = IF y.error = "ok" THEN
              IF y.got \in FixStrs THEN [y EXCEPT !.got = y.got - 160]
              ELSE IF StrWidth(y.got) > 0 THEN ExpectNative(y, StrWidth(y.got)) ELSE Wrong(y)
          ELSE y
    BY DEF ExpectStr, Then, Returning
<1>2. Tells(t, b) /\ S # <<>> /\ S \in Bytes /\ width \in 0..4
    BY HeadTells
<1>3. PICK more \in Bytes : S = <<b>> \o more /\ Gives(r, y, b, more \o rest, c)
    BY <1>2, ByteAlong
<1>. DEFINE v == more \o rest
            k == <<b>>
<1>4. t.tag.type = "str" <=> b \in FixStrs \/ width > 0
    BY <1>2 DEF Tells
<1>5. k \in Bytes
    BY <1>2, FirstByte
<1>6. t.tag.type # "ext" => S = Encode(t.tag) \o t.body
    BY TokenTag
<1>7. t.body \in Bytes /\ u \in Bytes
    BY TokenTag, Join
<1>8. b \in FixStrs => v = u /\ n = b - 160
    <2>. SUFFICES ASSUME b \in FixStrs
                  PROVE  v = u /\ n = b - 160
        OBVIOUS
    <2>1. Encode(t.tag) = k /\ n = b - 160
        BY <1>2 DEF Tells
    <2>2. S = k \o more /\ S = k \o t.body
        BY <1>3, <1>4, <1>6, <2>1
    <2>. HIDE DEF k, S
    <2>3. more = t.body
        BY <1>5, <1>7, <2>2, SplitOnly
    <2>. QED
        BY <2>1, <2>3
<1>. DEFINE s == Store(n, width)
<1>9. b \notin FixStrs /\ width > 0 =>
          v = s \o u /\ s \in Bytes /\ Len(s) = width /\ width <= 4 /\ Load(s) = n
    <2>. SUFFICES ASSUME b \notin FixStrs, width > 0
                  PROVE  v = s \o u /\ s \in Bytes /\ Len(s) = width /\ width <= 4 /\ Load(s) = n
        OBVIOUS
    <2>1. Encode(t.tag) = k \o s /\ s \in Bytes /\ Len(s) = width /\ Len(s) <= 4 /\ Load(s) = n
        BY <1>2 DEF Tells
    <2>2. S = k \o more /\ S = (k \o s) \o t.body
        BY <1>3, <1>4, <1>6, <2>1
    <2>. HIDE DEF k, S, s
    <2>3. (k \o s) \o t.body = k \o (s \o t.body) /\ s \o t.body \in Bytes
        <3>1. k \in Bytes /\ s \in Bytes /\ t.body \in Bytes
            BY <1>5, <1>7, <2>1
        <3>2. (k \o s) \o t.body = k \o (s \o t.body)
            <4>. DEFINE body == t.body
            <4>. HIDE DEF body
            <4>1. Rejoined(k, s, body)
                BY <3>1, Rejoins DEF body
            <4>2. (k \o s) \o body = k \o (s \o body)
                BY ONLY <4>1 DEF Rejoined
            <4>. QED
                BY <4>2 DEF body
        <3>3. s \o t.body \in Bytes
            BY <3>1, Join
        <3>. QED
            BY <3>2, <3>3
    <2>4. more = s \o t.body
        BY <1>5, <2>2, <2>3, SplitOnly
    <2>5. v = s \o u
        <3>. DEFINE body == t.body
        <3>1. s \in Bytes /\ body \in Bytes /\ rest \in Bytes
            BY <1>7, <2>1
        <3>. HIDE DEF body
        <3>2. Rejoined(s, body, rest)
            BY <3>1, Rejoins
        <3>3. (s \o body) \o rest = s \o (body \o rest)
            BY ONLY <3>2 DEF Rejoined
        <3>. QED
            BY <2>4, <3>3 DEF body
    <2>. QED
        BY <2>1, <2>5
<1>10. Gives(r, y, b, v, c)
    BY <1>3
<1>. HIDE DEF x, y, u, v, S, s, b, n, width
<1>11. ASSUME y.error = "ok", y.got = b, Along(y, v, c)
      PROVE  Answers(y, x, outcome, n, u, c)
    <2>0. Fed(y)
        BY <1>11 DEF Along
    <2>1. CASE b \in FixStrs
        <3>1. x = [y EXCEPT !.got = n] /\ outcome = "ok"
            BY <1>1, <1>4, <1>8, <1>11, <2>1
        <3>. HIDE DEF outcome
        <3>. QED
            BY <1>8, <1>11, <2>1, <3>1, Concludes
    <2>2. CASE b \notin FixStrs /\ width > 0
        <3>1. x = ExpectNative(y, width) /\ outcome = "ok"
            BY <1>1, <1>4, <1>11, <2>2 DEF width
        <3>2. Along(y, s \o u, c) /\ width <= 9
            <4>1. width <= 9
                BY <1>2
            <4>2. v = s \o u
                BY <1>9, <2>2
            <4>. QED
                BY <1>11, <4>1, <4>2
        <3>3. Gives(y, ExpectNative(y, width), Load(s), u, c)
            BY <1>7, <1>9, <2>2, <3>2, NativeExpected
        <3>. QED
            BY <1>9, <2>2, <3>1, <3>3 DEF Answers
    <2>3. CASE b \notin FixStrs /\ ~(width > 0)
        <3>1. Wrong(y) = FlagError(y, "type")
            BY <1>11, <2>0, FlaggedWrong
        <3>2. x = FlagError(y, "type") /\ outcome = "type"
            BY <1>1, <1>4, <1>11, <2>3, <3>1 DEF width
        <3>. HIDE DEF outcome
        <3>3. Answers(y, x, outcome, n, v, c)
            BY <1>11, <3>2, Concludes
        <3>. QED
            BY <3>2, <3>3 DEF Answers
    <2>. QED
        BY <2>1, <2>2, <2>3
<1>12. y.error # "ok" => x = y
    BY <1>1
<1>. HIDE DEF outcome
<1>13. Answers(r, x, outcome, n, u, c)
    BY <1>10, <1>11, <1>12, GoesOn
<1>. QED
    BY <1>13 DEF x, u, n, outcome

\* A str or a bin that is expected, or what the caller is told instead.
Missed(t, type) == IF t.tag.type = "ext" /\ type # "str" THEN "unsupported" ELSE "type"

LEMMA LengthExpected ==
    ASSUME NEW r, NEW t, Sensible(t), NEW rest \in Bytes, NEW c, Along(r, Spelled(t) \o rest, c),
           NEW type \in {"str", "bin"}
    PROVE  /\ Answers(r, ExpectLength(r, type), IF t.tag.type = type THEN "ok" ELSE Missed(t, type),
                      t.tag.value, t.body \o rest, c)
           /\ t.tag.type = type => t.tag.value = Len(t.body)
<1>1. t.tag.type = type => t.tag.value = Len(t.body)
    BY DEF Sensible, HasBody
<1>2. CASE type = "str"
    <2>1. Answers(r, ExpectStr(r), IF t.tag.type = "str" THEN "ok" ELSE "type", t.tag.value, t.body \o rest, c)
        BY StrExpected
    <2>. QED
        BY <1>1, <1>2, <2>1 DEF ExpectLength, Missed
<1>3. CASE type = "bin"
    <2>1. Answers(r, ExpectCompound(r, "bin"),
                  IF t.tag.type = "bin" THEN "ok" ELSE IF t.tag.type = "ext" THEN "unsupported" ELSE "type",
                  t.tag.value, t.body \o rest, c)
        BY CountExpected
    <2>. QED
        BY <1>1, <1>3, <2>1 DEF ExpectLength, ExpectBin, Missed
<1>. QED
    BY <1>2, <1>3

\* The bytes of a str or a bin into the caller's memory, once their number is known.
LEMMA BodyTaken ==
    ASSUME NEW t, Sensible(t), NEW rest \in Bytes, NEW c, NEW r, NEW y, NEW before, NEW n,
           Answers(r, y, before, n, t.body \o rest, c), before = "ok" => n = Len(t.body),
           NEW x, NEW outcome, y.error # "ok" => x = y, before # "ok" => outcome = before,
           before = "ok" /\ y.error = "ok" /\ y.got = n /\ outcome = "ok" => x = ReadNative(y, n),
           before = "ok" /\ y.error = "ok" /\ y.got = n /\ outcome # "ok" => x = FlagError(y, outcome)
    PROVE  Answers(r, x, outcome, t.body, rest, c)
<1>. DEFINE u == t.body \o rest
<1>1. ASSUME before = "ok", y.error = "ok", y.got = n, Along(y, u, c)
      PROVE  Answers(y, x, outcome, t.body, rest, c)
    <2>1. t.body \in Bytes
        BY TokenTag
    <2>2. CASE outcome = "ok"
        <3>1. Gives(y, ReadNative(y, n), t.body, rest, c)
            BY <1>1, <2>1, NativeAlong
        <3>. QED
            BY <1>1, <2>2, <3>1 DEF Answers
    <2>3. CASE outcome # "ok"
        <3>1. x = FlagError(y, outcome) /\ outcome # "ok"
            BY <1>1, <2>3
        <3>. HIDE DEF u
        <3>2. Answers(y, x, outcome, t.body, u, c)
            BY <1>1, <3>1, Concludes
        <3>. QED
            BY <3>1, <3>2 DEF Answers
    <2>. QED
        BY <2>2, <2>3
<1>. HIDE DEF u
<1>2. Answers(r, y, before, n, u, c)
    BY DEF u
<1>. QED
    BY <1>1, <1>2, ThenAnswers

\* As many bytes as there are, but not more than most.
Capped(y, most) ==
    IF y.error = "ok" THEN IF y.got > most THEN FlagError(y, "too_big") ELSE ReadNative(y, y.got) ELSE y

LEMMA CappedTaken ==
    ASSUME NEW t, Sensible(t), NEW rest \in Bytes, NEW c, NEW r, NEW y, NEW before, NEW n,
           Answers(r, y, before, n, t.body \o rest, c), before = "ok" => n = Len(t.body), NEW most \in Int
    PROVE  Answers(r, Capped(y, most),
                   IF before # "ok" THEN before ELSE IF Len(t.body) <= most THEN "ok" ELSE "too_big", t.body, rest, c)
<1>. DEFINE mid == IF before # "ok" THEN before ELSE IF Len(t.body) <= most THEN "ok" ELSE "too_big"
            w == Capped(y, most)
<1>1. Len(t.body) \in Nat
    BY TokenTag DEF Bytes
<1>2. y.error # "ok" => w = y
    BY DEF Capped
<1>3. before = "ok" /\ y.error = "ok" /\ y.got = n /\ mid = "ok" => w = ReadNative(y, n)
    BY <1>1 DEF Capped
<1>4. before = "ok" /\ y.error = "ok" /\ y.got = n /\ mid # "ok" => w = FlagError(y, mid)
    BY <1>1 DEF Capped
<1>5. before # "ok" => mid = before
    OBVIOUS
<1>. HIDE DEF mid, w
<1>6. Answers(r, w, mid, t.body, rest, c)
    BY <1>2, <1>3, <1>4, <1>5, BodyTaken
<1>. QED
    BY <1>6 DEF mid, w

LEMMA BufExpected ==
    ASSUME NEW r, NEW t, Sensible(t), NEW rest \in Bytes, NEW c, Along(r, Spelled(t) \o rest, c),
           NEW type \in {"str", "bin"}, NEW size \in Int
    PROVE  Answers(r, ExpectBuf(r, type, size),
                   IF t.tag.type # type THEN Missed(t, type) ELSE IF Len(t.body) > size THEN "too_big" ELSE "ok",
                   t.body, rest, c)
<1>. DEFINE n == t.tag.value
            before == IF t.tag.type = type THEN "ok" ELSE Missed(t, type)
            outcome == IF before # "ok" THEN before ELSE IF Len(t.body) <= size THEN "ok" ELSE "too_big"
            y == ExpectLength(r, type)
            x == ExpectBuf(r, type, size)
<1>1. x = Capped(y, size)
    BY DEF ExpectBuf, Then, Capped
<1>2. Answers(r, y, before, n, t.body \o rest, c) /\ (t.tag.type = type => n = Len(t.body))
    BY LengthExpected
<1>3. Missed(t, type) # "ok"
    BY DEF Missed
<1>4. Len(t.body) \in Nat
    BY TokenTag DEF Bytes
<1>5. outcome = IF t.tag.type # type THEN Missed(t, type) ELSE IF Len(t.body) > size THEN "too_big" ELSE "ok"
    BY <1>3, <1>4
<1>6. before = "ok" => n = Len(t.body)
    BY <1>2, <1>3
<1>. HIDE DEF x, y, n, before
<1>7. Answers(r, Capped(y, size), outcome, t.body, rest, c)
    BY <1>2, <1>6, CappedTaken
<1>. QED
    BY <1>1, <1>5, <1>7 DEF x

LEMMA Utf8Expected ==
    ASSUME NEW r, NEW t, Sensible(t), NEW rest \in Bytes, NEW c, Along(r, Spelled(t) \o rest, c), NEW max \in Int
    PROVE  LET fits == t.tag.type = "str" /\ Len(t.body) <= max
           IN  Answers(r, ExpectUtf8(r, max),
                       IF t.tag.type = "str" /\ ~fits THEN "too_big"
                       ELSE IF fits /\ t.body \notin NotUtf8 THEN "ok" ELSE "type", t.body, rest, c)
<1>. DEFINE fits == t.tag.type = "str" /\ Len(t.body) <= max
            good == t.body \notin NotUtf8
            mid == IF t.tag.type # "str" THEN Missed(t, "str") ELSE IF Len(t.body) > max THEN "too_big" ELSE "ok"
            outcome == IF t.tag.type = "str" /\ ~fits THEN "too_big"
                       ELSE IF fits /\ good THEN "ok" ELSE "type"
            w == ExpectBuf(r, "str", max)
            x == ExpectUtf8(r, max)
<1>1. x = IF w.error = "ok" THEN IF w.got \notin NotUtf8 THEN w ELSE FlagError(w, "type") ELSE w
    BY DEF ExpectUtf8, Require, Then, Wrong
<1>2. Answers(r, w, mid, t.body, rest, c)
    BY BufExpected
<1>3. Len(t.body) \in Nat
    BY TokenTag DEF Bytes
<1>4. /\ outcome = "ok" <=> mid = "ok" /\ good
      /\ mid # "ok" => outcome = mid
      /\ mid = "ok" /\ ~good => outcome = "type"
    BY <1>3 DEF Missed
<1>. HIDE DEF x, w
<1>5. w.error # "ok" => x = w
    BY <1>1
<1>6. mid = "ok" /\ w.error = "ok" /\ w.got = t.body /\ outcome = "ok" => x = w
    BY <1>1, <1>4
<1>7. mid = "ok" /\ w.error = "ok" /\ w.got = t.body /\ outcome # "ok" => x = FlagError(w, outcome)
    BY <1>1, <1>4
<1>. HIDE DEF mid, good, outcome
<1>8. Answers(r, x, outcome, t.body, rest, c)
    BY <1>2, <1>4, <1>5, <1>6, <1>7, Checked
<1>. QED
    BY <1>8 DEF x, outcome, good

LEMMA CstrExpected ==
    ASSUME NEW r, NEW t, Sensible(t), NEW rest \in Bytes, NEW c, Along(r, Spelled(t) \o rest, c), NEW size \in Int
    PROVE  Answers(r, ExpectCstr(r, size),
                   IF t.tag.type # "str" THEN "type" ELSE IF Len(t.body) > size - 1 THEN "too_big"
                   ELSE IF ~NoNull(t.body) THEN "type" ELSE "ok", t.body, rest, c)
<1>. DEFINE n == t.tag.value
            before == IF t.tag.type = "str" THEN "ok" ELSE "type"
            good == NoNull(t.body)
            mid == IF before # "ok" THEN before ELSE IF Len(t.body) <= size - 1 THEN "ok" ELSE "too_big"
            outcome == IF t.tag.type # "str" THEN "type" ELSE IF Len(t.body) > size - 1 THEN "too_big"
                       ELSE IF ~good THEN "type" ELSE "ok"
            y == ExpectStr(r)
            w == Capped(y, size - 1)
            x == ExpectCstr(r, size)
<1>1. x = IF w.error = "ok" THEN IF NoNull(w.got) THEN w ELSE FlagError(w, "type") ELSE w
    BY DEF ExpectCstr, ReadCstr, Require, Then, Wrong, Capped
<1>2. Answers(r, y, before, n, t.body \o rest, c) /\ (t.tag.type = "str" => n = Len(t.body))
    BY StrExpected DEF Sensible, HasBody
<1>3. Len(t.body) \in Nat
    BY TokenTag DEF Bytes
<1>. HIDE DEF x, y, n
<1>4. before = "ok" => n = Len(t.body)
    BY <1>2
<1>6. /\ outcome = "ok" <=> mid = "ok" /\ good
      /\ mid # "ok" => outcome = mid
      /\ mid = "ok" /\ ~good => outcome = "type"
    BY <1>3
<1>7. Answers(r, w, mid, t.body, rest, c)
    <2>1. Answers(r, y, before, n, t.body \o rest, c)
        BY <1>2
    <2>2. size - 1 \in Int
        OBVIOUS
    <2>. HIDE DEF before
    <2>. QED
        BY <1>4, <2>1, <2>2, CappedTaken
<1>. HIDE DEF w
<1>8. w.error # "ok" => x = w
    BY <1>1
<1>9. mid = "ok" /\ w.error = "ok" /\ w.got = t.body /\ outcome = "ok" => x = w
    BY <1>1, <1>6
<1>10. mid = "ok" /\ w.error = "ok" /\ w.got = t.body /\ outcome # "ok" => x = FlagError(w, outcome)
    BY <1>1, <1>6
<1>. HIDE DEF mid, good, outcome
<1>11. Answers(r, x, outcome, t.body, rest, c)
    BY <1>6, <1>7, <1>8, <1>9, <1>10, Checked
<1>. QED
    BY <1>11 DEF x, outcome, good

\* The bytes into memory that is allocated for them.
Allocated(y, canAllocate) ==
    IF y.error = "ok" THEN IF canAllocate THEN ReadNative(y, y.got) ELSE FlagError(y, "memory") ELSE y

LEMMA AllocatedTaken ==
    ASSUME NEW t, Sensible(t), NEW rest \in Bytes, NEW c, NEW r, NEW y, NEW before, NEW n,
           Answers(r, y, before, n, t.body \o rest, c), before = "ok" => n = Len(t.body), NEW canAllocate
    PROVE  Answers(r, Allocated(y, canAllocate),
                   IF before # "ok" THEN before ELSE IF canAllocate THEN "ok" ELSE "memory", t.body, rest, c)
<1>. DEFINE mid == IF before # "ok" THEN before ELSE IF canAllocate THEN "ok" ELSE "memory"
            w == Allocated(y, canAllocate)
<1>2. y.error # "ok" => w = y
    BY DEF Allocated
<1>3. before = "ok" /\ y.error = "ok" /\ y.got = n /\ mid = "ok" => w = ReadNative(y, n)
    BY DEF Allocated
<1>4. before = "ok" /\ y.error = "ok" /\ y.got = n /\ mid # "ok" => w = FlagError(y, mid)
    BY DEF Allocated
<1>5. before # "ok" => mid = before
    OBVIOUS
<1>. HIDE DEF mid, w
<1>6. Answers(r, w, mid, t.body, rest, c)
    BY <1>2, <1>3, <1>4, <1>5, BodyTaken
<1>. QED
    BY <1>6 DEF mid, w

LEMMA StrMaxExpected ==
    ASSUME NEW r, NEW t, Sensible(t), NEW rest \in Bytes, NEW c, Along(r, Spelled(t) \o rest, c), NEW max \in Int
    PROVE  Answers(r, ExpectStrMax(r, max),
                   IF t.tag.type # "str" THEN "type" ELSE IF Len(t.body) > max THEN "too_big" ELSE "ok",
                   t.tag.value, t.body \o rest, c)
<1>. DEFINE n == t.tag.value
            u == t.body \o rest
            before == IF t.tag.type = "str" THEN "ok" ELSE "type"
            outcome == IF t.tag.type # "str" THEN "type" ELSE IF Len(t.body) > max THEN "too_big" ELSE "ok"
            y == ExpectStr(r)
            x == ExpectStrMax(r, max)
<1>1. x = IF y.error = "ok" THEN IF y.got > max THEN FlagError(y, "too_big") ELSE y ELSE y
    BY DEF ExpectStrMax, Then
<1>2. Answers(r, y, before, n, u, c) /\ (t.tag.type = "str" => n = Len(t.body))
    BY StrExpected DEF Sensible, HasBody
<1>3. Len(t.body) \in Nat
    BY TokenTag DEF Bytes
<1>. HIDE DEF x, y, n, u
<1>4. y.error # "ok" => x = y
    BY <1>1
<1>5. before # "ok" => outcome = before
    OBVIOUS
<1>6. before = "ok" /\ y.error = "ok" /\ y.got = n /\ outcome = "ok" => x = y
    BY <1>1, <1>2, <1>3
<1>7. before = "ok" /\ y.error = "ok" /\ y.got = n /\ outcome # "ok" => x = FlagError(y, outcome)
    BY <1>1, <1>2, <1>3
<1>. HIDE DEF before, outcome
<1>8. Answers(r, x, outcome, n, u, c)
    BY <1>2, <1>4, <1>5, <1>6, <1>7, Checked
<1>. QED
    BY <1>8 DEF x, outcome, n, u

LEMMA CstrAllocExpected ==
    ASSUME NEW r, NEW t, Sensible(t), NEW rest \in Bytes, NEW c, Along(r, Spelled(t) \o rest, c),
           NEW max \in Int, NEW canAllocate \in BOOLEAN
    PROVE  LET fits == t.tag.type = "str" /\ Len(t.body) <= max
           IN  Answers(r, ExpectCstrAlloc(r, max + 1, canAllocate),
                       IF fits /\ ~canAllocate THEN "memory"
                       ELSE IF t.tag.type = "str" /\ ~fits THEN "too_big"
                       ELSE IF fits /\ NoNull(t.body) THEN "ok" ELSE "type", t.body, rest, c)
<1>. DEFINE n == t.tag.value
            u == t.body \o rest
            fits == t.tag.type = "str" /\ Len(t.body) <= max
            good == NoNull(t.body)
            before == IF t.tag.type # "str" THEN "type" ELSE IF Len(t.body) > max THEN "too_big" ELSE "ok"
            mid == IF before # "ok" THEN before ELSE IF canAllocate THEN "ok" ELSE "memory"
            outcome == IF fits /\ ~canAllocate THEN "memory"
                       ELSE IF t.tag.type = "str" /\ ~fits THEN "too_big"
                       ELSE IF fits /\ good THEN "ok" ELSE "type"
            y == ExpectStrMax(r, max)
            w == Allocated(y, canAllocate)
            x == ExpectCstrAlloc(r, max + 1, canAllocate)
<1>1. x = IF w.error = "ok" THEN IF NoNull(w.got) THEN w ELSE FlagError(w, "type") ELSE w
    <2>1. max + 1 - 1 = max
        OBVIOUS
    <2>. QED
        BY <2>1 DEF ExpectCstrAlloc, ReadAlloc, Require, Then, Wrong, Allocated
<1>2. Answers(r, y, before, n, u, c)
    BY StrMaxExpected
<1>2a. t.tag.type = "str" => n = Len(t.body)
    BY DEF Sensible, HasBody
<1>3. Len(t.body) \in Nat
    BY TokenTag DEF Bytes
<1>. HIDE DEF x, y, n
<1>4. before = "ok" => n = Len(t.body)
    BY <1>2a
<1>6. /\ outcome = "ok" <=> mid = "ok" /\ good
      /\ mid # "ok" => outcome = mid
      /\ mid = "ok" /\ ~good => outcome = "type"
    BY <1>3
<1>. HIDE DEF before
<1>7. Answers(r, w, mid, t.body, rest, c)
    BY <1>2, <1>4, AllocatedTaken
<1>. HIDE DEF w
<1>8. w.error # "ok" => x = w
    BY <1>1
<1>9. mid = "ok" /\ w.error = "ok" /\ w.got = t.body /\ outcome = "ok" => x = w
    BY <1>1, <1>6
<1>10. mid = "ok" /\ w.error = "ok" /\ w.got = t.body /\ outcome # "ok" => x = FlagError(w, outcome)
    BY <1>1, <1>6
<1>. HIDE DEF mid, good, outcome
<1>11. Answers(r, x, outcome, t.body, rest, c)
    BY <1>6, <1>7, <1>8, <1>9, <1>10, Checked
<1>. QED
    BY <1>11 DEF x, outcome, good

LEMMA BinSizeExpected ==
    ASSUME NEW r, NEW t, Sensible(t), NEW rest \in Bytes, NEW c, Along(r, Spelled(t) \o rest, c), NEW size \in Int
    PROVE  Answers(r, ExpectBinSizeBuf(r, size),
                   IF t.tag.type = "bin" /\ Len(t.body) = size THEN "ok"
                   ELSE IF t.tag.type = "ext" THEN "unsupported" ELSE "type", t.body, rest, c)
<1>. DEFINE n == t.tag.value
            u == t.body \o rest
            outcome == IF t.tag.type = "bin" /\ Len(t.body) = size THEN "ok"
                       ELSE IF t.tag.type = "ext" THEN "unsupported" ELSE "type"
            y == ExpectCompoundRange(r, "bin", size, size)
            x == ExpectBinSizeBuf(r, size)
<1>1. x = IF y.error = "ok" THEN ReadNative(y, size) ELSE y
    BY DEF ExpectBinSizeBuf, Then
<1>2. t.tag.type = "bin" => n = Len(t.body)
    BY DEF Sensible, HasBody
<1>3. Len(t.body) \in Nat
    BY TokenTag DEF Bytes
<1>4. Answers(r, y, IF t.tag.type = "bin" /\ n \in size..size THEN "ok"
                    ELSE IF t.tag.type = "ext" THEN "unsupported" ELSE "type", n, u, c)
    BY CountRangeExpected
<1>. HIDE DEF n, x, y
<1>5. Answers(r, y, outcome, n, u, c)
    <2>1. t.tag.type = "bin" => (n \in size..size <=> Len(t.body) = size)
        BY <1>2, <1>3
    <2>2. outcome = IF t.tag.type = "bin" /\ n \in size..size THEN "ok"
                    ELSE IF t.tag.type = "ext" THEN "unsupported" ELSE "type"
        BY <2>1
    <2>. HIDE DEF outcome
    <2>. QED
        BY <1>4, <2>2
<1>6. outcome = "ok" => n = Len(t.body) /\ n = size
    BY <1>2
<1>. HIDE DEF outcome
<1>7. y.error # "ok" => x = y
    BY <1>1
<1>8. outcome = "ok" /\ y.error = "ok" /\ y.got = n /\ outcome = "ok" => x = ReadNative(y, n)
    BY <1>1, <1>6
<1>9. Answers(r, x, outcome, t.body, rest, c)
    BY <1>5, <1>6, <1>7, <1>8, BodyTaken
<1>. QED
    BY <1>9 DEF x, outcome

LEMMA BinAllocExpected ==
    ASSUME NEW r, NEW t, Sensible(t), NEW rest \in Bytes, NEW c, Along(r, Spelled(t) \o rest, c),
           NEW max \in Int, NEW canAllocate \in BOOLEAN
    PROVE  LET fits == t.tag.type = "bin" /\ Len(t.body) <= max
           IN  Answers(r, ExpectBinAlloc(r, max, canAllocate),
                       IF fits /\ t.body # <<>> /\ ~canAllocate THEN "memory"
                       ELSE IF fits THEN "ok" ELSE IF t.tag.type = "ext" THEN "unsupported" ELSE "type",
                       t.body, rest, c)
<1>. DEFINE n == t.tag.value
            u == t.body \o rest
            fits == t.tag.type = "bin" /\ Len(t.body) <= max
            before == IF fits THEN "ok" ELSE IF t.tag.type = "ext" THEN "unsupported" ELSE "type"
            outcome == IF fits /\ t.body # <<>> /\ ~canAllocate THEN "memory" ELSE before
            y == ExpectCompoundRange(r, "bin", 0, max)
            w == Allocated(y, canAllocate)
            x == ExpectBinAlloc(r, max, canAllocate)
<1>1. x = IF y.error = "ok" THEN IF y.got = 0 THEN [y EXCEPT !.got = <<>>] ELSE w ELSE y
    BY DEF ExpectBinAlloc, Then, Returning, ReadAlloc, Allocated
<1>2. t.tag.type = "bin" => n = Len(t.body)
    BY DEF Sensible, HasBody
<1>3. Len(t.body) \in Nat /\ t.body \in Bytes
    <2>1. t.body \in Bytes
        BY TokenTag
    <2>. QED
        BY <2>1 DEF Bytes
<1>4. Answers(r, y, IF t.tag.type = "bin" /\ n \in 0..max THEN "ok"
                    ELSE IF t.tag.type = "ext" THEN "unsupported" ELSE "type", n, u, c)
    BY CountRangeExpected
<1>. HIDE DEF n, x, y
<1>5. Answers(r, y, before, n, u, c)
    <2>1. t.tag.type = "bin" => (n \in 0..max <=> Len(t.body) <= max)
        BY <1>2, <1>3
    <2>2. before = IF t.tag.type = "bin" /\ n \in 0..max THEN "ok"
                    ELSE IF t.tag.type = "ext" THEN "unsupported" ELSE "type"
        BY <2>1
    <2>. HIDE DEF before
    <2>. QED
        BY <1>4, <2>2
<1>6. before = "ok" => n = Len(t.body)
    BY <1>2
<1>7. CASE t.body = <<>>
    <2>1. before = "ok" => n = 0
        <3>1. Len(t.body) = 0
            BY <1>7
        <3>. QED
            BY <1>6, <3>1
    <2>2. u = rest
        BY <1>7, Join
    <2>3. outcome = before
        BY <1>7
    <2>. HIDE DEF before, outcome, u, w
    <2>4. ASSUME before = "ok", y.error = "ok", y.got = n, Along(y, u, c)
          PROVE  Answers(y, x, outcome, t.body, u, c)
        <3>1. x = [y EXCEPT !.got = t.body] /\ outcome = "ok"
            BY <1>1, <1>7, <2>1, <2>3, <2>4
        <3>. QED
            BY <2>4, <3>1, Concludes
    <2>5. y.error # "ok" => x = y
        BY <1>1
    <2>6. Answers(r, x, outcome, t.body, u, c)
        BY <1>5, <2>3, <2>4, <2>5, ThenAnswers
    <2>. QED
        BY <2>2, <2>6 DEF x, outcome, before
<1>8. CASE t.body # <<>>
    <2>1. before = "ok" => n # 0
        <3>1. Len(t.body) # 0
            BY <1>3, <1>8 DEF Bytes
        <3>. QED
            BY <1>6, <3>1
    <2>. DEFINE mid == IF before # "ok" THEN before ELSE IF canAllocate THEN "ok" ELSE "memory"
    <2>2. outcome = mid
        BY <1>8
    <2>3. y.error # "ok" => x = y
        BY <1>1
    <2>4. before = "ok" /\ y.error = "ok" /\ y.got = n /\ outcome = "ok" => x = ReadNative(y, n)
        <3>1. before = "ok" /\ outcome = "ok" => canAllocate
            BY <2>2
        <3>. HIDE DEF before, outcome
        <3>. QED
            BY <1>1, <2>1, <3>1 DEF Allocated
    <2>5. before = "ok" /\ y.error = "ok" /\ y.got = n /\ outcome # "ok" => x = FlagError(y, outcome)
        <3>1. before = "ok" /\ outcome # "ok" => ~canAllocate /\ outcome = "memory"
            BY <2>2
        <3>. HIDE DEF before, outcome
        <3>. QED
            BY <1>1, <2>1, <3>1 DEF Allocated
    <2>6. before # "ok" => outcome = before
        BY <2>2
    <2>. HIDE DEF before, outcome
    <2>7. Answers(r, x, outcome, t.body, rest, c)
        BY <1>5, <1>6, <2>3, <2>4, <2>5, <2>6, BodyTaken
    <2>. QED
        BY <2>7 DEF x, outcome, before
<1>. QED
    BY <1>7, <1>8

------------------------------------------------------------------------------------
(* A str, byte by byte. *)

LEMMA ByteValue ==
    ASSUME NEW b \in Int
    PROVE  /\ Load(<<b>>) = b
           /\ b \in 0..(Base - 1) => AsInt(<<b>>) = (IF b >= Base \div 2 THEN b - Base ELSE b)
<1>. DEFINE k == <<b>>
<1>1. Len(k) = 1 /\ k[1] = b
    OBVIOUS
<1>. HIDE DEF k
<1>2. PICK f : f[0] = 0 /\ Load(k) = f[Len(k)] /\ \A i \in 1..Len(k) : f[i] = f[i - 1] * Base + k[i]
    <2>1. Len(k) \in Nat
        BY <1>1
    <2>. QED
        BY <2>1, LoadIs
<1>3. Load(k) = b
    <2>1. 1 \in 1..Len(k) /\ 1 - 1 = 0
        BY <1>1
    <2>2. f[1] = f[0] * Base + k[1]
        BY <1>2, <2>1
    <2>3. Base \in Nat
        BY BaseIs
    <2>. QED
        BY <1>1, <1>2, <2>2, <2>3
<1>4. Weight[1] = Base
    <2>1. 1 \in 1..8 /\ 1 - 1 = 0
        OBVIOUS
    <2>2. Weight[1] = Base * Weight[0] /\ Weight[0] = 1
        BY <2>1, WeightStep
    <2>. QED
        BY <2>2, BaseIs
<1>5. AsInt(k) = LET half == Base \div 2 IN IF b >= half THEN (b - half) - half ELSE b
    BY <1>1, <1>3, <1>4 DEF AsInt
<1>6. b \in 0..(Base - 1) => AsInt(k) = (IF b >= Base \div 2 THEN b - Base ELSE b)
    <2>. DEFINE half == Base \div 2
    <2>1. half \in Nat /\ Base = 2 * half
        BY BaseIs
    <2>. HIDE DEF half
    <2>2. (b - half) - half = b - Base
        BY <2>1
    <2>. QED
        BY <1>5, <2>2 DEF half
<1>. QED
    BY <1>3, <1>6 DEF k

\* One byte that is compared with a char.
Alike1(b, e) == b = e /\ AsInt(<<e>>) >= 0
LEMMA ByteMatched ==
    ASSUME NEW r, NEW b \in Octets, NEW rest \in Bytes, NEW c, Along(r, <<b>> \o rest, c), NEW e \in 0..(Base - 1)
    PROVE  Answers(r, MatchByte(r, e), IF Alike1(b, e) THEN "ok" ELSE "type", b, rest, c)
<1>. DEFINE k == <<b>>
            w == ExpectNative(r, 1)
            x == MatchByte(r, e)
            outcome == IF Alike1(b, e) THEN "ok" ELSE "type"
<1>1. x = IF w.error = "ok" THEN IF w.got = AsInt(<<e>>) THEN w ELSE FlagError(w, "type") ELSE w
    BY DEF MatchByte, Require, Then, Wrong
<1>2. b \in Int /\ b >= 0 /\ k \in Bytes /\ Len(k) = 1
    BY DEF Octets, Bytes
<1>3. Load(k) = b
    BY <1>2, ByteValue
<1>4. Gives(r, w, b, rest, c)
    <2>. DEFINE n == 1
    <2>1. n = Len(k) /\ n <= 9 /\ Along(r, k \o rest, c)
        BY <1>2
    <2>. HIDE DEF n, k
    <2>2. Gives(r, ExpectNative(r, n), Load(k), rest, c)
        BY <1>2, <2>1, NativeExpected
    <2>. QED
        BY <1>3, <2>2 DEF n
<1>5. Alike1(b, e) <=> b = AsInt(<<e>>)
    <2>1. e \in Int
        BY BaseIs
    <2>2. AsInt(<<e>>) = IF e >= Base \div 2 THEN e - Base ELSE e
        BY <2>1, ByteValue
    <2>3. e < Base
        BY BaseIs
    <2>. HIDE DEF k
    <2>. DEFINE a == AsInt(<<e>>)
    <2>4. a = e \/ (a = e - Base /\ a < 0)
        BY <2>1, <2>2, <2>3, BaseIs
    <2>. HIDE DEF a
    <2>. QED
        BY <1>2, <2>1, <2>3, <2>4, BaseIs DEF Alike1, a
<1>6. Answers(r, w, "ok", b, rest, c)
    BY <1>4 DEF Answers
<1>. HIDE DEF x, w
<1>7. w.error # "ok" => x = w
    BY <1>1
<1>8. w.error = "ok" /\ w.got = b /\ outcome = "ok" => x = w
    BY <1>1, <1>5
<1>9. w.error = "ok" /\ w.got = b /\ outcome # "ok" => x = FlagError(w, outcome)
    BY <1>1, <1>5
<1>. HIDE DEF outcome
<1>10. Answers(r, x, outcome, b, rest, c)
    BY <1>6, <1>7, <1>8, <1>9, Checked
<1>. QED
    BY <1>10 DEF x, outcome

NextMatch(s, byte) == Then(s, LAMBDA t : MatchByte(t, byte))

Matching(f, r, bytes, n) == f = [i \in 0..n |-> IF i = 0 THEN r ELSE NextMatch(f[i - 1], bytes[i])]

LEMMA MatchesExist ==
    ASSUME NEW r, NEW bytes, NEW n \in Nat
    PROVE  \E f : Matching(f, r, bytes, n)
<1>. DEFINE F(f, m) == [i \in 0..m |-> IF i = 0 THEN r ELSE NextMatch(f[i - 1], bytes[i])]
            S == {m \in Nat : ~\E f : f = F(f, m)}
<1>1. SUFFICES ASSUME S # {}
               PROVE  FALSE
    BY DEF Matching
<1>2. PICK m \in S : \A i \in S : m <= i
    BY <1>1, LeastNumber
<1>3. m # 0
    <2>1. [i \in 0..0 |-> r] = F([i \in 0..0 |-> r], 0)
        OBVIOUS
    <2>. QED
        BY <2>1
<1>4. m - 1 \in Nat /\ m - 1 \notin S
    <2>1. m \in Nat
        OBVIOUS
    <2>. HIDE DEF S
    <2>. QED
        BY <1>2, <1>3, <2>1
<1>5. PICK f : f = F(f, m - 1)
    BY <1>4
<1>. DEFINE next == [i \in 0..m |-> IF i = 0 THEN r ELSE NextMatch(f[i - 1], bytes[i])]
<1>6. \A i \in 0..(m - 1) : next[i] = f[i]
    <2>. SUFFICES ASSUME NEW i \in 0..(m - 1)
                  PROVE  next[i] = f[i]
        OBVIOUS
    <2>1. f[i] = IF i = 0 THEN r ELSE NextMatch(f[i - 1], bytes[i])
        BY <1>5
    <2>2. i \in 0..m
        OBVIOUS
    <2>. QED
        BY <2>1, <2>2
<1>7. next = F(next, m)
    <2>1. \A i \in 0..m : i # 0 => i - 1 \in 0..(m - 1)
        OBVIOUS
    <2>2. \A i \in 0..m : i # 0 => next[i - 1] = f[i - 1]
        <3>. HIDE DEF next
        <3>. QED
            BY <1>6, <2>1
    <2>. QED
        BY <2>2
<1>. QED
    BY <1>7

\* The first k bytes have been compared.
MatchedTo(r, u, body, text, rest, c, k) ==
    LET same == \A i \in 1..k : Alike1(body[i], text[i])
    IN  /\ same => Leaves(r, u, After(body, k) \o rest, c)
        /\ ~same => Refuses(r, u, "type", c)

LEMMA MatchedOnce ==
    ASSUME NEW r, NEW u, NEW body \in Bytes, NEW text \in Seq(0..(Base - 1)), Len(text) = Len(body), NEW rest \in Bytes,
           NEW c, NEW k \in 1..Len(body), MatchedTo(r, u, body, text, rest, c, k - 1)
    PROVE  MatchedTo(r, NextMatch(u, text[k]), body, text, rest, c, k)
<1>. DEFINE x == NextMatch(u, text[k])
            y == MatchByte(u, text[k])
            before == \A i \in 1..(k - 1) : Alike1(body[i], text[i])
            same == \A i \in 1..k : Alike1(body[i], text[i])
            b == body[k]
            e == text[k]
            u1 == After(body, k - 1) \o rest
            u2 == After(body, k) \o rest
<1>1. x = IF u.error = "ok" THEN y ELSE u
    BY DEF NextMatch, Then
<1>2. same <=> before /\ Alike1(b, e)
    <2>1. \A i : i \in 1..k <=> i \in 1..(k - 1) \/ i = k
        OBVIOUS
    <2>. QED
        BY <2>1
<1>3. /\ before => Leaves(r, u, u1, c)
      /\ ~before => Refuses(r, u, "type", c)
    BY DEF MatchedTo
<1>4. b \in Octets /\ e \in 0..(Base - 1)
    <2>1. k \in 1..Len(text)
        OBVIOUS
    <2>2. \A S : \A s \in Seq(S) : \A i \in 1..Len(s) : s[i] \in S
        OBVIOUS
    <2>. QED
        BY <2>1, <2>2 DEF Bytes
<1>5. u1 = <<b>> \o u2 /\ u2 \in Bytes
    <2>. DEFINE a == After(body, k - 1)
                d == After(body, k)
    <2>1. a \in Bytes /\ Len(a) = Len(body) - (k - 1) /\ d \in Bytes /\ Len(d) = Len(body) - k
        <3>1. k - 1 \in Nat /\ k - 1 <= Len(body) /\ k \in Nat /\ k <= Len(body)
            BY DEF Bytes
        <3>. QED
            BY <3>1, AfterIs
    <2>2. <<b>> \in Bytes /\ Len(<<b>>) = 1
        BY <1>4 DEF Bytes
    <2>3. a = <<b>> \o d
        <3>1. \A i \in 1..Len(a) : a[i] = body[k - 1 + i]
            BY <2>1 DEF After, Bytes
        <3>2. \A i \in 1..Len(d) : d[i] = body[k + i]
            BY <2>1 DEF After, Bytes
        <3>. DEFINE g == <<b>>
        <3>3. g[1] = b
            OBVIOUS
        <3>. HIDE DEF a, d, b, g
        <3>. DEFINE j == g \o d
        <3>4. j \in Bytes /\ Len(j) = Len(a) /\ (\A i \in 1..1 : j[i] = g[i]) /\ (\A i \in 1..Len(d) : j[1 + i] = d[i])
            <4>1. g \in Bytes /\ Len(g) = 1 /\ Len(body) \in Nat
                BY <2>2 DEF g, Bytes
            <4>2. j \in Bytes /\ Len(j) = Len(g) + Len(d) /\ (\A i \in 1..Len(g) : j[i] = g[i])
                  /\ (\A i \in 1..Len(d) : j[Len(g) + i] = d[i])
                BY <2>1, <4>1, Join
            <4>. HIDE DEF j
            <4>. QED
                BY <2>1, <4>1, <4>2
        <3>. HIDE DEF j
        <3>5. \A i \in 1..Len(a) : a[i] = j[i]
            <4>. SUFFICES ASSUME NEW i \in 1..Len(a)
                          PROVE  a[i] = j[i]
                OBVIOUS
            <4>0. Len(body) \in Nat
                BY DEF Bytes
            <4>1. CASE i = 1
                <5>1. j[i] = b
                    BY <3>3, <3>4, <4>1
                <5>2. a[i] = body[k]
                    BY <3>1, <4>1
                <5>. QED
                    BY <5>1, <5>2 DEF b
            <4>2. CASE i # 1
                <5>1. i - 1 \in 1..Len(d) /\ 1 + (i - 1) = i /\ k + (i - 1) = k - 1 + i
                    BY <2>1, <4>0, <4>2
                <5>2. j[i] = d[i - 1]
                    BY <3>4, <5>1
                <5>3. d[i - 1] = body[k - 1 + i]
                    BY <3>2, <5>1
                <5>. QED
                    BY <3>1, <5>2, <5>3
            <4>. QED
                BY <4>1, <4>2
        <3>6. a = [i \in 1..Len(a) |-> a[i]] /\ j = [i \in 1..Len(a) |-> j[i]]
            BY <2>1, <3>4 DEF Bytes
        <3>. QED
            BY <3>5, <3>6 DEF g, j
    <2>. HIDE DEF a, d, b
    <2>4. a \o rest = <<b>> \o (d \o rest) /\ d \o rest \in Bytes
        <3>. DEFINE g == <<b>>
        <3>. HIDE DEF g
        <3>1. (g \o d) \o rest = g \o (d \o rest)
            BY <2>1, <2>2, Rejoin DEF g
        <3>2. d \o rest \in Bytes
            BY <2>1, Join
        <3>. QED
            BY <2>3, <3>1, <3>2 DEF g
    <2>. QED
        BY <2>4 DEF a, d
<1>. HIDE DEF x, y, u1, u2, before, same, b, e
<1>6. CASE ~before
    <2>1. Refuses(r, u, "type", c) /\ u.error # "ok"
        BY <1>3, <1>6 DEF Refuses
    <2>. QED
        BY <1>1, <1>2, <1>6, <2>1 DEF MatchedTo, x, same
<1>7. CASE before /\ u.error # "ok"
    <2>1. Fed(u) /\ SameKind(r, u) /\ c
        BY <1>3, <1>7 DEF Leaves
    <2>2. x = u
        BY <1>1, <1>7
    <2>3. Leaves(r, x, u2, c) /\ Refuses(r, x, "type", c)
        BY <1>7, <2>1, <2>2 DEF Leaves, Refuses
    <2>. QED
        BY <2>3 DEF MatchedTo, x, u2
<1>8. CASE before /\ u.error = "ok"
    <2>1. SameKind(r, u) /\ Along(u, <<b>> \o u2, c)
        BY <1>3, <1>5, <1>8 DEF Leaves
    <2>2. Answers(u, MatchByte(u, e), IF Alike1(b, e) THEN "ok" ELSE "type", b, u2, c)
        BY <1>4, <1>5, <2>1, ByteMatched
    <2>3. x = MatchByte(u, e)
        BY <1>1, <1>8 DEF y, e
    <2>4. Alike1(b, e) => Leaves(r, x, u2, c)
        BY <2>1, <2>2, <2>3 DEF Answers, Gives, Leaves, SameKind
    <2>5. ~Alike1(b, e) => Refuses(r, x, "type", c)
        BY <2>1, <2>2, <2>3 DEF Answers, Refuses, SameKind
    <2>. QED
        BY <1>2, <1>8, <2>4, <2>5 DEF MatchedTo, x, u2, same
<1>. QED
    BY <1>6, <1>7, <1>8

\* A call whose result the caller does not look at.
LEMMA Ignored ==
    ASSUME NEW r, NEW x, NEW g, NEW rest, NEW c, NEW error
    PROVE  /\ Leaves(r, x, rest, c) => Gives(r, [x EXCEPT !.got = g], g, rest, c)
           /\ Refuses(r, x, error, c) => Refuses(r, [x EXCEPT !.got = g], error, c)
<1>. DEFINE y == [x EXCEPT !.got = g]
<1>1. Fed(x) => /\ Fed(y) /\ SameKind(x, y) /\ y.error = x.error /\ y.got = g
    BY Regotten
<1>2. Regets(x, y, g)
    BY DEF Regets
<1>. HIDE DEF y
<1>3. ASSUME Leaves(r, x, rest, c)
      PROVE  Gives(r, y, g, rest, c)
    <2>1. Fed(y) /\ SameKind(r, y) /\ y.error = x.error
        BY <1>1, <1>3 DEF Leaves, SameKind
    <2>2. y.error = "ok" => y.got = g /\ Along(y, rest, c)
        BY <1>2, <1>3, <2>1, AlongRefit DEF Leaves
    <2>. QED
        BY <1>3, <2>1, <2>2 DEF Leaves, Gives
<1>4. ASSUME Refuses(r, x, error, c)
      PROVE  Refuses(r, y, error, c)
    BY <1>1, <1>4 DEF Refuses, SameKind
<1>. QED
    BY <1>3, <1>4 DEF y

LEMMA MatchedAll ==
    ASSUME NEW r, NEW body \in Bytes, NEW text \in Seq(0..(Base - 1)), Len(text) = Len(body), NEW rest \in Bytes,
           NEW c, Along(r, body \o rest, c)
    PROVE  MatchedTo(r, MatchBytes(r, text), body, text, rest, c, Len(body))
<1>. DEFINE n == Len(text)
            F(f) == [i \in 0..n |-> IF i = 0 THEN r ELSE Then(f[i - 1], LAMBDA s : MatchByte(s, text[i]))]
            up == CHOOSE f : f = F(f)
            x == MatchBytes(r, text)
<1>1. n \in Nat
    OBVIOUS
<1>2. \E h : h = F(h)
    <2>. HIDE DEF n
    <2>1. \E h : Matching(h, r, text, n)
        BY <1>1, MatchesExist
    <2>. QED
        BY <2>1 DEF NextMatch, Matching
<1>3. up = F(up)
    <2>. HIDE DEF F
    <2>. QED
        BY <1>2
<1>4. x = up[n]
    BY DEF MatchBytes
<1>. HIDE DEF x, up
<1>5. up[0] = r /\ \A i \in 1..n : up[i] = NextMatch(up[i - 1], text[i])
    <2>. HIDE DEF n
    <2>1. 0 \in 0..n /\ \A i \in 1..n : i \in 0..n /\ i # 0
        BY <1>1
    <2>2. \A i \in 0..n : up[i] = IF i = 0 THEN r ELSE NextMatch(up[i - 1], text[i])
        BY <1>3 DEF NextMatch
    <2>. QED
        BY <2>1, <2>2
<1>. DEFINE T == {i \in 0..n : MatchedTo(r, up[i], body, text, rest, c, i)}
<1>6. 0 \in T
    <2>1. After(body, 0) = body
        <3>1. 0 \in Nat /\ Len(body) \in Nat /\ 0 <= Len(body)
            BY DEF Bytes
        <3>2. SubSeq(body, 1, Len(body)) = body
            BY SubSeqFull DEF Bytes
        <3>. QED
            BY <3>2 DEF After
    <2>. DEFINE u == body \o rest
    <2>2. Along(r, u, c)
        OBVIOUS
    <2>. HIDE DEF u
    <2>3. SameKind(r, r)
        BY DEF SameKind
    <2>4. Leaves(r, r, u, c)
        BY <2>2, <2>3 DEF Leaves, Along
    <2>5. \A i \in 1..0 : Alike1(body[i], text[i])
        OBVIOUS
    <2>6. MatchedTo(r, r, body, text, rest, c, 0)
        BY <2>1, <2>4, <2>5 DEF MatchedTo, u
    <2>. QED
        BY <1>1, <1>5, <2>6
<1>7. ASSUME NEW i \in 1..n, i - 1 \in T
      PROVE  i \in T
    <2>1. i \in 1..Len(body)
        OBVIOUS
    <2>2. MatchedTo(r, up[i - 1], body, text, rest, c, i - 1)
        BY <1>7
    <2>3. MatchedTo(r, NextMatch(up[i - 1], text[i]), body, text, rest, c, i)
        BY <2>1, <2>2, MatchedOnce
    <2>. QED
        BY <1>1, <1>5, <2>3
<1>. HIDE DEF T
<1>8. \A i \in 0..n : i \in T
    BY <1>1, <1>6, <1>7, AllTheWay
<1>9. n \in T
    BY <1>1, <1>8
<1>. QED
    BY <1>4, <1>9 DEF T, x

\* A str that is compared with a text, byte by byte.
LEMMA TextExpected ==
    ASSUME NEW r, NEW t, Sensible(t), NEW rest \in Bytes, NEW c, Along(r, Spelled(t) \o rest, c),
           NEW text \in Seq(0..(Base - 1))
    PROVE  LET same == t.tag.type = "str" /\ t.body = text /\ \A i \in DOMAIN text : AsInt(<<text[i]>>) >= 0
           IN  Answers(r, [ExpectStrMatch(r, text) EXCEPT !.got = <<>>],
                       IF same THEN "ok" ELSE "type", <<>>, rest, c)
<1>. DEFINE n == t.tag.value
            body == t.body
            u == body \o rest
            same == t.tag.type = "str" /\ body = text /\ \A i \in DOMAIN text : AsInt(<<text[i]>>) >= 0
            before == IF t.tag.type = "str" THEN "ok" ELSE "type"
            mid == IF t.tag.type = "str" /\ Len(body) = Len(text) THEN "ok" ELSE "type"
            y == ExpectStr(r)
            z == IF y.error = "ok" THEN IF y.got = Len(text) THEN y ELSE FlagError(y, "type") ELSE y
            x == ExpectStrMatch(r, text)
            m == MatchBytes(z, text)
            outcome == IF same THEN "ok" ELSE "type"
            fin == [x EXCEPT !.got = <<>>]
<1>0. SUFFICES Answers(r, fin, outcome, <<>>, rest, c)
    OBVIOUS
<1>1. x = IF z.error = "ok" THEN m ELSE z
    BY DEF ExpectStrMatch, Require, Then, Wrong
<1>2. Answers(r, y, before, n, u, c)
    BY StrExpected
<1>3. t.tag.type = "str" => n = Len(body)
    BY DEF Sensible, HasBody
<1>4. body \in Bytes
    BY TokenTag
<1>. HIDE DEF x, y, n
<1>5. Answers(r, z, mid, n, u, c)
    <2>1. y.error # "ok" => z = y
        OBVIOUS
    <2>2. before # "ok" => mid = before
        OBVIOUS
    <2>3. before = "ok" /\ y.error = "ok" /\ y.got = n /\ mid = "ok" => z = y
        BY <1>3
    <2>4. before = "ok" /\ y.error = "ok" /\ y.got = n /\ mid # "ok" => z = FlagError(y, mid)
        BY <1>3
    <2>. HIDE DEF before, mid, z, u
    <2>. QED
        BY <1>2, <2>1, <2>2, <2>3, <2>4, Checked
<1>6. mid = "ok" => (same <=> \A i \in 1..Len(body) : Alike1(body[i], text[i]))
    <2>. SUFFICES ASSUME mid = "ok"
                  PROVE  same <=> \A i \in 1..Len(body) : Alike1(body[i], text[i])
        OBVIOUS
    <2>1. t.tag.type = "str" /\ Len(body) = Len(text) /\ DOMAIN text = 1..Len(body)
        OBVIOUS
    <2>2. (\A i \in 1..Len(body) : body[i] = text[i]) => body = text
        <3>. HIDE DEF body
        <3>0. \A S : \A s \in Seq(S) : s = [i \in 1..Len(s) |-> s[i]]
            OBVIOUS
        <3>1. body = [i \in 1..Len(body) |-> body[i]] /\ text = [i \in 1..Len(text) |-> text[i]]
            BY <1>4, <3>0 DEF Bytes
        <3>. QED
            BY <2>1, <3>1
    <2>. HIDE DEF body
    <2>. QED
        BY <2>1, <2>2 DEF Alike1
<1>7. mid # "ok" => mid = "type" /\ outcome = "type"
    <2>1. body = text => Len(body) = Len(text)
        OBVIOUS
    <2>. HIDE DEF body
    <2>. QED
        BY <2>1
<1>. HIDE DEF z, mid, same
<1>8. CASE mid # "ok"
    <2>1. Refuses(r, z, "type", c)
        BY <1>5, <1>7, <1>8 DEF Answers
    <2>2. Refuses(r, x, "type", c)
        BY <1>1, <2>1 DEF Refuses
    <2>3. Refuses(r, fin, "type", c)
        BY <2>2, Ignored
    <2>. QED
        BY <1>7, <1>8, <2>3 DEF Answers
<1>9. CASE mid = "ok"
    <2>1. Gives(r, z, n, u, c)
        BY <1>5, <1>9 DEF Answers
    <2>2. Len(text) = Len(body)
        BY <1>9 DEF mid
    <2>. HIDE DEF body, fin
    <2>3. ASSUME z.error = "ok", Along(z, u, c)
          PROVE  /\ same => Leaves(z, m, rest, c)
                 /\ ~same => Refuses(z, m, "type", c)
        <3>1. MatchedTo(z, m, body, text, rest, c, Len(body))
            BY <1>4, <2>2, <2>3, MatchedAll
        <3>2. After(body, Len(body)) \o rest = rest
            <4>1. Len(body) \in Nat /\ Len(body) <= Len(body)
                BY <1>4 DEF Bytes
            <4>2. After(body, Len(body)) = <<>>
                BY <1>4, <4>1, AfterIs
            <4>. QED
                BY <4>2, Join
        <3>. QED
            BY <1>6, <1>9, <3>1, <3>2 DEF MatchedTo
    <2>4. Fed(z) /\ SameKind(r, z) /\ (~c => z.error = "ok")
        BY <2>1 DEF Gives
    <2>. HIDE DEF m, u
    <2>5. same => Leaves(r, x, rest, c)
        BY <1>1, <2>1, <2>3, <2>4 DEF Gives, Leaves, SameKind
    <2>6. ~same => Refuses(r, x, "type", c)
        BY <1>1, <2>1, <2>3, <2>4 DEF Gives, Refuses, SameKind
    <2>7. same => Gives(r, fin, <<>>, rest, c)
        BY <2>5, Ignored DEF fin
    <2>8. ~same => Refuses(r, fin, "type", c)
        BY <2>6, Ignored DEF fin
    <2>. QED
        BY <2>7, <2>8 DEF Answers
<1>. QED
    BY <1>8, <1>9

------------------------------------------------------------------------------------
(* One object after the other. *)

LEMMA StreamShorter ==
    ASSUME NEW r, Fed(r), NEW x, Fed(x), NEW a \in Bytes, Stream(r) = a \o Stream(x)
    PROVE  Len(Stream(x)) = Len(Stream(r)) - Len(a) /\ Len(a) \in Nat /\ Len(Stream(x)) \in Nat /\ Len(Stream(r)) \in Nat
<1>1. Stream(x) \in Bytes /\ Stream(r) \in Bytes
    BY StreamBytes
<1>2. \A s \in Bytes : s \in Seq(Octets)
    BY DEF Bytes
<1>. DEFINE s == Stream(x)
<1>. HIDE DEF s
<1>3. a \in Seq(Octets) /\ s \in Seq(Octets)
    BY <1>1, <1>2 DEF s
<1>4. Len(a \o s) = Len(a) + Len(s) /\ Len(a) \in Nat /\ Len(s) \in Nat
    BY <1>3
<1>. QED
    BY <1>4 DEF s

LEMMA TagShrinks ==
    ASSUME NEW r, NEW t, Sensible(t), t.tag.type # "ext", NEW rest \in Bytes, NEW c, Along(r, Spelled(t) \o rest, c),
           ReadTag(r).error = "ok"
    PROVE  Len(Stream(ReadTag(r))) < Len(Stream(r)) /\ Len(Stream(ReadTag(r))) \in Nat /\ Len(Stream(r)) \in Nat
<1>1. /\ t.tag \in Tags /\ t.body \in Bytes /\ Spelled(t) = Encode(t.tag) \o t.body
      /\ Encode(t.tag) \in Bytes /\ Encode(t.tag) # <<>>
    BY TokenTag
<1>2. t.body \o rest \in Bytes
    BY TokenRead
<1>3. Along(r, Encode(t.tag) \o (t.body \o rest), c)
    BY <1>1, AlongAgain
<1>4. Gives(r, ReadTag(r), t.tag, t.body \o rest, c) /\ Stream(r) = Encode(t.tag) \o Stream(ReadTag(r))
    BY <1>1, <1>2, <1>3, TagAlong
<1>5. Fed(r) /\ Fed(ReadTag(r))
    BY <1>4, AlongParts DEF Gives
<1>6. Len(Stream(ReadTag(r))) = Len(Stream(r)) - Len(Encode(t.tag)) /\ Len(Stream(ReadTag(r))) \in Nat /\ Len(Stream(r)) \in Nat
    BY <1>1, <1>4, <1>5, StreamShorter
<1>7. Len(Encode(t.tag)) \in Nat /\ Len(Encode(t.tag)) > 0
    BY <1>1 DEF Bytes
<1>. QED
    BY <1>6, <1>7

LEMMA SkipShrinks ==
    ASSUME NEW y, Fed(y), y.error = "ok", NEW n \in Nat, SkipBytes(y, n).error = "ok"
    PROVE  Len(Stream(SkipBytes(y, n))) <= Len(Stream(y)) /\ Len(Stream(SkipBytes(y, n))) \in Nat
<1>. DEFINE x == SkipBytes(y, n)
<1>1. Eats(y, x, n)
    BY Skipping
<1>. HIDE DEF x
<1>2. SUFFICES Len(Stream(x)) <= Len(Stream(y)) /\ Len(Stream(x)) \in Nat
    BY DEF x
<1>3. x.error = "ok"
    BY DEF x
<1>4. Fed(x)
    BY <1>1 DEF Eats
<1>5. Len(Stream(y)) \in Nat
    BY StreamBytes
<1>6. CASE \E a \in Bytes : Len(a) = n /\ Stream(y) = a \o Stream(x)
    <2>1. PICK a \in Bytes : Stream(y) = a \o Stream(x)
        BY <1>6
    <2>. QED
        BY <2>1, <1>4, StreamShorter
<1>7. CASE Stream(x) = <<>>
    BY <1>5, <1>7
<1>. QED
    BY <1>1, <1>3, <1>6, <1>7 DEF Eats

LEMMA DiscardOnce ==
    ASSUME NEW r, NEW t, Sensible(t), NEW rest \in Bytes, NEW c, Along(r, Spelled(t) \o rest, c),
           NEW o, NEW q, q = DiscardObject([r |-> r, objects |-> o])
    PROVE  /\ t.tag.type = "ext" => Refuses(r, q.r, "unsupported", c)
           /\ t.tag.type # "ext" =>
                /\ Leaves(r, q.r, rest, c)
                /\ q.r.error = "ok" => /\ q.objects = o - 1 + Holding(t.tag)
                                       /\ Len(Stream(q.r)) < Len(Stream(r))
                                       /\ Len(Stream(q.r)) \in Nat /\ Len(Stream(r)) \in Nat
<1>. DEFINE y == ReadTag(r)
<1>1. /\ q.r = IF HasBody(y.got) THEN SkipBytes(y, y.got.value) ELSE y
      /\ q.objects = o - 1 + Holding(y.got)
    BY DEF DiscardObject
<1>2. y.error # "ok" => q.r = y
    BY <1>1 DEF SkipBytes
<1>3. /\ t.tag.type # "ext" => Gives(r, y, t.tag, t.body \o rest, c)
      /\ t.tag.type = "ext" => Refuses(r, y, "unsupported", c)
    BY TokenRead
<1>4. t.tag.type # "ext" /\ y.error = "ok" =>
        Len(Stream(y)) < Len(Stream(r)) /\ Len(Stream(y)) \in Nat /\ Len(Stream(r)) \in Nat
    BY TagShrinks
<1>. HIDE DEF y
<1>5. CASE t.tag.type = "ext"
    BY <1>2, <1>3, <1>5 DEF Refuses
<1>6. CASE t.tag.type # "ext" /\ y.error # "ok"
    BY <1>2, <1>3, <1>6 DEF Gives, Leaves
<1>7. CASE t.tag.type # "ext" /\ y.error = "ok"
    <2>1. Fed(y) /\ SameKind(r, y) /\ y.got = t.tag /\ Along(y, t.body \o rest, c)
        BY <1>3, <1>7 DEF Gives
    <2>2. q.objects = o - 1 + Holding(t.tag)
        BY <1>1, <2>1
    <2>3. t.body \in Bytes
        BY TokenTag
    <2>4. Leaves(y, q.r, rest, c) /\ (q.r.error = "ok" => Len(Stream(q.r)) <= Len(Stream(y)) /\ Len(Stream(q.r)) \in Nat)
        <3>1. CASE HasBody(t.tag)
            <4>1. t.tag.value = Len(t.body) /\ Len(t.body) \in Nat
                BY <2>3, <3>1 DEF Sensible, Bytes
            <4>2. q.r = SkipBytes(y, Len(t.body))
                BY <1>1, <2>1, <3>1, <4>1
            <4>3. Leaves(y, SkipBytes(y, Len(t.body)), rest, c)
                BY <2>1, <2>3, SkipAlong
            <4>. QED
                BY <1>7, <2>1, <4>1, <4>2, <4>3, SkipShrinks
        <3>2. CASE ~HasBody(t.tag)
            <4>1. t.body = <<>>
                BY <1>7, <3>2 DEF Sensible
            <4>2. t.body \o rest = rest
                BY <4>1 DEF Bytes
            <4>3. q.r = y
                BY <1>1, <2>1, <3>2
            <4>4. Along(y, rest, c)
                BY <2>1, <4>2
            <4>5. Leaves(y, y, rest, c)
                BY <2>1, <1>7, <4>4 DEF Leaves, SameKind
            <4>. QED
                BY <1>4, <1>7, <4>3, <4>5
        <3>. QED
            BY <3>1, <3>2
    <2>5. Leaves(r, q.r, rest, c)
        BY <2>1, <2>4 DEF Leaves, SameKind
    <2>6. q.r.error = "ok" => Len(Stream(q.r)) < Len(Stream(r))
        <3>. DEFINE a == Len(Stream(q.r))
                    b == Len(Stream(y))
                    d == Len(Stream(r))
        <3>1. q.r.error = "ok" => a <= b /\ a \in Nat
            BY <2>4
        <3>2. b < d /\ b \in Nat /\ d \in Nat
            BY <1>4, <1>7
        <3>. HIDE DEF a, b, d
        <3>3. q.r.error = "ok" => a < d
            BY <3>1, <3>2
        <3>. QED
            BY <3>3 DEF a, d
    <2>. QED
        BY <1>4, <1>7, <2>2, <2>4, <2>5, <2>6
<1>. QED
    BY <1>5, <1>6, <1>7

NextDiscard(p) == IF p.objects = 0 \/ p.r.error # "ok" THEN p ELSE DiscardObject(p)
Discarding(f, r, n) == f = [i \in 0..n |-> IF i = 0 THEN [r |-> r, objects |-> 1] ELSE NextDiscard(f[i - 1])]

LEMMA DiscardsExist ==
    ASSUME NEW r, NEW n \in Nat
    PROVE  \E f : Discarding(f, r, n)
<1>. DEFINE p0 == [r |-> r, objects |-> 1]
            F(f, m) == [i \in 0..m |-> IF i = 0 THEN p0 ELSE NextDiscard(f[i - 1])]
            S == {m \in Nat : ~\E f : f = F(f, m)}
<1>1. SUFFICES ASSUME S # {}
               PROVE  FALSE
    BY DEF Discarding
<1>. HIDE DEF p0
<1>2. PICK m \in S : \A i \in S : m <= i
    BY <1>1, LeastNumber
<1>3. m # 0
    <2>1. [i \in 0..0 |-> p0] = F([i \in 0..0 |-> p0], 0)
        OBVIOUS
    <2>. QED
        BY <2>1
<1>4. m - 1 \in Nat /\ m - 1 \notin S
    <2>1. m \in Nat
        OBVIOUS
    <2>. HIDE DEF S
    <2>. QED
        BY <1>2, <1>3, <2>1
<1>5. PICK f : f = F(f, m - 1)
    BY <1>4
<1>. DEFINE next == [i \in 0..m |-> IF i = 0 THEN p0 ELSE NextDiscard(f[i - 1])]
<1>6. \A i \in 0..(m - 1) : next[i] = f[i]
    <2>. SUFFICES ASSUME NEW i \in 0..(m - 1)
                  PROVE  next[i] = f[i]
        OBVIOUS
    <2>1. f[i] = IF i = 0 THEN p0 ELSE NextDiscard(f[i - 1])
        BY <1>5
    <2>2. i \in 0..m
        OBVIOUS
    <2>. QED
        BY <2>1, <2>2
<1>7. next = F(next, m)
    <2>1. \A i \in 0..m : i # 0 => i - 1 \in 0..(m - 1)
        OBVIOUS
    <2>2. \A i \in 0..m : i # 0 => next[i - 1] = f[i - 1]
        <3>. HIDE DEF next
        <3>. QED
            BY <1>6, <2>1
    <2>. QED
        BY <2>2
<1>. QED
    BY <1>7

\* The tokens of one object, what is left of the wire after each of them and how many
\* objects are then still to come.
Object(ts, left, owed, k) ==
    /\ k \in Nat /\ owed[0] = 1 /\ owed[k] = 0
    /\ \A i \in 1..k : /\ Sensible(ts[i]) /\ left[i] \in Bytes /\ left[i - 1] = Spelled(ts[i]) \o left[i]
                       /\ owed[i] = owed[i - 1] - 1 + Holding(ts[i].tag)
                       /\ owed[i - 1] # 0
Known(ts, j) == \A i \in 1..j : ts[i].tag.type # "ext"

\* j tokens are gone.
DiscardedTo(r, p, ts, left, owed, c, j) ==
    /\ Known(ts, j) => /\ Leaves(r, p.r, left[j], c)
                       /\ p.r.error = "ok" => p.objects = owed[j] /\ Len(Stream(p.r)) + j <= Len(Stream(r))
    /\ ~Known(ts, j) => Refuses(r, p.r, "unsupported", c)

LEMMA DiscardedOnce ==
    ASSUME NEW r, Fed(r), NEW p, NEW ts, NEW left, NEW owed, NEW c, NEW k, Object(ts, left, owed, k), NEW j \in 1..k,
           DiscardedTo(r, p, ts, left, owed, c, j - 1)
    PROVE  DiscardedTo(r, NextDiscard(p), ts, left, owed, c, j)
<1>. DEFINE t == ts[j]
            q == NextDiscard(p)
<1>1. /\ Sensible(t) /\ left[j] \in Bytes /\ left[j - 1] = Spelled(t) \o left[j]
      /\ owed[j] = owed[j - 1] - 1 + Holding(t.tag) /\ owed[j - 1] # 0
    BY DEF Object
<1>2. Known(ts, j) <=> Known(ts, j - 1) /\ t.tag.type # "ext"
    <2>0. k \in Nat
        BY DEF Object
    <2>1. \A i \in 1..j : i \in 1..(j - 1) \/ i = j
        BY <2>0
    <2>2. \A i \in 1..(j - 1) : i \in 1..j
        BY <2>0
    <2>3. j \in 1..j
        BY <2>0
    <2>. QED
        BY <2>1, <2>2, <2>3 DEF Known
<1>3. p.r.error # "ok" => q = p
    BY DEF NextDiscard
<1>4. ASSUME p.r.error = "ok"
      PROVE  /\ Known(ts, j - 1) /\ Along(p.r, Spelled(t) \o left[j], c) /\ Fed(p.r) /\ SameKind(r, p.r)
             /\ p.objects = owed[j - 1] /\ Len(Stream(p.r)) + (j - 1) <= Len(Stream(r))
             /\ q = DiscardObject([r |-> p.r, objects |-> owed[j - 1]])
    <2>1. Known(ts, j - 1)
        BY <1>4 DEF DiscardedTo, Refuses
    <2>2. Leaves(r, p.r, left[j - 1], c) /\ p.objects = owed[j - 1] /\ Len(Stream(p.r)) + (j - 1) <= Len(Stream(r))
        BY <1>4, <2>1 DEF DiscardedTo
    <2>3. q = DiscardObject(p)
        BY <1>1, <1>4, <2>2 DEF NextDiscard
    <2>4. q = DiscardObject([r |-> p.r, objects |-> owed[j - 1]])
        BY <2>2, <2>3 DEF DiscardObject
    <2>. QED
        BY <1>1, <1>4, <2>1, <2>2, <2>4 DEF Leaves
<1>. HIDE DEF q, t
<1>5. CASE p.r.error # "ok"
    <2>1. Fed(p.r) /\ SameKind(r, p.r) /\ (~c => ~Known(ts, j - 1) /\ p.r.error = "unsupported")
        BY <1>5 DEF DiscardedTo, Leaves, Refuses
    <2>2. DiscardedTo(r, p, ts, left, owed, c, j)
        BY <1>2, <1>5, <2>1 DEF DiscardedTo, Leaves, Refuses
    <2>. QED
        BY <1>3, <1>5, <2>2 DEF q
<1>6. CASE p.r.error = "ok"
    <2>1. /\ Known(ts, j - 1) /\ Along(p.r, Spelled(t) \o left[j], c) /\ Fed(p.r) /\ SameKind(r, p.r)
          /\ p.objects = owed[j - 1] /\ Len(Stream(p.r)) + (j - 1) <= Len(Stream(r))
          /\ q = DiscardObject([r |-> p.r, objects |-> owed[j - 1]])
        BY <1>4, <1>6
    <2>2. /\ t.tag.type = "ext" => Refuses(p.r, q.r, "unsupported", c)
          /\ t.tag.type # "ext" =>
                /\ Leaves(p.r, q.r, left[j], c)
                /\ q.r.error = "ok" => /\ q.objects = owed[j - 1] - 1 + Holding(t.tag)
                                       /\ Len(Stream(q.r)) < Len(Stream(p.r))
                                       /\ Len(Stream(q.r)) \in Nat /\ Len(Stream(p.r)) \in Nat
        BY <1>1, <2>1, DiscardOnce
    <2>3. CASE t.tag.type = "ext"
        <3>1. Refuses(r, q.r, "unsupported", c)
            BY <2>1, <2>2, <2>3 DEF Refuses, SameKind
        <3>. QED
            BY <1>2, <2>3, <3>1 DEF DiscardedTo, q
    <2>4. CASE t.tag.type # "ext"
        <3>1. Leaves(r, q.r, left[j], c)
            BY <2>1, <2>2, <2>4 DEF Leaves, SameKind
        <3>2. Len(Stream(r)) \in Nat
            BY StreamBytes
        <3>3. q.r.error = "ok" => q.objects = owed[j] /\ Len(Stream(q.r)) + j <= Len(Stream(r))
            <4>. DEFINE x == Len(Stream(q.r))
                        y == Len(Stream(p.r))
                        z == Len(Stream(r))
            <4>1. y + (j - 1) <= z /\ z \in Nat
                BY <2>1, <3>2
            <4>2. q.r.error = "ok" => x < y /\ x \in Nat /\ y \in Nat /\ q.objects = owed[j]
                BY <1>1, <2>2, <2>4
            <4>. HIDE DEF x, y, z
            <4>3. j \in Int
                BY DEF Object
            <4>4. q.r.error = "ok" => x + j <= z
                BY <4>1, <4>2, <4>3
            <4>. QED
                BY <4>2, <4>4 DEF x, z
        <3>. QED
            BY <1>2, <2>1, <2>4, <3>1, <3>3 DEF DiscardedTo, q
    <2>. QED
        BY <2>3, <2>4
<1>. QED
    BY <1>5, <1>6

LEMMA KnownMore ==
    ASSUME NEW ts, NEW i \in Nat, NEW k \in Nat, i <= k, Known(ts, k)
    PROVE  Known(ts, i)
<1>1. \A j \in 1..i : j \in 1..k
    OBVIOUS
<1>. QED
    BY <1>1 DEF Known

\* The loop takes a step for every byte there is, and one.
DiscardRun(r, up, n) ==
    /\ n = Len(Stream(r)) + 1 /\ Discard(r) = up[n].r
    /\ up[0] = [r |-> r, objects |-> 1] /\ \A i \in 1..n : up[i] = NextDiscard(up[i - 1])

LEMMA DiscardRuns ==
    ASSUME NEW r, Fed(r)
    PROVE  Len(Stream(r)) \in Nat /\ \E up : DiscardRun(r, up, Len(Stream(r)) + 1)
<1>. DEFINE n == Len(r.data) + Len(r.source) + 1
            F(f) == [i \in 0..n |->
                IF i = 0 THEN [r |-> r, objects |-> 1]
                ELSE LET p == f[i - 1] IN IF p.objects = 0 \/ p.r.error # "ok" THEN p ELSE DiscardObject(p)]
            up == CHOOSE f : f = F(f)
            x == Discard(r)
<1>1. n \in Nat /\ n = Len(Stream(r)) + 1 /\ Len(Stream(r)) \in Nat
    <2>1. Len(Stream(r)) = Len(r.data) + Len(r.source) /\ Len(r.data) \in Nat /\ Len(r.source) \in Nat
        BY StreamBytes
    <2>. DEFINE a == Len(r.data)
                b == Len(r.source)
                d == Len(Stream(r))
    <2>2. n = a + b + 1
        OBVIOUS
    <2>3. d = a + b /\ a \in Nat /\ b \in Nat
        BY <2>1
    <2>. HIDE DEF n, a, b, d
    <2>4. n \in Nat /\ n = d + 1 /\ d \in Nat
        BY <2>2, <2>3
    <2>. QED
        BY <2>4 DEF d
<1>2. \E h : h = F(h)
    <2>. HIDE DEF n
    <2>1. \E h : Discarding(h, r, n)
        BY <1>1, DiscardsExist
    <2>. QED
        BY <2>1 DEF NextDiscard, Discarding
<1>3. up = F(up)
    <2>. HIDE DEF F
    <2>. QED
        BY <1>2
<1>4. x = up[n].r
    BY DEF Discard
<1>. HIDE DEF x, up
<1>5. up[0] = [r |-> r, objects |-> 1] /\ \A i \in 1..n : up[i] = NextDiscard(up[i - 1])
    <2>. HIDE DEF n
    <2>1. 0 \in 0..n /\ \A i \in 1..n : i \in 0..n /\ i # 0
        BY <1>1
    <2>2. \A i \in 0..n : up[i] = IF i = 0 THEN [r |-> r, objects |-> 1] ELSE NextDiscard(up[i - 1])
        BY <1>3 DEF NextDiscard
    <2>. QED
        BY <2>1, <2>2
<1>. HIDE DEF n, F
<1>6. DiscardRun(r, up, n)
    BY <1>1, <1>4, <1>5 DEF DiscardRun, x
<1>. QED
    BY <1>1, <1>6

\* In an error state nothing is read.
LEMMA DiscardStops ==
    ASSUME NEW r, Fed(r), r.error # "ok"
    PROVE  Discard(r) = r
<1>. DEFINE n == Len(Stream(r)) + 1
<1>1. n \in Nat
    BY DiscardRuns
<1>2. PICK up : DiscardRun(r, up, n)
    BY DiscardRuns
<1>. HIDE DEF n
<1>. DEFINE S == {i \in Nat : i \in 0..n /\ up[i].r # r}
<1>3. S = {}
    <2>1. SUFFICES ASSUME S # {} PROVE FALSE
        OBVIOUS
    <2>2. PICK m \in S : \A i \in S : m <= i
        BY <2>1, LeastNumber
    <2>3. m \in 0..n /\ up[m].r # r /\ m \in Nat
        OBVIOUS
    <2>4. m # 0
        BY <1>2, <2>3 DEF DiscardRun
    <2>5. m \in 1..n /\ m - 1 \in 0..n /\ m - 1 \in Nat
        BY <1>1, <2>3, <2>4
    <2>6. up[m - 1].r = r
        <3>1. m - 1 \notin S
            <4>. HIDE DEF S
            <4>. QED
                BY <2>2, <2>3
        <3>. QED
            BY <2>5, <3>1
    <2>7. up[m] = NextDiscard(up[m - 1])
        BY <1>2, <2>5 DEF DiscardRun
    <2>. QED
        BY <2>3, <2>6, <2>7 DEF NextDiscard
<1>4. n \notin S
    BY <1>3
<1>. QED
    BY <1>1, <1>2, <1>4 DEF DiscardRun

\* What is left when the loop ends: the object is gone.
LEMMA DiscardsAll ==
    ASSUME NEW r, NEW ts, NEW left, NEW owed, NEW c, NEW k, Object(ts, left, owed, k), Along(r, left[0], c)
    PROVE  /\ Known(ts, k) => Leaves(r, Discard(r), left[k], c)
           /\ ~Known(ts, k) => Refuses(r, Discard(r), "unsupported", c)
<1>. DEFINE n == Len(Stream(r)) + 1
            x == Discard(r)
<1>0. Fed(r) /\ k \in Nat
    BY DEF Object, Along
<1>1. n \in Nat /\ n = Len(Stream(r)) + 1 /\ Len(Stream(r)) \in Nat
    BY <1>0, DiscardRuns
<1>2. PICK up : DiscardRun(r, up, n)
    BY <1>0, DiscardRuns
<1>. HIDE DEF n
<1>4. x = up[n].r
    BY <1>2 DEF DiscardRun
<1>5. up[0] = [r |-> r, objects |-> 1] /\ \A i \in 1..n : up[i] = NextDiscard(up[i - 1])
    BY <1>2 DEF DiscardRun
<1>. HIDE DEF x
<1>. DEFINE T == {i \in 0..n : DiscardedTo(r, up[i], ts, left, owed, c, Lesser(i, k))}
<1>6. 0 \in T
    <2>1. Known(ts, 0)
        BY DEF Known
    <2>2. up[0].r = r /\ up[0].objects = 1
        BY <1>5
    <2>3. SameKind(r, r)
        BY DEF SameKind
    <2>4. Leaves(r, r, left[0], c)
        BY <1>0, <2>3 DEF Leaves, Along
    <2>5. Len(Stream(r)) + 0 <= Len(Stream(r))
        BY <1>1
    <2>6. owed[0] = 1
        BY DEF Object
    <2>7. DiscardedTo(r, up[0], ts, left, owed, c, 0)
        BY <2>1, <2>2, <2>4, <2>5, <2>6 DEF DiscardedTo
    <2>8. Lesser(0, k) = 0 /\ 0 \in 0..n
        BY <1>0, <1>1 DEF Lesser
    <2>. QED
        BY <2>7, <2>8
<1>7. ASSUME NEW i \in 1..n, i - 1 \in T
      PROVE  i \in T
    <2>1. DiscardedTo(r, up[i - 1], ts, left, owed, c, Lesser(i - 1, k)) /\ up[i] = NextDiscard(up[i - 1])
        BY <1>5, <1>7
    <2>. DEFINE p == up[i - 1]
    <2>2. i \in 0..n /\ i \in Int
        BY <1>1
    <2>. HIDE DEF p
    <2>3. CASE i <= k
        <3>1. Lesser(i - 1, k) = i - 1 /\ Lesser(i, k) = i /\ i \in 1..k
            BY <1>0, <2>2, <2>3 DEF Lesser
        <3>2. DiscardedTo(r, p, ts, left, owed, c, i - 1)
            BY <2>1, <3>1 DEF p
        <3>3. DiscardedTo(r, NextDiscard(p), ts, left, owed, c, i)
            BY <1>0, <3>1, <3>2, DiscardedOnce
        <3>. QED
            BY <2>1, <2>2, <3>1, <3>3 DEF p
    <2>4. CASE i > k
        <3>1. Lesser(i - 1, k) = k /\ Lesser(i, k) = k
            BY <1>0, <2>2, <2>4 DEF Lesser
        <3>2. DiscardedTo(r, p, ts, left, owed, c, k)
            BY <2>1, <3>1 DEF p
        <3>3. NextDiscard(p) = p
            <4>1. owed[k] = 0
                BY DEF Object
            <4>2. p.r.error = "ok" => p.objects = 0
                BY <3>2, <4>1 DEF DiscardedTo, Refuses
            <4>. QED
                BY <4>2 DEF NextDiscard
        <3>. QED
            BY <2>1, <2>2, <3>1, <3>2, <3>3 DEF p
    <2>. QED
        BY <1>0, <2>2, <2>3, <2>4
<1>8. n \in T
    <2>. DEFINE S == {i \in Nat : i \in 0..n /\ i \notin T}
    <2>1. SUFFICES ASSUME S # {} PROVE FALSE
        BY <1>1
    <2>2. PICK m \in S : \A i \in S : m <= i
        BY <2>1, LeastNumber
    <2>3. m \in 0..n /\ m \notin T /\ m \in Nat
        OBVIOUS
    <2>4. m # 0
        BY <1>6, <2>3
    <2>5. m - 1 \in 0..n /\ m \in 1..n /\ m - 1 \in Nat
        BY <1>1, <2>3, <2>4
    <2>6. m - 1 \in T
        <3>. HIDE DEF T
        <3>1. m - 1 \notin S
            <4>. HIDE DEF S
            <4>. QED
                BY <2>2, <2>3
        <3>. QED
            BY <2>5, <3>1
    <2>. HIDE DEF T
    <2>. QED
        BY <1>7, <2>3, <2>5, <2>6
<1>9. DiscardedTo(r, up[n], ts, left, owed, c, Lesser(n, k))
    BY <1>8
<1>. DEFINE p == up[n]
<1>. HIDE DEF p
<1>10. CASE k <= n
    <2>1. Lesser(n, k) = k
        BY <1>0, <1>1, <1>10 DEF Lesser
    <2>2. DiscardedTo(r, p, ts, left, owed, c, k)
        BY <1>9, <2>1 DEF p
    <2>. QED
        BY <1>4, <2>2 DEF DiscardedTo, x, p
<1>11. CASE k > n
    <2>1. Lesser(n, k) = n
        BY <1>0, <1>1, <1>11 DEF Lesser
    <2>2. DiscardedTo(r, p, ts, left, owed, c, n)
        BY <1>9, <2>1 DEF p
    <2>3. Known(ts, k) => Known(ts, n)
        BY <1>0, <1>1, <1>11, KnownMore
    <2>4. p.r.error # "ok"
        <3>1. SUFFICES ASSUME p.r.error = "ok" PROVE FALSE
            OBVIOUS
        <3>2. Known(ts, n)
            BY <2>2, <3>1 DEF DiscardedTo, Refuses
        <3>3. Leaves(r, p.r, left[n], c) /\ Len(Stream(p.r)) + n <= Len(Stream(r))
            BY <2>2, <3>1, <3>2 DEF DiscardedTo
        <3>4. Len(Stream(p.r)) \in Nat
            BY <3>3, StreamBytes DEF Leaves
        <3>. QED
            BY <1>1, <3>3, <3>4
    <2>5. x = p.r
        BY <1>4 DEF p
    <2>6. /\ Known(ts, n) => Leaves(r, x, left[n], c)
          /\ ~Known(ts, n) => Refuses(r, x, "unsupported", c)
        BY <2>2, <2>5 DEF DiscardedTo
    <2>7. x.error # "ok"
        BY <2>4, <2>5
    <2>8. /\ Known(ts, k) => Leaves(r, x, left[k], c)
          /\ ~Known(ts, k) => Refuses(r, x, "unsupported", c)
        BY <2>3, <2>6, <2>7 DEF Leaves, Refuses
    <2>. QED
        BY <2>8 DEF x
<1>. QED
    BY <1>0, <1>1, <1>10, <1>11

------------------------------------------------------------------------------------
(* Keys. *)

LEMMA DiscardedOne ==
    ASSUME NEW r, NEW t, Sensible(t), Holding(t.tag) = 0, NEW rest \in Bytes, NEW c, Along(r, Spelled(t) \o rest, c)
    PROVE  /\ t.tag.type # "ext" => Leaves(r, Discard(r), rest, c)
           /\ t.tag.type = "ext" => Refuses(r, Discard(r), "unsupported", c)
<1>. DEFINE ts == [i \in 1..1 |-> t]
            left == [i \in 0..1 |-> IF i = 0 THEN Spelled(t) \o rest ELSE rest]
            owed == [i \in 0..1 |-> 1 - i]
<1>1. \A i \in 1..1 : i = 1
    OBVIOUS
<1>2. ts[1] = t /\ left[0] = Spelled(t) \o rest /\ left[1] = rest /\ owed[0] = 1 /\ owed[1] = 0
    OBVIOUS
<1>. HIDE DEF ts, left, owed
<1>3. Object(ts, left, owed, 1)
    <2>1. ASSUME NEW i \in 1..1
          PROVE  /\ Sensible(ts[i]) /\ left[i] \in Bytes /\ left[i - 1] = Spelled(ts[i]) \o left[i]
                 /\ owed[i] = owed[i - 1] - 1 + Holding(ts[i].tag) /\ owed[i - 1] # 0
        <3>1. i = 1 /\ i - 1 = 0
            BY <1>1
        <3>2. left[i - 1] = Spelled(ts[i]) \o left[i]
            BY <1>2, <3>1
        <3>3. owed[i] = owed[i - 1] - 1 + Holding(ts[i].tag) /\ owed[i - 1] # 0
            BY <1>2, <3>1
        <3>. QED
            BY <1>2, <3>1, <3>2, <3>3
    <2>. QED
        BY <1>2, <2>1 DEF Object
<1>4. Known(ts, 1) <=> t.tag.type # "ext"
    BY <1>1, <1>2 DEF Known
<1>5. Along(r, left[0], c)
    BY <1>2
<1>. QED
    BY <1>2, <1>3, <1>4, <1>5, DiscardsAll

\* A str of the list, by its place there.
LEMMA KeyRead ==
    ASSUME NEW r, NEW t, Sensible(t), NEW rest \in Bytes, NEW c, Along(r, Spelled(t) \o rest, c), NEW strings
    PROVE  Answers(r, ReadKey(r, strings),
                   IF t.tag.type # "str" THEN "type"
                   ELSE IF r.kind # "data" /\ Len(t.body) > r.size THEN "too_big" ELSE "ok",
                   IndexIn(strings, t.body), rest, c)
<1>. DEFINE y == ExpectStr(r)
            x == ReadKey(r, strings)
            index == IndexIn(strings, t.body)
            before == IF t.tag.type = "str" THEN "ok" ELSE "type"
            outcome == IF t.tag.type # "str" THEN "type"
                       ELSE IF r.kind # "data" /\ Len(t.body) > r.size THEN "too_big" ELSE "ok"
<1>1. Answers(r, y, before, t.tag.value, t.body \o rest, c)
    BY StrExpected
<1>2. y.error # "ok" => x = y
    BY DEF ReadKey, Convert, Then
<1>3. y.error = "ok" => x = Convert(ReadInPlace(y, y.got), LAMBDA bytes : IndexIn(strings, bytes))
    BY DEF ReadKey, Then
<1>4. before # "ok" => outcome = before
    OBVIOUS
<1>5. ASSUME before = "ok", y.error = "ok", y.got = t.tag.value, Along(y, t.body \o rest, c)
      PROVE  Answers(y, x, outcome, index, rest, c)
    <2>1. t.tag.type = "str" /\ t.body \in Bytes /\ t.tag.value = Len(t.body)
        BY <1>5, TokenTag DEF Sensible, HasBody
    <2>2. y.kind = r.kind /\ y.size = r.size
        BY <1>1, <1>5 DEF Answers, Gives, SameKind
    <2>. DEFINE n == t.tag.value
                w == ReadInPlace(y, n)
    <2>3. x = Convert(w, LAMBDA bytes : IndexIn(strings, bytes))
        BY <1>3, <1>5
    <2>4. w.error # "ok" => x = w
        BY <2>3 DEF Convert, Then
    <2>5. w.error = "ok" => x = [w EXCEPT !.got = IndexIn(strings, w.got)]
        BY <2>3 DEF Convert, Then, Returning
    <2>6. /\ y.kind = "data" \/ n <= y.size => Gives(y, w, t.body, rest, c)
          /\ y.kind # "data" /\ n > y.size => Refuses(y, w, "too_big", c)
        BY <1>5, <2>1, InPlaceAlong
    <2>7. Fed(y) /\ n \in Int /\ (y.kind # "data" => y.size \in Int)
        BY <1>5, <2>1 DEF Along, Fed, Bytes
    <2>. HIDE DEF x, y, w, index
    <2>8. CASE r.kind # "data" /\ Len(t.body) > r.size
        <3>1. outcome = "too_big"
            BY <2>1, <2>8
        <3>2. Refuses(y, w, "too_big", c)
            BY <2>1, <2>2, <2>6, <2>8
        <3>. QED
            BY <2>4, <3>1, <3>2 DEF Answers, Refuses
    <2>9. CASE ~(r.kind # "data" /\ Len(t.body) > r.size)
        <3>1. outcome = "ok"
            BY <2>1, <2>9
        <3>2. y.kind = "data" \/ n <= y.size
            BY <2>1, <2>2, <2>7, <2>9
        <3>3. Gives(y, w, t.body, rest, c)
            BY <2>6, <3>2
        <3>4. ASSUME w.error = "ok", w.got = t.body, Along(w, rest, c)
              PROVE  Answers(w, x, "ok", index, rest, c)
            <4>1. x = [w EXCEPT !.got = index]
                BY <2>5, <3>4 DEF index
            <4>. QED
                BY <3>4, <4>1, Concludes
        <3>5. Answers(y, x, "ok", index, rest, c)
            BY <2>4, <3>3, <3>4, GoesOn
        <3>. QED
            BY <3>1, <3>5
    <2>. QED
        BY <2>8, <2>9
<1>. HIDE DEF x, y, index, before, outcome
<1>6. Answers(r, x, outcome, index, rest, c)
    BY <1>1, <1>2, <1>4, <1>5, ThenAnswers
<1>. QED
    BY <1>6 DEF x, index, outcome

LEMMA EnumExpected ==
    ASSUME NEW r, NEW t, Sensible(t), NEW rest \in Bytes, NEW c, Along(r, Spelled(t) \o rest, c), NEW strings,
           Len(strings) \in Nat
    PROVE  LET index == IF t.tag.type = "str" THEN IndexIn(strings, t.body) ELSE Len(strings)
               long == t.tag.type = "str" /\ r.kind # "data" /\ Len(t.body) > r.size
           IN  Answers(r, ExpectEnum(r, strings),
                       IF long THEN "too_big" ELSE IF index < Len(strings) THEN "ok" ELSE "type", index, rest, c)
<1>. DEFINE w == ReadKey(r, strings)
            x == ExpectEnum(r, strings)
            index == IF t.tag.type = "str" THEN IndexIn(strings, t.body) ELSE Len(strings)
            long == t.tag.type = "str" /\ r.kind # "data" /\ Len(t.body) > r.size
            mid == IF t.tag.type # "str" THEN "type"
                   ELSE IF r.kind # "data" /\ Len(t.body) > r.size THEN "too_big" ELSE "ok"
            outcome == IF long THEN "too_big" ELSE IF index < Len(strings) THEN "ok" ELSE "type"
<1>1. Answers(r, w, mid, IndexIn(strings, t.body), rest, c)
    BY KeyRead
<1>2. w.error # "ok" => x = w
    BY DEF ExpectEnum, Require, Then
<1>3. w.error = "ok" => x = IF w.got < Len(strings) THEN w ELSE Wrong(w)
    BY DEF ExpectEnum, Require, Then
<1>4. mid # "ok" => outcome = mid
    OBVIOUS
<1>5. mid = "ok" => t.tag.type = "str" /\ index = IndexIn(strings, t.body)
                    /\ outcome = IF IndexIn(strings, t.body) < Len(strings) THEN "ok" ELSE "type"
    OBVIOUS
<1>6. Wrong(w) = FlagError(w, "type")
    BY DEF Wrong
<1>. HIDE DEF w, x, mid, outcome, index
<1>7. Answers(r, x, outcome, IndexIn(strings, t.body), rest, c)
    <2>. DEFINE v == IndexIn(strings, t.body)
    <2>. HIDE DEF v
    <2>1. Answers(r, w, mid, v, rest, c)
        BY <1>1 DEF v
    <2>2. mid = "ok" => outcome = IF v < Len(strings) THEN "ok" ELSE "type"
        BY <1>5 DEF v
    <2>3. mid = "ok" /\ w.error = "ok" /\ w.got = v /\ outcome = "ok" => x = w
        BY <1>3, <2>2
    <2>4. mid = "ok" /\ w.error = "ok" /\ w.got = v /\ outcome # "ok" => x = FlagError(w, outcome)
        BY <1>3, <1>6, <2>2
    <2>5. Answers(r, x, outcome, v, rest, c)
        BY <1>2, <1>4, <2>1, <2>3, <2>4, Checked
    <2>. QED
        BY <2>5 DEF v
<1>8. Answers(r, x, outcome, index, rest, c)
    <2>1. mid # "ok" => outcome # "ok"
        BY <1>4
    <2>. QED
        BY <1>5, <1>7, <2>1 DEF Answers
<1>. QED
    BY <1>8 DEF x, outcome, index

LEMMA Regetting ==
    ASSUME NEW p, Fed(p), NEW g, NEW x, x = [p EXCEPT !.got = g]
    PROVE  Fed(x) /\ SameKind(p, x) /\ x.error = p.error
<1>. QED
    BY Regotten

\* What a call makes of a tag that it has only looked at.
LEMMA Peeked1 ==
    ASSUME NEW r, NEW t, Sensible(t), NEW rest \in Bytes, NEW c, Along(r, Spelled(t) \o rest, c),
           NEW p, p = PeekTag(r), NEW x, NEW outcome, NEW answer,
           p.error # "ok" => x = p \/ \E g : x = [p EXCEPT !.got = g],
           t.tag.type = "ext" => outcome = "unsupported",
           t.tag.type # "ext" /\ p.error = "ok" /\ p.got = t.tag /\ Along(p, Spelled(t) \o rest, c)
               => Answers(p, x, outcome, answer, rest, c)
    PROVE  Answers(r, x, outcome, answer, rest, c)
<1>1. /\ t.tag.type # "ext" => Gives(r, p, t.tag, Spelled(t) \o rest, c)
      /\ t.tag.type = "ext" => Refuses(r, p, "unsupported", c)
    BY TokenRead
<1>2. Fed(p) /\ SameKind(r, p)
    BY <1>1 DEF Gives, Refuses
<1>3. CASE p.error # "ok"
    <2>1. Fed(x) /\ SameKind(p, x) /\ x.error = p.error
        <3>1. CASE x = p
            BY <1>2, <3>1 DEF SameKind
        <3>2. CASE \E g : x = [p EXCEPT !.got = g]
            BY <1>2, <3>2, Regetting
        <3>. QED
            BY <1>3, <3>1, <3>2
    <2>2. SameKind(r, x)
        BY <1>2, <2>1 DEF SameKind
    <2>3. ~c => t.tag.type = "ext" /\ p.error = "unsupported" /\ outcome = "unsupported"
        BY <1>1, <1>3 DEF Gives, Refuses
    <2>. QED
        BY <1>3, <2>1, <2>2, <2>3 DEF Answers, Gives, Refuses
<1>4. CASE p.error = "ok"
    <2>1. t.tag.type # "ext" /\ p.got = t.tag /\ Along(p, Spelled(t) \o rest, c)
        BY <1>1, <1>4 DEF Gives, Refuses
    <2>2. Answers(p, x, outcome, answer, rest, c)
        BY <1>4, <2>1
    <2>. QED
        BY <1>2, <2>2 DEF Answers, Gives, Refuses, SameKind
<1>. QED
    BY <1>3, <1>4

\* An object that is no key is gone, whatever it was.
LEMMA UnrecognisedTaken ==
    ASSUME NEW r, NEW t, Sensible(t), Holding(t.tag) = 0, t.tag.type # "ext", NEW rest \in Bytes, NEW c,
           Along(r, Spelled(t) \o rest, c), NEW n
    PROVE  Answers(r, Unrecognised(r, n), "ok", n, rest, c)
<1>1. Leaves(r, Discard(r), rest, c)
    BY DiscardedOne
<1>2. Gives(r, [Discard(r) EXCEPT !.got = n], n, rest, c)
    BY <1>1, Ignored
<1>. QED
    BY <1>2 DEF Answers, Unrecognised, Returning

LEMMA EnumOptionalExpected ==
    ASSUME NEW r, NEW t, Sensible(t), Holding(t.tag) = 0, NEW rest \in Bytes, NEW c, Along(r, Spelled(t) \o rest, c),
           NEW strings
    PROVE  LET index == IF t.tag.type = "str" THEN IndexIn(strings, t.body) ELSE Len(strings)
               long == t.tag.type = "str" /\ r.kind # "data" /\ Len(t.body) > r.size
           IN  Answers(r, ExpectEnumOptional(r, strings),
                       IF long THEN "too_big" ELSE IF t.tag.type = "ext" THEN "unsupported" ELSE "ok", index, rest, c)
<1>. DEFINE p == PeekTag(r)
            x == ExpectEnumOptional(r, strings)
            index == IF t.tag.type = "str" THEN IndexIn(strings, t.body) ELSE Len(strings)
            long == t.tag.type = "str" /\ r.kind # "data" /\ Len(t.body) > r.size
            outcome == IF long THEN "too_big" ELSE IF t.tag.type = "ext" THEN "unsupported" ELSE "ok"
<1>1. r.error = "ok"
    BY DEF Along
<1>2. x = IF p.got.type = "str" THEN ReadKey(p, strings) ELSE Unrecognised(p, Len(strings))
    BY <1>1 DEF ExpectEnumOptional, Then
<1>3. p.error # "ok" => x = p \/ \E g : x = [p EXCEPT !.got = g]
    <2>1. SUFFICES ASSUME p.error # "ok" PROVE x = p \/ \E g : x = [p EXCEPT !.got = g]
        OBVIOUS
    <2>2. ReadKey(p, strings) = p
        <3>. HIDE DEF p
        <3>1. ReadInPlace(p, 1) = p
            BY <2>1 DEF ReadInPlace, Then
        <3>2. TypeByte(p) = p
            BY <2>1, <3>1 DEF TypeByte, Convert, Then
        <3>3. ExpectStr(p) = p
            BY <2>1, <3>2 DEF ExpectStr, Then
        <3>. QED
            BY <2>1, <3>3 DEF ReadKey, Convert, Then
    <2>3. Fed(p)
        BY TokenRead DEF Gives, Refuses
    <2>4. Discard(p) = p
        BY <2>1, <2>3, DiscardStops
    <2>5. Unrecognised(p, Len(strings)) = [p EXCEPT !.got = Len(strings)]
        BY <2>4 DEF Unrecognised, Returning
    <2>. QED
        BY <1>2, <2>2, <2>5
<1>4. t.tag.type = "ext" => outcome = "unsupported"
    OBVIOUS
<1>5. ASSUME t.tag.type # "ext", p.error = "ok", p.got = t.tag, Along(p, Spelled(t) \o rest, c)
      PROVE  Answers(p, x, outcome, index, rest, c)
    <2>1. p.kind = r.kind /\ p.size = r.size
        BY <1>5, TokenRead DEF Gives, SameKind
    <2>. HIDE DEF p
    <2>2. CASE t.tag.type = "str"
        <3>1. x = ReadKey(p, strings)
            BY <1>2, <1>5, <2>2
        <3>2. Answers(p, ReadKey(p, strings),
                      IF t.tag.type # "str" THEN "type"
                      ELSE IF p.kind # "data" /\ Len(t.body) > p.size THEN "too_big" ELSE "ok",
                      IndexIn(strings, t.body), rest, c)
            BY <1>5, KeyRead
        <3>3. outcome = IF t.tag.type # "str" THEN "type"
                        ELSE IF p.kind # "data" /\ Len(t.body) > p.size THEN "too_big" ELSE "ok"
            BY <2>1, <2>2
        <3>. QED
            BY <2>2, <3>1, <3>2, <3>3
    <2>3. CASE t.tag.type # "str"
        <3>1. x = Unrecognised(p, Len(strings)) /\ outcome = "ok" /\ index = Len(strings)
            BY <1>2, <1>5, <2>3
        <3>. QED
            BY <1>5, <3>1, UnrecognisedTaken
    <2>. QED
        BY <2>2, <2>3
<1>. HIDE DEF x, index, outcome
<1>6. Answers(r, x, outcome, index, rest, c)
    <2>1. p = PeekTag(r)
        OBVIOUS
    <2>. HIDE DEF p
    <2>. QED
        BY <1>3, <1>4, <1>5, <2>1, Peeked1
<1>. QED
    BY <1>6 DEF x, index, outcome

\* A key that is not to be found twice.
LEMMA OnceChecked ==
    ASSUME NEW r, NEW y, NEW mid, NEW val, NEW rest, NEW c, Answers(r, y, mid, val, rest, c), NEW found, NEW n,
           NEW outcome, mid # "ok" => outcome = mid,
           mid = "ok" => outcome = IF val < n /\ val \in found THEN "invalid" ELSE "ok"
    PROVE  Answers(r, Once(y, found, n), outcome, val, rest, c)
<1>. DEFINE x == Once(y, found, n)
<1>1. y.error # "ok" => x = y
    BY DEF Once, Then
<1>2. y.error = "ok" => x = IF y.got < n /\ y.got \in found THEN FlagError(y, "invalid") ELSE y
    BY DEF Once, Then
<1>. HIDE DEF x
<1>3. mid = "ok" /\ y.error = "ok" /\ y.got = val /\ outcome = "ok" => x = y
    BY <1>2
<1>4. mid = "ok" /\ y.error = "ok" /\ y.got = val /\ outcome # "ok" => x = FlagError(y, outcome)
    BY <1>2
<1>5. Answers(r, x, outcome, val, rest, c)
    BY <1>1, <1>3, <1>4, Checked
<1>. QED
    BY <1>5 DEF x

LEMMA KeyExpected ==
    ASSUME NEW r, NEW t, Sensible(t), Holding(t.tag) = 0, NEW rest \in Bytes, NEW c, Along(r, Spelled(t) \o rest, c),
           NEW keys, Len(keys) \in Nat, NEW found
    PROVE  LET index == IF t.tag.type = "str" THEN IndexIn(keys, t.body) ELSE Len(keys)
           IN  Answers(r, ExpectKeyCstr(r, keys, found),
                       IF t.tag.type = "str" /\ r.kind # "data" /\ Len(t.body) > r.size THEN "too_big"
                       ELSE IF index \in found /\ index < Len(keys) THEN "invalid"
                       ELSE IF t.tag.type = "ext" THEN "unsupported" ELSE "ok", index, rest, c)
<1>. DEFINE y == ExpectEnumOptional(r, keys)
            index == IF t.tag.type = "str" THEN IndexIn(keys, t.body) ELSE Len(keys)
            long == t.tag.type = "str" /\ r.kind # "data" /\ Len(t.body) > r.size
            mid == IF long THEN "too_big" ELSE IF t.tag.type = "ext" THEN "unsupported" ELSE "ok"
            outcome == IF long THEN "too_big"
                       ELSE IF index \in found /\ index < Len(keys) THEN "invalid"
                       ELSE IF t.tag.type = "ext" THEN "unsupported" ELSE "ok"
<1>1. Answers(r, y, mid, index, rest, c)
    BY EnumOptionalExpected
<1>2. t.tag.type # "str" => ~(index < Len(keys))
    OBVIOUS
<1>3. ExpectKeyCstr(r, keys, found) = Once(y, found, Len(keys))
    BY DEF ExpectKeyCstr
<1>. HIDE DEF y, index
<1>4. mid # "ok" => outcome = mid
    BY <1>2
<1>5. mid = "ok" => outcome = IF index < Len(keys) /\ index \in found THEN "invalid" ELSE "ok"
    OBVIOUS
<1>. HIDE DEF mid, outcome
<1>6. Answers(r, Once(y, found, Len(keys)), outcome, index, rest, c)
    BY <1>1, <1>4, <1>5, OnceChecked
<1>. QED
    BY <1>3, <1>6 DEF outcome, index

\* Every uint fits in 64 bits.
LEMMA WidestUint ==
    ASSUME NEW t, Sensible(t), t.tag.type = "uint"
    PROVE  /\ t.tag.value \in Nat /\ t.tag.value >= Lowest(Integer(8, FALSE)) /\ t.tag.value <= Highest(Integer(8, FALSE))
           /\ Lowest(Integer(8, FALSE)) \in Int /\ Highest(Integer(8, FALSE)) \in Int
<1>. DEFINE n == t.tag.value
<1>1. \A i \in 1..8 : Weight[i] = Base * Weight[i - 1] /\ Weight[i] \in Nat /\ Weight[i - 1] \in Nat
    BY WeightStep
<1>2. \A i \in 1..8 : Weight[i - 1] <= Weight[i]
    <2>. SUFFICES ASSUME NEW i \in 1..8 PROVE Weight[i - 1] <= Weight[i]
        OBVIOUS
    <2>1. Base \in Nat /\ Base >= 4
        BY BaseIs
    <2>. DEFINE a == Weight[i - 1]
                b == Weight[i]
    <2>2. b = Base * a /\ a \in Nat
        BY <1>1
    <2>. HIDE DEF a, b
    <2>3. a <= b
        BY <2>1, <2>2
    <2>. QED
        BY <2>3 DEF a, b
<1>3. \A i \in 0..8 : Weight[i] \in Nat
    <2>1. \A i \in 0..8 : i = 0 \/ i \in 1..8
        OBVIOUS
    <2>2. Weight[1 - 1] \in Nat
        BY <1>1
    <2>. QED
        BY <1>1, <2>1, <2>2
<1>4. Weight[0] <= Weight[1] /\ Weight[1] <= Weight[2] /\ Weight[2] <= Weight[3] /\ Weight[3] <= Weight[4]
      /\ Weight[4] <= Weight[5] /\ Weight[5] <= Weight[6] /\ Weight[6] <= Weight[7] /\ Weight[7] <= Weight[8]
    <2>1. Weight[1 - 1] <= Weight[1] /\ Weight[2 - 1] <= Weight[2] /\ Weight[3 - 1] <= Weight[3]
          /\ Weight[4 - 1] <= Weight[4] /\ Weight[5 - 1] <= Weight[5] /\ Weight[6 - 1] <= Weight[6]
          /\ Weight[7 - 1] <= Weight[7] /\ Weight[8 - 1] <= Weight[8]
        BY <1>2
    <2>. QED
        BY <2>1
<1>5. Valid(t.tag) /\ n \in Nat
    <2>1. t.tag \in Tags /\ Valid(t.tag)
        BY TokenTag, EncodedTag
    <2>. QED
        BY <2>1 DEF Valid
<1>6. PICK f \in Formats : Fits(t.tag, f)
    BY <1>5 DEF Valid
<1>7. f.width \in {1, 2, 4, 8} /\ n < Weight[f.width]
    BY <1>6 DEF Fits, Formats, Format
<1>8. Weight[1] \in Nat /\ Weight[2] \in Nat /\ Weight[3] \in Nat /\ Weight[4] \in Nat /\ Weight[5] \in Nat
      /\ Weight[6] \in Nat /\ Weight[7] \in Nat /\ Weight[8] \in Nat
    BY <1>3
<1>9. n < Weight[8]
    <2>. HIDE DEF n
    <2>1. Weight[1] <= Weight[8] /\ Weight[2] <= Weight[8] /\ Weight[4] <= Weight[8]
        BY <1>4, <1>8
    <2>. QED
        BY <1>5, <1>7, <1>8, <2>1
<1>10. Lowest(Integer(8, FALSE)) = 0 /\ Highest(Integer(8, FALSE)) = Weight[8] - 1
    BY DEF Lowest, Highest, Integer
<1>. DEFINE low == Lowest(Integer(8, FALSE))
            high == Highest(Integer(8, FALSE))
<1>. HIDE DEF n, low, high
<1>11. low = 0 /\ high = Weight[8] - 1
    BY <1>10 DEF low, high
<1>12. n \in Nat /\ n >= low /\ n <= high /\ low \in Int /\ high \in Int
    BY <1>5, <1>8, <1>9, <1>11
<1>. QED
    BY <1>12 DEF n, low, high

\* An uint that is a key is its index, no larger than the count.
IndexRead(r, n) == Convert(ExpectInt(r, Integer(8, FALSE)), LAMBDA value : Lesser(value, n))

LEMMA IndexExpected ==
    ASSUME NEW r, NEW t, Sensible(t), t.tag.type = "uint", NEW rest \in Bytes, NEW c, Along(r, Spelled(t) \o rest, c),
           NEW n
    PROVE  Answers(r, IndexRead(r, n), "ok", Lesser(t.tag.value, n), rest, c)
<1>. DEFINE y == ExpectInt(r, Integer(8, FALSE))
            x == Convert(y, LAMBDA value : Lesser(value, n))
            number == Lesser(t.tag.value, n)
<1>1. Answers(r, y, "ok", t.tag.value, t.body \o rest, c)
    <2>1. IsNumber(t.tag)
        BY DEF IsNumber
    <2>2. LET fits == IsNumber(t.tag) /\ t.tag.value >= Lowest(Integer(8, FALSE)) /\ t.tag.value <= Highest(Integer(8, FALSE))
          IN  Answers(r, y, IF fits THEN "ok" ELSE IF t.tag.type = "ext" THEN "unsupported" ELSE "type",
                      t.tag.value, t.body \o rest, c)
        BY WidestUint, IntExpected
    <2>. QED
        BY <2>1, <2>2, WidestUint
<1>2. t.body \o rest = rest
    <2>1. t.body = <<>>
        BY DEF Sensible, HasBody
    <2>. QED
        BY <2>1 DEF Bytes
<1>3. y.error # "ok" => x = y
    BY DEF Convert, Then
<1>4. y.error = "ok" => x = [y EXCEPT !.got = Lesser(y.got, n)]
    BY DEF Convert, Then, Returning
<1>. HIDE DEF x, y, number
<1>5. Gives(r, y, t.tag.value, rest, c)
    BY <1>1, <1>2 DEF Answers
<1>6. ASSUME y.error = "ok", y.got = t.tag.value, Along(y, rest, c)
      PROVE  Answers(y, x, "ok", number, rest, c)
    <2>1. x = [y EXCEPT !.got = number]
        BY <1>4, <1>6 DEF number
    <2>. QED
        BY <1>6, <2>1, Concludes
<1>7. Answers(r, x, "ok", number, rest, c)
    BY <1>3, <1>5, <1>6, GoesOn
<1>. QED
    BY <1>7 DEF x, number, y, IndexRead

LEMMA KeyUintExpected ==
    ASSUME NEW r, NEW t, Sensible(t), Holding(t.tag) = 0, NEW rest \in Bytes, NEW c, Along(r, Spelled(t) \o rest, c),
           NEW found, NEW n \in Nat
    PROVE  LET number == IF t.tag.type = "uint" THEN Lesser(t.tag.value, n) ELSE n
           IN  Answers(r, ExpectKeyUint(r, found, n),
                       IF number < n /\ number \in found THEN "invalid"
                       ELSE IF t.tag.type = "ext" THEN "unsupported" ELSE "ok", number, rest, c)
<1>. DEFINE p == PeekTag(r)
            y == IF p.got.type = "uint" THEN Convert(ExpectInt(p, Integer(8, FALSE)), LAMBDA value : Lesser(value, n))
                 ELSE Unrecognised(p, n)
            number == IF t.tag.type = "uint" THEN Lesser(t.tag.value, n) ELSE n
            mid == IF t.tag.type = "ext" THEN "unsupported" ELSE "ok"
            outcome == IF number < n /\ number \in found THEN "invalid"
                       ELSE IF t.tag.type = "ext" THEN "unsupported" ELSE "ok"
<1>1. r.error = "ok"
    BY DEF Along
<1>2. ExpectKeyUint(r, found, n) = Once(y, found, n)
    BY <1>1 DEF ExpectKeyUint, Then
<1>3. p.error # "ok" => y = p \/ \E g : y = [p EXCEPT !.got = g]
    <2>1. SUFFICES ASSUME p.error # "ok" PROVE y = p \/ \E g : y = [p EXCEPT !.got = g]
        OBVIOUS
    <2>2. Fed(p)
        BY TokenRead DEF Gives, Refuses
    <2>. HIDE DEF p
    <2>3. CASE p.got.type = "uint"
        <3>. DEFINE q == PeekTag(p)
                    z == ExpectInt(p, Integer(8, FALSE))
        <3>1. q = [p EXCEPT !.got = Nil]
            BY <2>1 DEF PeekTag, Then, Returning
        <3>2. q.error # "ok"
            BY <2>1, <2>2, <3>1, Regetting
        <3>3. ReadTag(p) = q
            <4>. HIDE DEF q
            <4>1. PeekTag(p) = q
                BY DEF q
            <4>. QED
                BY <3>2, <4>1 DEF ReadTag, Then
        <3>. HIDE DEF q
        <3>4. z = q
            BY <3>2, <3>3 DEF ExpectInt, Convert, Require, Then
        <3>. HIDE DEF z
        <3>5. y = Convert(z, LAMBDA value : Lesser(value, n))
            BY <2>3 DEF z
        <3>6. y = q
            BY <3>2, <3>4, <3>5 DEF Convert, Then
        <3>. QED
            BY <3>1, <3>6
    <2>4. CASE p.got.type # "uint"
        <3>1. Discard(p) = p
            BY <2>1, <2>2, DiscardStops
        <3>. QED
            BY <2>4, <3>1 DEF Unrecognised, Returning
    <2>. QED
        BY <2>3, <2>4
<1>4. ASSUME t.tag.type # "ext", p.error = "ok", p.got = t.tag, Along(p, Spelled(t) \o rest, c)
      PROVE  Answers(p, y, mid, number, rest, c)
    <2>1. mid = "ok"
        BY <1>4
    <2>. HIDE DEF p, mid
    <2>2. CASE t.tag.type = "uint"
        <3>1. y = IndexRead(p, n) /\ number = Lesser(t.tag.value, n)
            BY <1>4, <2>2 DEF IndexRead
        <3>2. Answers(p, IndexRead(p, n), "ok", Lesser(t.tag.value, n), rest, c)
            BY <1>4, <2>2, IndexExpected
        <3>. HIDE DEF y, number
        <3>. QED
            BY <2>1, <3>1, <3>2
    <2>3. CASE t.tag.type # "uint"
        <3>1. y = Unrecognised(p, n) /\ number = n
            BY <1>4, <2>3
        <3>. HIDE DEF y, number
        <3>. QED
            BY <1>4, <2>1, <3>1, UnrecognisedTaken
    <2>. QED
        BY <2>2, <2>3
<1>5. p = PeekTag(r) /\ (t.tag.type = "ext" => mid = "unsupported")
    OBVIOUS
<1>6. t.tag.type = "ext" => ~(number < n)
    OBVIOUS
<1>7. mid # "ok" => t.tag.type = "ext"
    OBVIOUS
<1>. HIDE DEF p, y, number
<1>8. mid # "ok" => outcome = mid
    BY <1>6
<1>9. mid = "ok" => outcome = IF number < n /\ number \in found THEN "invalid" ELSE "ok"
    OBVIOUS
<1>. HIDE DEF mid, outcome
<1>10. Answers(r, y, mid, number, rest, c)
    BY <1>3, <1>4, <1>5, Peeked1
<1>11. Answers(r, Once(y, found, n), outcome, number, rest, c)
    BY <1>8, <1>9, <1>10, OnceChecked
<1>. QED
    BY <1>2, <1>11 DEF number, outcome

------------------------------------------------------------------------------------
(* The bytes of a str or a bin. *)

LEMMA EitherAlong ==
    ASSUME NEW r, NEW P \in Bytes, NEW rest \in Bytes, NEW c, Along(r, P \o rest, c), NEW n, n = Len(P)
    PROVE  Gives(r, IF ShouldReadInPlace(r, n) THEN ReadInPlace(r, n) ELSE ReadNative(r, n), P, rest, c)
<1>1. Gives(r, ReadNative(r, n), P, rest, c)
    BY NativeAlong
<1>2. r.kind = "data" \/ n <= r.size => Gives(r, ReadInPlace(r, n), P, rest, c)
    BY InPlaceAlong
<1>3. r.kind # "data" => r.size \in Nat /\ r.size >= 9
    BY DEF Along, Fed
<1>4. n \in Nat
    BY DEF Bytes
<1>5. ASSUME ShouldReadInPlace(r, n), r.kind # "data" PROVE n <= r.size
    <2>1. SmallFraction \in Nat /\ SmallFraction > 0
        BY FractionAssumption
    <2>. DEFINE s == r.size
                part == s \div SmallFraction
    <2>2. s \in Nat /\ s >= 9
        BY <1>3, <1>5
    <2>3. part \in Nat /\ part <= s
        BY <2>1, <2>2, PartIsLess
    <2>4. s = 0 \/ n <= part
        BY <1>5 DEF ShouldReadInPlace
    <2>. HIDE DEF s, part
    <2>5. n <= s
        BY <1>4, <2>2, <2>3, <2>4
    <2>. QED
        BY <2>5 DEF s
<1>. QED
    BY <1>1, <1>2, <1>5

\* In place there must be room for all of it in the buffer.
LEMMA InPlaceAnswers ==
    ASSUME NEW r, NEW P \in Bytes, NEW rest \in Bytes, NEW c, Along(r, P \o rest, c), NEW n, n = Len(P)
    PROVE  Answers(r, ReadInPlace(r, n), IF r.kind # "data" /\ n > r.size THEN "too_big" ELSE "ok", P, rest, c)
<1>1. /\ r.kind = "data" \/ n <= r.size => Gives(r, ReadInPlace(r, n), P, rest, c)
      /\ r.kind # "data" /\ n > r.size => Refuses(r, ReadInPlace(r, n), "too_big", c)
    BY InPlaceAlong
<1>2. r.kind # "data" => r.size \in Nat /\ r.size >= 9
    BY DEF Along, Fed
<1>3. n \in Nat
    BY DEF Bytes
<1>4. r.kind = "data" \/ n <= r.size \/ n > r.size
    BY <1>2, <1>3
<1>5. r.kind # "data" /\ n > r.size => ~(n <= r.size)
    BY <1>2, <1>3
<1>. QED
    BY <1>1, <1>4, <1>5 DEF Answers

\* The bytes of a str or a bin, by each of the calls for them.
LEMMA BytesTaken ==
    ASSUME NEW P \in Bytes, NEW rest \in Bytes, NEW c, Along(reader, P \o rest, c), NEW n, n = Len(P),
           NEW how \in {"copy", "in place", "either", "skip"}
    PROVE  Answers(reader, BytesBy(how, n),
                   IF how = "in place" /\ reader.kind # "data" /\ n > reader.size THEN "too_big" ELSE "ok",
                   IF how = "skip" THEN <<>> ELSE P, rest, c)
<1>1. Gives(reader, ReadNative(reader, n), P, rest, c)
    BY NativeAlong, Zenon
<1>2. Answers(reader, ReadInPlace(reader, n),
              IF reader.kind # "data" /\ n > reader.size THEN "too_big" ELSE "ok", P, rest, c)
    BY InPlaceAnswers, Zenon
<1>3. Gives(reader, IF ShouldReadInPlace(reader, n) THEN ReadInPlace(reader, n) ELSE ReadNative(reader, n), P, rest, c)
    BY EitherAlong, Zenon
<1>4. Gives(reader, [SkipBytes(reader, n) EXCEPT !.got = <<>>], <<>>, rest, c)
    BY SkipAlong, Ignored, Zenon
<1>5. CASE how = "copy"
    BY <1>1, <1>5, Zenon DEF BytesBy, Answers
<1>6. CASE how = "in place"
    <2>1. BytesBy(how, n) = ReadInPlace(reader, n)
        BY <1>6, Zenon DEF BytesBy
    <2>2. how # "skip"
        BY <1>6, Zenon
    <2>3. CASE reader.kind # "data" /\ n > reader.size
        BY <1>2, <1>6, <2>1, <2>2, <2>3, Zenon
    <2>4. CASE ~(reader.kind # "data" /\ n > reader.size)
        BY <1>2, <1>6, <2>1, <2>2, <2>4, Zenon
    <2>. QED
        BY <2>3, <2>4, Zenon
<1>7. CASE how = "either"
    BY <1>3, <1>7, Zenon DEF BytesBy, Answers
<1>8. CASE how = "skip"
    BY <1>4, <1>8, Zenon DEF BytesBy, Answers
<1>. QED
    BY <1>5, <1>6, <1>7, <1>8, Zenon

------------------------------------------------------------------------------------
(* What the objects of a message still hold. *)

LEMMA HeldNat ==
    ASSUME NEW tag \in Tags
    PROVE  Holding(tag) \in Nat
<1>1. tag.type = "ext" \/ Valid(tag)
    BY DEF Tags
<1>2. tag.type \in {"array", "map"} => tag.value \in Nat
    BY <1>1 DEF Valid
<1>. QED
    BY <1>2 DEF Holding

\* How many objects an open item still asks for.
Owe(item) == CASE item.how = "start" -> item.left [] item.how = "build" -> item.left + 1 [] OTHER -> 0
\* The objects that are there from a place on, less those that objects there ask for:
\* d for each place, e what the item opened there still asks for.
Debts(msg, opn, d, e) ==
    LET n == Len(msg)
    IN  /\ d \in [0..n -> Int] /\ e \in [1..n -> Int] /\ d[n] = 0
        /\ \A p \in 1..n : d[p - 1] = d[p] + 1 - Holding(msg[p].tag) + e[p] /\ d[p - 1] >= 1
        /\ \A q \in 1..Len(opn) : e[opn[q].index] = Owe(opn[q])
        /\ \A p \in 1..n : (\A q \in 1..Len(opn) : opn[q].index # p) => e[p] = 0
Nested(opn) == \A q, u \in 1..Len(opn) : q < u => opn[q].index < opn[u].index
Balanced(msg, opn) ==
    /\ \A i \in 1..Len(msg) : Sensible(msg[i])
    /\ Nested(opn)
    /\ \A q \in 1..Len(opn) : opn[q].how = "build" => msg[opn[q].index].tag.value = 0
    /\ \E d, e : Debts(msg, opn, d, e)

\* What a token that is said adds to what is open: nothing, or itself.
Opens(msg, opn, token, o) ==
    \/ o = Counting(opn) /\ Holding(token.tag) = 0
    \/ \E item : /\ Pushed(Counting(opn), item, o) /\ item.index = Len(msg) + 1
                 /\ Owe(item) = Holding(token.tag)
                 /\ item.how = "build" => token.tag.value = 0

LEMMA OpensParts ==
    ASSUME NEW msg, NEW opn, Proper(msg, opn), NEW token, NEW o, Opens(msg, opn, token, o)
    PROVE  /\ \A q \in 1..Len(opn) : q \in 1..Len(o) /\ o[q] = Counting(opn)[q]
           /\ \A q \in 1..Len(o) : q \in 1..Len(opn) \/
                (/\ q = Len(opn) + 1 /\ o[q].index = Len(msg) + 1 /\ Owe(o[q]) = Holding(token.tag)
                 /\ o[q].how = "build" => token.tag.value = 0)
           /\ Len(o) = Len(opn) => Holding(token.tag) = 0
           /\ Len(o) \in {Len(opn), Len(opn) + 1} /\ Len(opn) \in Nat
<1>. DEFINE oo == Counting(opn)
            n == Len(opn)
<1>1. n \in Nat /\ Len(oo) = n
    BY CountingItems DEF Proper
<1>. HIDE DEF oo, n
<1>2. CASE o = oo /\ Holding(token.tag) = 0
    BY <1>1, <1>2 DEF n, oo
<1>3. CASE \E item : /\ Pushed(oo, item, o) /\ item.index = Len(msg) + 1
                     /\ Owe(item) = Holding(token.tag)
                     /\ item.how = "build" => token.tag.value = 0
    <2>1. PICK item : /\ Pushed(oo, item, o) /\ item.index = Len(msg) + 1
                      /\ Owe(item) = Holding(token.tag)
                      /\ item.how = "build" => token.tag.value = 0
        BY <1>3
    <2>2. Len(o) = n + 1 /\ o[n + 1] = item /\ \A p \in 1..n : o[p] = oo[p]
        BY <1>1, <2>1 DEF Pushed
    <2>3. \A q \in 1..Len(o) : q \in 1..n \/ q = n + 1
        BY <1>1, <2>2
    <2>4. \A q \in 1..n : q \in 1..Len(o)
        BY <1>1, <2>2
    <2>5. Len(o) # n
        BY <1>1, <2>2
    <2>. QED
        BY <1>1, <2>1, <2>2, <2>3, <2>4, <2>5 DEF n, oo
<1>. QED
    BY <1>2, <1>3 DEF Opens, oo

LEMMA OweCounted ==
    ASSUME NEW msg, NEW opn, Proper(msg, opn), NoBytes(opn), NEW q \in 1..Len(opn)
    PROVE  /\ Owe(opn[q]) \in Int /\ Counting(opn)[q].index = opn[q].index /\ Counting(opn)[q].how = opn[q].how
           /\ opn[q].index \in 1..Len(msg)
           /\ q # Len(opn) => Owe(Counting(opn)[q]) = Owe(opn[q])
           /\ q = Len(opn) => Owe(Counting(opn)[q]) = Owe(opn[q]) - 1
<1>1. opn \in Seq(Items) /\ opn[q] \in Items /\ ProperItem(msg, opn, q)
    BY DEF Proper
<1>2. /\ Counting(opn)[q].how = opn[q].how /\ Counting(opn)[q].index = opn[q].index
      /\ q # Len(opn) => Counting(opn)[q].left = opn[q].left
      /\ q = Len(opn) => Counting(opn)[q].left = opn[q].left - 1
    BY <1>1, CountingItems
<1>3. opn[q].how \in {"start", "build"} /\ opn[q].left \in Int /\ opn[q].index \in 1..Len(msg)
    BY <1>1 DEF NoBytes, Items, ProperItem
<1>. QED
    BY <1>2, <1>3 DEF Owe

\* The debts after one more token.
Onwards(d, D, n, top) ==
    /\ D \in [0..(n + 1) -> Int] /\ D[n + 1] = 0
    /\ \A p \in 0..n : p >= top => D[p] = d[p] + 1
    /\ \A p \in 0..n : p < top => D[p] = d[p]
Repaid(e, E, n, top, more) ==
    /\ E \in [1..(n + 1) -> Int] /\ E[n + 1] = more
    /\ top \in 1..n => E[top] = e[top] - 1
    /\ \A p \in 1..n : p # top => E[p] = e[p]

LEMMA OnwardsExist ==
    ASSUME NEW n \in Nat, NEW top \in 0..n, NEW more \in Int, NEW d \in [0..n -> Int], NEW e \in [1..n -> Int]
    PROVE  (\E D : Onwards(d, D, n, top)) /\ \E E : Repaid(e, E, n, top, more)
<1>1. \E D : Onwards(d, D, n, top)
    <2>. DEFINE D == [p \in 0..(n + 1) |-> IF p = n + 1 THEN 0 ELSE IF p >= top THEN d[p] + 1 ELSE d[p]]
    <2>1. \A p \in 0..n : d[p] \in Int /\ p \in 0..(n + 1) /\ p # n + 1
        OBVIOUS
    <2>2. n + 1 \in 0..(n + 1)
        OBVIOUS
    <2>3. D \in [0..(n + 1) -> Int]
        BY <2>1
    <2>4. D[n + 1] = 0
        BY <2>2
    <2>5. \A p \in 0..n : p >= top => D[p] = d[p] + 1
        BY <2>1
    <2>6. \A p \in 0..n : p < top => D[p] = d[p]
        BY <2>1
    <2>. HIDE DEF D
    <2>7. Onwards(d, D, n, top)
        BY <2>3, <2>4, <2>5, <2>6 DEF Onwards
    <2>. QED
        BY <2>7
<1>2. \E E : Repaid(e, E, n, top, more)
    <2>. DEFINE E == [p \in 1..(n + 1) |-> IF p = n + 1 THEN more ELSE IF p = top THEN e[p] - 1 ELSE e[p]]
    <2>1. \A p \in 1..n : e[p] \in Int /\ p \in 1..(n + 1) /\ p # n + 1
        OBVIOUS
    <2>2. n + 1 \in 1..(n + 1)
        OBVIOUS
    <2>3. E \in [1..(n + 1) -> Int]
        BY <2>1
    <2>4. E[n + 1] = more
        BY <2>2
    <2>5. top \in 1..n => E[top] = e[top] - 1
        BY <2>1
    <2>6. \A p \in 1..n : p # top => E[p] = e[p]
        BY <2>1
    <2>. HIDE DEF E
    <2>7. Repaid(e, E, n, top, more)
        BY <2>3, <2>4, <2>5, <2>6 DEF Repaid
    <2>. QED
        BY <2>7
<1>. QED
    BY <1>1, <1>2

\* Where the item on top is.
TopAt(opn) == IF opn = <<>> THEN 0 ELSE opn[Len(opn)].index

LEMMA DebtsSaid ==
    ASSUME NEW msg, NEW opn, Proper(msg, opn), NoBytes(opn), Nested(opn), NEW d, NEW e, Debts(msg, opn, d, e),
           NEW token \in Tokens, NEW o, Opens(msg, opn, token, o), NEW M, M = Append(msg, token),
           NEW D, Onwards(d, D, Len(msg), TopAt(opn)), NEW E, Repaid(e, E, Len(msg), TopAt(opn), Holding(token.tag))
    PROVE  Debts(M, o, D, E)
<1>. DEFINE n == Len(msg)
            top == TopAt(opn)
            m == Len(opn)
            H == Holding(token.tag)
<1>1. /\ msg \in Seq(Tokens) /\ n \in Nat /\ opn \in Seq(Items) /\ m \in Nat /\ token.tag \in Tags
    BY DEF Proper, Tokens
<1>2. H \in Nat
    BY <1>1, HeldNat
<1>3. Len(M) = n + 1 /\ M[n + 1] = token /\ \A p \in 1..n : M[p] = msg[p]
    BY <1>1
<1>4. \A q \in 1..m :
         /\ Owe(opn[q]) \in Int /\ Counting(opn)[q].index = opn[q].index /\ opn[q].index \in 1..n
         /\ q # m => Owe(Counting(opn)[q]) = Owe(opn[q])
         /\ q = m => Owe(Counting(opn)[q]) = Owe(opn[q]) - 1
    BY OweCounted
<1>5. (m >= 1 => top = opn[m].index /\ top \in 1..n) /\ (m = 0 => top = 0)
    <2>1. CASE opn = <<>>
        BY <2>1 DEF TopAt
    <2>2. CASE opn # <<>>
        <3>1. m >= 1 /\ m \in 1..m
            BY <1>1, <2>2
        <3>2. top = opn[m].index
            BY <2>2 DEF TopAt
        <3>. QED
            BY <1>4, <3>1, <3>2
    <2>. QED
        BY <2>1, <2>2
<1>6. /\ d \in [0..n -> Int] /\ e \in [1..n -> Int] /\ d[n] = 0
      /\ \A p \in 1..n : d[p - 1] = d[p] + 1 - Holding(msg[p].tag) + e[p] /\ d[p - 1] >= 1
      /\ \A q \in 1..m : e[opn[q].index] = Owe(opn[q])
      /\ \A p \in 1..n : (\A q \in 1..m : opn[q].index # p) => e[p] = 0
    BY DEF Debts
<1>7. /\ \A q \in 1..m : q \in 1..Len(o) /\ o[q] = Counting(opn)[q]
      /\ \A q \in 1..Len(o) : q \in 1..m \/ (q = m + 1 /\ o[q].index = n + 1 /\ Owe(o[q]) = H)
      /\ Len(o) = m => H = 0
      /\ Len(o) \in {m, m + 1}
    BY OpensParts
<1>8. \A q \in 1..m : q # m => opn[q].index # top
    <2>. SUFFICES ASSUME NEW q \in 1..m, q # m PROVE opn[q].index # top
        OBVIOUS
    <2>1. m \in 1..m /\ q < m
        BY <1>1
    <2>2. opn[q].index < opn[m].index
        BY <2>1 DEF Nested
    <2>. QED
        BY <1>4, <1>5, <2>1, <2>2
<1>9. \A p \in 1..n : msg[p].tag \in Tags
    <2>1. \A p \in 1..n : msg[p] \in Tokens
        BY <1>1
    <2>. QED
        BY <2>1 DEF Tokens
<1>10. \A p \in 1..n : Holding(msg[p].tag) \in Nat
    BY <1>9, HeldNat
<1>11. /\ D \in [0..(n + 1) -> Int] /\ D[n + 1] = 0
       /\ \A p \in 0..n : p >= top => D[p] = d[p] + 1
       /\ \A p \in 0..n : p < top => D[p] = d[p]
    BY DEF Onwards
<1>12. /\ E \in [1..(n + 1) -> Int] /\ E[n + 1] = H
       /\ top \in 1..n => E[top] = e[top] - 1
       /\ \A p \in 1..n : p # top => E[p] = e[p]
    BY DEF Repaid
<1>. HIDE DEF n, top, m, H
<1>13. top \in 0..n
    BY <1>1, <1>5
<1>14. \A p \in 1..(n + 1) : D[p - 1] = D[p] + 1 - Holding(M[p].tag) + E[p] /\ D[p - 1] >= 1
    <2>. SUFFICES ASSUME NEW p \in 1..(n + 1)
                  PROVE  D[p - 1] = D[p] + 1 - Holding(M[p].tag) + E[p] /\ D[p - 1] >= 1
        OBVIOUS
    <2>1. CASE p = n + 1
        <3>1. n \in 0..n /\ n >= top
            BY <1>1, <1>13
        <3>2. D[n] = 1
            BY <1>6, <1>11, <3>1
        <3>3. M[p].tag = token.tag /\ Holding(M[p].tag) = H
            BY <1>3, <2>1 DEF H
        <3>4. p - 1 = n /\ D[p] = 0 /\ E[p] = H
            BY <1>1, <1>11, <1>12, <2>1
        <3>. QED
            BY <1>2, <3>2, <3>3, <3>4
    <2>2. CASE p # n + 1
        <3>. DEFINE h == Holding(msg[p].tag)
                    a == d[p - 1]
                    b == d[p]
                    c == e[p]
        <3>1. p \in 1..n /\ p \in 0..n /\ p - 1 \in 0..n /\ p \in Nat
            BY <1>1, <2>2
        <3>2. Holding(M[p].tag) = h /\ h \in Nat
            BY <1>3, <1>10, <3>1
        <3>3. a = b + 1 - h + c /\ a >= 1 /\ a \in Int /\ b \in Int /\ c \in Int
            BY <1>6, <3>1
        <3>4. CASE p < top
            <4>0. p - 1 < top /\ p # top
                BY <1>13, <3>1, <3>4
            <4>1. D[p - 1] = a /\ D[p] = b /\ E[p] = c
                BY <1>11, <1>12, <3>1, <3>4, <4>0
            <4>. HIDE DEF a, b, c, h
            <4>. QED
                BY <3>2, <3>3, <4>1
        <3>5. CASE p = top
            <4>1. D[p - 1] = a /\ D[p] = b + 1 /\ E[p] = c - 1
                BY <1>11, <1>12, <1>13, <3>1, <3>5
            <4>. HIDE DEF a, b, c, h
            <4>. QED
                BY <3>2, <3>3, <4>1
        <3>6. CASE p > top
            <4>0. p - 1 >= top /\ p >= top /\ p # top
                BY <1>13, <3>1, <3>6
            <4>1. D[p - 1] = a + 1 /\ D[p] = b + 1 /\ E[p] = c
                BY <1>11, <1>12, <3>1, <4>0
            <4>. HIDE DEF a, b, c, h
            <4>. QED
                BY <3>2, <3>3, <4>1
        <3>7. p < top \/ p = top \/ p > top
            BY <1>1, <1>13, <3>1
        <3>. QED
            BY <3>4, <3>5, <3>6, <3>7
    <2>. QED
        BY <2>1, <2>2
<1>15. \A q \in 1..Len(o) : E[o[q].index] = Owe(o[q])
    <2>. SUFFICES ASSUME NEW q \in 1..Len(o) PROVE E[o[q].index] = Owe(o[q])
        OBVIOUS
    <2>1. CASE q \in 1..m /\ q # m
        <3>1. o[q] = Counting(opn)[q] /\ o[q].index = opn[q].index /\ Owe(o[q]) = Owe(opn[q])
              /\ opn[q].index \in 1..n /\ opn[q].index # top
            BY <1>4, <1>7, <1>8, <2>1
        <3>2. E[opn[q].index] = e[opn[q].index]
            BY <1>12, <3>1
        <3>. QED
            BY <1>6, <2>1, <3>1, <3>2
    <2>2. CASE q \in 1..m /\ q = m
        <3>1. m >= 1
            BY <1>1, <2>2
        <3>2. o[q] = Counting(opn)[q] /\ o[q].index = top /\ Owe(o[q]) = Owe(opn[q]) - 1
              /\ top \in 1..n /\ top = opn[q].index
            BY <1>4, <1>5, <1>7, <2>2, <3>1
        <3>3. E[top] = e[top] - 1 /\ e[top] = Owe(opn[q])
            BY <1>6, <1>12, <2>2, <3>2
        <3>. QED
            BY <3>2, <3>3
    <2>3. CASE q = m + 1
        <3>1. q \notin 1..m
            BY <1>1, <2>3
        <3>2. o[q].index = n + 1 /\ Owe(o[q]) = H
            BY <1>7, <3>1
        <3>. QED
            BY <1>12, <3>2
    <2>. QED
        BY <1>7, <2>1, <2>2, <2>3
<1>16. \A p \in 1..(n + 1) : (\A q \in 1..Len(o) : o[q].index # p) => E[p] = 0
    <2>. SUFFICES ASSUME NEW p \in 1..(n + 1), \A q \in 1..Len(o) : o[q].index # p PROVE E[p] = 0
        OBVIOUS
    <2>1. CASE p = n + 1
        <3>1. CASE Len(o) = m
            BY <1>7, <1>12, <2>1, <3>1
        <3>2. CASE Len(o) = m + 1
            <4>1. m + 1 \in 1..Len(o) /\ m + 1 \notin 1..m
                BY <1>1, <3>2
            <4>2. o[m + 1].index = n + 1
                BY <1>7, <4>1
            <4>. QED
                BY <2>1, <4>1, <4>2
        <3>. QED
            BY <1>7, <3>1, <3>2
    <2>2. CASE p # n + 1
        <3>1. p \in 1..n
            BY <1>1, <2>2
        <3>2. \A q \in 1..m : opn[q].index # p
            BY <1>4, <1>7
        <3>3. p # top
            <4>1. CASE m >= 1
                <5>1. m \in 1..m
                    BY <1>1, <4>1
                <5>. QED
                    BY <1>5, <3>2, <4>1, <5>1
            <4>2. CASE m = 0
                BY <1>5, <3>1, <4>2
            <4>. QED
                BY <1>1, <4>1, <4>2
        <3>. QED
            BY <1>6, <1>12, <3>1, <3>2, <3>3
    <2>. QED
        BY <2>1, <2>2
<1>. QED
    BY <1>3, <1>11, <1>12, <1>14, <1>15, <1>16 DEF Debts

LEMMA BalancedSaid ==
    ASSUME NEW msg, NEW opn, Proper(msg, opn), NoBytes(opn), Balanced(msg, opn),
           NEW token, Sensible(token), NEW o, Opens(msg, opn, token, o), NEW M, M = Append(msg, token)
    PROVE  Balanced(M, o)
<1>. DEFINE n == Len(msg)
            m == Len(opn)
<1>1. /\ msg \in Seq(Tokens) /\ n \in Nat /\ opn \in Seq(Items) /\ m \in Nat /\ token \in Tokens
    BY DEF Proper, Sensible
<1>2. Len(M) = n + 1 /\ M[n + 1] = token /\ \A p \in 1..n : M[p] = msg[p]
    BY <1>1
<1>3. \A q \in 1..m : /\ Counting(opn)[q].index = opn[q].index /\ Counting(opn)[q].how = opn[q].how
                      /\ opn[q].index \in 1..n
    BY OweCounted
<1>4. /\ \A q \in 1..m : q \in 1..Len(o) /\ o[q] = Counting(opn)[q]
      /\ \A q \in 1..Len(o) : q \in 1..m \/
            (q = m + 1 /\ o[q].index = n + 1 /\ (o[q].how = "build" => token.tag.value = 0))
    BY OpensParts
<1>5. /\ \A i \in 1..n : Sensible(msg[i])
      /\ Nested(opn)
      /\ \A q \in 1..m : opn[q].how = "build" => msg[opn[q].index].tag.value = 0
    BY DEF Balanced
<1>6. PICK d, e : Debts(msg, opn, d, e)
    BY DEF Balanced
<1>7. TopAt(opn) \in 0..n
    <2>1. CASE opn = <<>>
        BY <1>1, <2>1 DEF TopAt
    <2>2. CASE opn # <<>>
        <3>1. m \in 1..m
            BY <1>1, <2>2
        <3>. QED
            BY <1>1, <1>3, <2>2, <3>1 DEF TopAt
    <2>. QED
        BY <2>1, <2>2
<1>8. Holding(token.tag) \in Int
    <2>1. token.tag \in Tags
        BY <1>1 DEF Tokens
    <2>2. Holding(token.tag) \in Nat
        BY <2>1, HeldNat
    <2>. QED
        BY <2>2
<1>9. \E D, E : Debts(M, o, D, E)
    <2>1. d \in [0..n -> Int] /\ e \in [1..n -> Int]
        BY <1>6 DEF Debts
    <2>2. PICK D : Onwards(d, D, n, TopAt(opn))
        BY <1>1, <1>7, <1>8, <2>1, OnwardsExist
    <2>3. PICK E : Repaid(e, E, n, TopAt(opn), Holding(token.tag))
        BY <1>1, <1>7, <1>8, <2>1, OnwardsExist
    <2>4. Debts(M, o, D, E)
        BY <1>1, <1>5, <1>6, <2>2, <2>3, DebtsSaid
    <2>. QED
        BY <2>4
<1>. HIDE DEF n, m
<1>10. \A i \in 1..(n + 1) : Sensible(M[i])
    <2>1. \A i \in 1..(n + 1) : i \in 1..n \/ i = n + 1
        BY <1>1
    <2>. QED
        BY <1>2, <1>5, <2>1
<1>11. \A q \in 1..Len(o) : o[q].how = "build" => M[o[q].index].tag.value = 0
    <2>. SUFFICES ASSUME NEW q \in 1..Len(o), o[q].how = "build" PROVE M[o[q].index].tag.value = 0
        OBVIOUS
    <2>1. CASE q \in 1..m
        <3>1. o[q].index = opn[q].index /\ opn[q].how = "build" /\ opn[q].index \in 1..n
            BY <1>3, <1>4, <2>1
        <3>. QED
            BY <1>2, <1>5, <2>1, <3>1
    <2>2. CASE q \notin 1..m
        BY <1>2, <1>4, <2>2
    <2>. QED
        BY <2>1, <2>2
<1>12. Nested(o)
    <2>. SUFFICES ASSUME NEW q \in 1..Len(o), NEW u \in 1..Len(o), q < u PROVE o[q].index < o[u].index
        BY DEF Nested
    <2>1. CASE u \in 1..m
        <3>1. q \in 1..m
            BY <1>1, <2>1
        <3>2. opn[q].index < opn[u].index
            BY <1>5, <2>1, <3>1 DEF Nested, m
        <3>. QED
            BY <1>3, <1>4, <2>1, <3>1, <3>2
    <2>2. CASE u \notin 1..m
        <3>1. u = m + 1 /\ o[u].index = n + 1
            BY <1>4, <2>2
        <3>2. q \in 1..m
            BY <1>1, <3>1
        <3>3. o[q].index \in 1..n
            BY <1>3, <1>4, <3>2
        <3>. QED
            BY <1>1, <3>1, <3>3
    <2>. QED
        BY <2>1, <2>2
<1>. QED
    BY <1>2, <1>9, <1>10, <1>11, <1>12 DEF Balanced

LEMMA BalancedPopped ==
    ASSUME NEW msg, NEW opn, Proper(msg, opn), Balanced(msg, opn), Owe(opn[Len(opn)]) = 0, NEW o, Popped(opn, o)
    PROVE  Balanced(msg, o)
<1>. DEFINE n == Len(msg)
            m == Len(opn)
<1>1. n \in Nat /\ m \in Nat /\ m >= 1 /\ Len(o) = m - 1 /\ \A p \in 1..(m - 1) : o[p] = opn[p]
    BY DEF Proper, Popped
<1>2. /\ \A i \in 1..n : Sensible(msg[i])
      /\ Nested(opn)
      /\ \A q \in 1..m : opn[q].how = "build" => msg[opn[q].index].tag.value = 0
    BY DEF Balanced
<1>3. PICK d, e : Debts(msg, opn, d, e)
    BY DEF Balanced
<1>4. /\ d \in [0..n -> Int] /\ e \in [1..n -> Int] /\ d[n] = 0
      /\ \A p \in 1..n : d[p - 1] = d[p] + 1 - Holding(msg[p].tag) + e[p] /\ d[p - 1] >= 1
      /\ \A q \in 1..m : e[opn[q].index] = Owe(opn[q])
      /\ \A p \in 1..n : (\A q \in 1..m : opn[q].index # p) => e[p] = 0
    BY <1>3 DEF Debts
<1>. HIDE DEF n, m
<1>5. \A q \in 1..Len(o) : q \in 1..m /\ o[q] = opn[q]
    BY <1>1
<1>6. \A p \in 1..n : (\A q \in 1..Len(o) : o[q].index # p) => e[p] = 0
    <2>. SUFFICES ASSUME NEW p \in 1..n, \A q \in 1..Len(o) : o[q].index # p PROVE e[p] = 0
        OBVIOUS
    <2>1. CASE opn[m].index = p
        <3>1. m \in 1..m
            BY <1>1
        <3>. QED
            BY <1>4, <2>1, <3>1 DEF m
    <2>2. CASE opn[m].index # p
        <3>1. ASSUME NEW q \in 1..m PROVE opn[q].index # p
            <4>1. CASE q = m
                BY <2>2, <4>1
            <4>2. CASE q # m
                <5>1. q \in 1..Len(o)
                    BY <1>1, <4>2
                <5>. QED
                    BY <1>5, <5>1
            <4>. QED
                BY <4>1, <4>2
        <3>. QED
            BY <1>4, <3>1
    <2>. QED
        BY <2>1, <2>2
<1>7. \A q \in 1..Len(o) : e[o[q].index] = Owe(o[q])
    BY <1>4, <1>5
<1>8. Debts(msg, o, d, e)
    BY <1>4, <1>6, <1>7 DEF Debts, n
<1>9. Nested(o)
    BY <1>2, <1>5 DEF Nested, m
<1>. QED
    BY <1>2, <1>5, <1>8, <1>9 DEF Balanced, n

LEMMA BalancedAdvanced ==
    ASSUME NEW msg, NEW opn, Proper(msg, opn), Balanced(msg, opn), opn[Len(opn)].how = "bytes",
           NEW count, NEW o, Advanced(opn, count, o)
    PROVE  Balanced(msg, o)
<1>. DEFINE n == Len(msg)
            m == Len(opn)
<1>1. n \in Nat /\ m \in Nat /\ Len(o) = m
    BY DEF Proper, Advanced
<1>2. \A q \in 1..m : o[q].how = opn[q].how /\ o[q].index = opn[q].index /\ Owe(o[q]) = Owe(opn[q])
    <2>. SUFFICES ASSUME NEW q \in 1..m
                  PROVE  o[q].how = opn[q].how /\ o[q].index = opn[q].index /\ Owe(o[q]) = Owe(opn[q])
        OBVIOUS
    <2>1. CASE q = m
        <3>1. o[q].how = "bytes" /\ o[q].index = opn[q].index /\ opn[q].how = "bytes"
            BY <2>1 DEF Advanced
        <3>. QED
            BY <3>1 DEF Owe
    <2>2. CASE q # m
        BY <2>2 DEF Advanced
    <2>. QED
        BY <2>1, <2>2
<1>3. /\ \A i \in 1..n : Sensible(msg[i])
      /\ Nested(opn)
      /\ \A q \in 1..m : opn[q].how = "build" => msg[opn[q].index].tag.value = 0
    BY DEF Balanced
<1>4. PICK d, e : Debts(msg, opn, d, e)
    BY DEF Balanced
<1>5. /\ d \in [0..n -> Int] /\ e \in [1..n -> Int] /\ d[n] = 0
      /\ \A p \in 1..n : d[p - 1] = d[p] + 1 - Holding(msg[p].tag) + e[p] /\ d[p - 1] >= 1
      /\ \A q \in 1..m : e[opn[q].index] = Owe(opn[q])
      /\ \A p \in 1..n : (\A q \in 1..m : opn[q].index # p) => e[p] = 0
    BY <1>4 DEF Debts
<1>6. \A q \in 1..m : e[o[q].index] = Owe(o[q])
    BY <1>2, <1>5
<1>7. \A p \in 1..n : (\A q \in 1..m : o[q].index # p) => e[p] = 0
    BY <1>2, <1>5
<1>8. Nested(o)
    BY <1>1, <1>2, <1>3 DEF Nested
<1>9. \A q \in 1..m : o[q].how = "build" => msg[o[q].index].tag.value = 0
    BY <1>2, <1>3
<1>. HIDE DEF n, m
<1>10. Debts(msg, o, d, e)
    BY <1>1, <1>5, <1>6, <1>7 DEF Debts, n
<1>. QED
    BY <1>1, <1>3, <1>8, <1>9, <1>10 DEF Balanced, n

\* A build that is completed holds what was written into it.
PaidOff(e, E, n, i) == E \in [1..n -> Int] /\ E[i] = 0 /\ \A p \in 1..n : p # i => E[p] = e[p]

LEMMA PaidOffExists ==
    ASSUME NEW n \in Nat, NEW i \in 1..n, NEW e \in [1..n -> Int]
    PROVE  \E E : PaidOff(e, E, n, i)
<1>. DEFINE E == [p \in 1..n |-> IF p = i THEN 0 ELSE e[p]]
<1>1. E \in [1..n -> Int] /\ E[i] = 0 /\ \A p \in 1..n : p # i => E[p] = e[p]
    OBVIOUS
<1>. HIDE DEF E
<1>2. PaidOff(e, E, n, i)
    BY <1>1 DEF PaidOff
<1>. QED
    BY <1>2

LEMMA BuiltHolds ==
    ASSUME NEW msg, NEW opn, Proper(msg, opn), Balanced(msg, opn), NEW M, NEW o, Completing(msg, opn, M, o)
    PROVE  LET i == opn[Len(opn)].index
               left == opn[Len(opn)].left
           IN  /\ i \in 1..Len(msg) /\ left \in Int /\ Holding(msg[i].tag) = 0 /\ Holding(M[i].tag) = -1 - left
               /\ Sensible(M[i]) /\ Owe(opn[Len(opn)]) = left + 1
               /\ Len(M) = Len(msg) /\ \A k \in 1..Len(msg) : k # i => M[k] = msg[k]
<1>. DEFINE m == Len(opn)
            top == opn[m]
            i == top.index
            left == top.left
            type == msg[i].tag.type
            elements == -1 - left
<1>1. opn # <<>> /\ top.how = "build" /\ (type = "map" => elements % 2 = 0)
      /\ Retold(msg, i, BuiltTag(msg, opn), M)
    BY DEF Completing, Elements1
<1>2. opn \in Seq(Items) /\ msg \in Seq(Tokens)
    BY DEF Proper
<1>3. m \in 1..m /\ top \in Items
    BY <1>1, <1>2
<1>4. ProperItem(msg, opn, m)
    BY <1>3 DEF Proper
<1>5. i \in 1..Len(msg) /\ type \in {"array", "map"} /\ elements \in 0..Len(msg) /\ left \in Int
    BY <1>1, <1>3, <1>4 DEF ProperItem, Items
<1>6. msg[i].tag.value = 0 /\ Sensible(msg[i])
    BY <1>1, <1>3, <1>5 DEF Balanced
<1>7. Holding(msg[i].tag) = 0
    <2>1. 2 * 0 = 0
        OBVIOUS
    <2>2. CASE type = "array"
        BY <1>6, <2>2 DEF Holding
    <2>3. CASE type = "map"
        BY <1>6, <2>1, <2>3 DEF Holding
    <2>. QED
        BY <1>5, <2>2, <2>3
<1>. DEFINE v == IF type = "map" THEN elements \div 2 ELSE elements
            tag == Tag(type, v)
<1>8. BuiltTag(msg, opn) = tag
    BY DEF BuiltTag, Elements1
<1>9. M \in Seq(Tokens) /\ Len(M) = Len(msg) /\ M[i].tag = tag /\ M[i].body = msg[i].body
      /\ \A k \in 1..Len(msg) : k # i => M[k] = msg[k]
    BY <1>1, <1>8 DEF Retold
<1>10. tag.type = type /\ tag.value = v
    BY DEF Tag
<1>11. elements \in Nat /\ elements = -1 - left
    <2>1. Len(msg) \in Nat
        BY <1>2
    <2>. HIDE DEF elements
    <2>2. elements \in Nat
        BY <1>5, <2>1
    <2>. QED
        BY <2>2 DEF elements
<1>12. Holding(tag) = elements
    <2>1. CASE type = "array"
        <3>1. v = elements
            BY <2>1
        <3>. QED
            BY <1>10, <2>1, <3>1 DEF Holding
    <2>2. CASE type = "map"
        <3>1. v = elements \div 2 /\ elements % 2 = 0
            BY <1>1, <2>2
        <3>2. 2 * v = elements
            <4>. HIDE DEF elements, v
            <4>. QED
                BY <1>11, <3>1
        <3>. QED
            BY <1>10, <2>2, <3>2 DEF Holding
    <2>. QED
        BY <1>5, <2>1, <2>2
<1>. HIDE DEF elements, v, tag
<1>13. M[i].body = <<>>
    BY <1>5, <1>6, <1>9 DEF Sensible, HasBody
<1>14. Sensible(M[i])
    <2>1. M[i] \in Tokens
        BY <1>5, <1>9
    <2>. QED
        BY <1>5, <1>9, <1>10, <1>13, <2>1 DEF Sensible, HasBody
<1>15. Owe(top) = left + 1
    BY <1>1 DEF Owe
<1>. QED
    BY <1>5, <1>7, <1>9, <1>11, <1>12, <1>14, <1>15

LEMMA BalancedCompleted ==
    ASSUME NEW msg, NEW opn, Proper(msg, opn), Balanced(msg, opn), NEW M, NEW o, Completing(msg, opn, M, o)
    PROVE  Balanced(M, o)
<1>. DEFINE n == Len(msg)
            m == Len(opn)
            i == opn[m].index
            left == opn[m].left
<1>1. n \in Nat /\ m \in Nat /\ m >= 1 /\ Len(o) = m - 1 /\ \A p \in 1..(m - 1) : o[p] = opn[p]
    BY DEF Proper, Completing, Popped
<1>2. /\ i \in 1..n /\ left \in Int /\ Holding(msg[i].tag) = 0 /\ Holding(M[i].tag) = -1 - left
      /\ Sensible(M[i]) /\ Owe(opn[m]) = left + 1
      /\ Len(M) = n /\ \A k \in 1..n : k # i => M[k] = msg[k]
    BY BuiltHolds
<1>3. /\ \A k \in 1..n : Sensible(msg[k])
      /\ Nested(opn)
      /\ \A q \in 1..m : opn[q].how = "build" => msg[opn[q].index].tag.value = 0
    BY DEF Balanced
<1>4. PICK d, e : Debts(msg, opn, d, e)
    BY DEF Balanced
<1>5. /\ d \in [0..n -> Int] /\ e \in [1..n -> Int] /\ d[n] = 0
      /\ \A p \in 1..n : d[p - 1] = d[p] + 1 - Holding(msg[p].tag) + e[p] /\ d[p - 1] >= 1
      /\ \A q \in 1..m : e[opn[q].index] = Owe(opn[q])
      /\ \A p \in 1..n : (\A q \in 1..m : opn[q].index # p) => e[p] = 0
    BY <1>4 DEF Debts
<1>6. PICK E : PaidOff(e, E, n, i)
    BY <1>1, <1>2, <1>5, PaidOffExists
<1>7. E \in [1..n -> Int] /\ E[i] = 0 /\ \A p \in 1..n : p # i => E[p] = e[p]
    BY <1>6 DEF PaidOff
<1>a. m \in 1..m
    BY <1>1
<1>b. \A q \in 1..(m - 1) : opn[q].index < i
    <2>. SUFFICES ASSUME NEW q \in 1..(m - 1) PROVE opn[q].index < i
        OBVIOUS
    <2>1. q \in 1..m /\ q < m
        BY <1>1
    <2>. QED
        BY <1>3, <1>a, <2>1 DEF Nested
<1>c. \A q \in 1..(m - 1) : opn[q].index # i
    <2>. SUFFICES ASSUME NEW q \in 1..(m - 1) PROVE opn[q].index # i
        OBVIOUS
    <2>1. opn[q].index < i
        BY <1>b
    <2>2. i \in Nat
        BY <1>2
    <2>. HIDE DEF i
    <2>. QED
        BY <2>1, <2>2
<1>d. \A q \in 1..(m - 1) : opn[q].index \in 1..n
    <2>1. \A q \in 1..(m - 1) : q \in 1..m
        BY <1>1
    <2>. QED
        BY <2>1 DEF Proper, ProperItem
<1>e. e[i] = left + 1
    BY <1>2, <1>5, <1>a
<1>. HIDE DEF n, m, i, left
<1>8. \A q \in 1..Len(o) : q \in 1..m /\ o[q] = opn[q] /\ o[q].index # i /\ o[q].index \in 1..n
    BY <1>1, <1>c, <1>d
<1>9. \A p \in 1..n : (\A q \in 1..Len(o) : o[q].index # p) => E[p] = 0
    <2>. SUFFICES ASSUME NEW p \in 1..n, \A q \in 1..Len(o) : o[q].index # p PROVE E[p] = 0
        OBVIOUS
    <2>1. CASE p = i
        BY <1>7, <2>1
    <2>2. CASE p # i
        <3>1. ASSUME NEW q \in 1..m PROVE opn[q].index # p
            <4>1. CASE q = m
                BY <2>2, <4>1 DEF i
            <4>2. CASE q # m
                <5>1. q \in 1..Len(o)
                    BY <1>1, <4>2
                <5>. QED
                    BY <1>8, <5>1
            <4>. QED
                BY <4>1, <4>2
        <3>2. e[p] = 0
            BY <1>5, <3>1
        <3>. QED
            BY <1>7, <2>2, <3>2
    <2>. QED
        BY <2>1, <2>2
<1>10. \A q \in 1..Len(o) : E[o[q].index] = Owe(o[q])
    <2>. SUFFICES ASSUME NEW q \in 1..Len(o) PROVE E[o[q].index] = Owe(o[q])
        OBVIOUS
    <2>1. E[o[q].index] = e[o[q].index]
        BY <1>7, <1>8
    <2>2. e[opn[q].index] = Owe(opn[q])
        BY <1>5, <1>8
    <2>. QED
        BY <1>8, <2>1, <2>2
<1>11. \A p \in 1..n : d[p - 1] = d[p] + 1 - Holding(M[p].tag) + E[p] /\ d[p - 1] >= 1
    <2>. SUFFICES ASSUME NEW p \in 1..n
                  PROVE  d[p - 1] = d[p] + 1 - Holding(M[p].tag) + E[p] /\ d[p - 1] >= 1
        OBVIOUS
    <2>1. d[p - 1] = d[p] + 1 - Holding(msg[p].tag) + e[p] /\ d[p - 1] >= 1
        BY <1>5
    <2>2. CASE p = i
        <3>. DEFINE a == d[p - 1]
                    b == d[p]
        <3>0. p \in 0..n
            OBVIOUS
        <3>1. b \in Int
            BY <1>5, <3>0
        <3>2. a = b + 1 - 0 + (left + 1) /\ a >= 1
            BY <1>2, <1>e, <2>1, <2>2
        <3>3. Holding(M[p].tag) = -1 - left /\ E[p] = 0
            BY <1>2, <1>7, <2>2
        <3>. HIDE DEF a, b
        <3>4. a = b + 1 - (-1 - left) + 0
            BY <1>2, <3>1, <3>2
        <3>. QED
            BY <3>2, <3>3, <3>4 DEF a, b
    <2>3. CASE p # i
        BY <1>2, <1>7, <2>1, <2>3
    <2>. QED
        BY <2>2, <2>3
<1>12. Debts(M, o, d, E)
    BY <1>2, <1>5, <1>7, <1>9, <1>10, <1>11 DEF Debts
<1>13. Nested(o)
    BY <1>3, <1>8 DEF Nested, m
<1>14. \A k \in 1..n : Sensible(M[k])
    BY <1>2, <1>3
<1>15. \A q \in 1..Len(o) : o[q].how = "build" => M[o[q].index].tag.value = 0
    BY <1>2, <1>3, <1>8
<1>. QED
    BY <1>2, <1>12, <1>13, <1>14, <1>15 DEF Balanced

\* One lemma per action of the user: the message stays balanced.
LEMMA BalancedOn ==
    ASSUME Good(writer, message, open), Balanced(message, open), MayWrite,
           NEW token, Sensible(token), NEW M, M = Append(message, token), NEW o, Opens(message, open, token, o)
    PROVE  Balanced(M, o)
<1>1. open # <<>> => Last(open).how # "bytes"
    BY AtTop
<1>2. Proper(message, open) /\ NoBytes(open)
    BY <1>1, GoodTop
<1>. QED
    BY <1>2, BalancedSaid

LEMMA BalancedScalar ==
    ASSUME Good(writer, message, open), Balanced(message, open), NEW tag \in Scalars, WriteAScalar(tag)
    PROVE  Balanced(message', open')
<1>. DEFINE token == [tag |-> tag, body |-> <<>>]
            M == message'
            o == open'
<1>1. MayWrite /\ M = Append(message, token) /\ o = Counting(open)
    BY CountedIs DEF WriteAScalar, Say
<1>2. tag \in Tags /\ tag.type # "ext" /\ tag.type \notin {"str", "bin", "array", "map"}
    BY ScalarTag
<1>3. token \in Tokens /\ token.tag = tag /\ token.body = <<>>
    BY <1>2, TokenOf, Nothings
<1>. HIDE DEF token, M, o
<1>4. Sensible(token)
    BY <1>2, <1>3 DEF Sensible, HasBody
<1>5. Holding(token.tag) = 0
    BY <1>2, <1>3 DEF Holding
<1>6. Opens(message, open, token, o)
    BY <1>1, <1>5 DEF Opens
<1>7. Balanced(M, o)
    BY <1>1, <1>4, <1>6, BalancedOn
<1>. QED
    BY <1>7 DEF M, o

LEMMA BalancedForeign ==
    ASSUME Good(writer, message, open), Balanced(message, open), WriteAForeign
    PROVE  Balanced(message', open')
<1>. DEFINE M == message'
            o == open'
            token == Foreign
<1>1. MayWrite /\ M = Append(message, token) /\ o = Counting(open)
    <2>1. MayWrite /\ M = Append(message, [tag |-> Foreign.tag, body |-> Foreign.body]) /\ o = Counting(open)
        BY CountedIs DEF WriteAForeign, Say
    <2>2. [tag |-> Foreign.tag, body |-> Foreign.body] = Foreign
        BY DEF Foreign
    <2>. QED
        BY <2>1, <2>2
<1>2. token.tag \in Tags /\ token.tag.type = "ext" /\ ~HasBody(token.tag)
    BY DEF Foreign, Tag, Tags, Kinds, HasBody
<1>3. token.body \in Bytes
    BY DEF Foreign, Bytes, Octets
<1>4. token \in Tokens
    <2>1. [tag |-> Foreign.tag, body |-> Foreign.body] \in Tokens
        BY <1>2, <1>3, TokenOf
    <2>2. [tag |-> Foreign.tag, body |-> Foreign.body] = Foreign
        BY DEF Foreign
    <2>. QED
        BY <2>1, <2>2
<1>5. Sensible(token)
    BY <1>2, <1>4 DEF Sensible
<1>6. Holding(token.tag) = 0
    BY <1>2 DEF Holding
<1>. HIDE DEF token, M, o
<1>7. Opens(message, open, token, o)
    BY <1>1, <1>6 DEF Opens
<1>8. Balanced(M, o)
    BY <1>1, <1>5, <1>7, BalancedOn
<1>. QED
    BY <1>8 DEF M, o

LEMMA TextSensible ==
    ASSUME NEW type \in {"str", "bin"}, NEW text \in Texts
    PROVE  Sensible(TextToken(type, text)) /\ Holding(TextToken(type, text).tag) = 0
<1>. DEFINE token == TextToken(type, text)
            tag == Tag(type, Len(text))
<1>1. token \in Tokens /\ token.tag = tag /\ token.body = text
    BY TextTokens DEF TextToken
<1>2. tag.type = type /\ tag.value = Len(text)
    BY DEF Tag
<1>3. tag.type # "ext" /\ HasBody(tag) /\ tag.type \notin {"array", "map"}
    BY <1>2 DEF HasBody
<1>. HIDE DEF tag, token
<1>4. Sensible(token) /\ Holding(token.tag) = 0
    BY <1>1, <1>2, <1>3 DEF Sensible, Holding
<1>. QED
    BY <1>4 DEF token

LEMMA BalancedStr ==
    ASSUME Good(writer, message, open), Balanced(message, open), NEW text \in Texts, WriteAStr(text)
    PROVE  Balanced(message', open')
<1>. DEFINE token == TextToken("str", text)
            M == message'
            o == open'
<1>1. MayWrite /\ M = Append(message, token) /\ o = Counting(open)
    BY CountedIs DEF WriteAStr, Say, TextToken
<1>2. Sensible(token) /\ Holding(token.tag) = 0
    BY TextSensible
<1>. HIDE DEF token, M, o
<1>3. Opens(message, open, token, o)
    BY <1>1, <1>2 DEF Opens
<1>4. Balanced(M, o)
    BY <1>1, <1>2, <1>3, BalancedOn
<1>. QED
    BY <1>4 DEF M, o

LEMMA BalancedOpened ==
    ASSUME Good(writer, message, open), Balanced(message, open), MayWrite,
           NEW token, Sensible(token), NEW M, M = Append(message, token),
           NEW item, NEW o, Pushed(Counting(open), item, o), item.index = Len(message) + 1,
           Owe(item) = Holding(token.tag), item.how = "build" => token.tag.value = 0
    PROVE  Balanced(M, o)
<1>1. Opens(message, open, token, o)
    BY DEF Opens
<1>. QED
    BY <1>1, BalancedOn

LEMMA BalancedStartBytes ==
    ASSUME Good(writer, message, open), Balanced(message, open), NEW text \in Texts, StartBytes("bin", text)
    PROVE  Balanced(message', open')
<1>. DEFINE token == TextToken("bin", text)
            item == [how |-> "bytes", index |-> Len(message) + 1, left |-> Len(text)]
            M == message'
            o == open'
            p == Opening("bytes", Len(text))
<1>1. MayWrite /\ M = Append(message, token) /\ o = p
    BY DEF StartBytes, Say, TextToken
<1>2. Sensible(token) /\ Holding(token.tag) = 0
    BY TextSensible
<1>3. Len(text) \in Int
    BY TextBytes
<1>4. open \in Seq(Items) /\ Len(message) \in Nat
    BY DEF Good, Proper
<1>5. Pushed(Counting(open), item, p)
    BY <1>3, <1>4, OpeningIs
<1>6. item.index = Len(message) + 1 /\ item.how = "bytes"
    OBVIOUS
<1>. HIDE DEF token, M, o, item, p
<1>7. Owe(item) = 0
    BY <1>6 DEF Owe
<1>8. Balanced(M, o)
    BY <1>1, <1>2, <1>5, <1>6, <1>7, BalancedOpened
<1>. QED
    BY <1>8 DEF M, o

LEMMA CountSensible ==
    ASSUME NEW type \in {"array", "map"}, NEW n \in Nat, n < Weight[4]
    PROVE  Sensible(CountToken(type, n))
<1>. DEFINE token == CountToken(type, n)
            tag == Tag(type, n)
<1>1. token \in Tokens /\ token.tag = tag /\ token.body = <<>> /\ tag.type = type
    BY CountTokens DEF CountToken
<1>2. tag.type # "ext" /\ ~HasBody(tag)
    BY <1>1 DEF HasBody
<1>. HIDE DEF tag, token
<1>3. Sensible(token)
    BY <1>1, <1>2 DEF Sensible
<1>. QED
    BY <1>3 DEF token

LEMMA BalancedStart ==
    ASSUME Good(writer, message, open), Balanced(message, open),
           NEW type \in {"array", "map"}, NEW n \in Counts, Start(type, n)
    PROVE  Balanced(message', open')
<1>. DEFINE token == CountToken(type, n)
            left == Holding(Tag(type, n))
            item == [how |-> "start", index |-> Len(message) + 1, left |-> left]
            M == message'
            o == open'
            p == Opening("start", left)
<1>1. MayWrite /\ M = Append(message, token) /\ o = p
    BY DEF Start, Say, CountToken
<1>2. n \in Nat /\ n < Weight[4]
    BY StreamAssumption
<1>3. Sensible(token) /\ left \in Int /\ token.tag = Tag(type, n)
    BY <1>2, CountSensible, HeldNumber DEF CountToken
<1>4. open \in Seq(Items) /\ Len(message) \in Nat
    BY DEF Good, Proper
<1>5. Pushed(Counting(open), item, p)
    BY <1>3, <1>4, OpeningIs
<1>6. item.index = Len(message) + 1 /\ item.how = "start" /\ item.left = left
    OBVIOUS
<1>7. left = Holding(token.tag)
    BY <1>3
<1>. HIDE DEF token, M, o, item, p, left
<1>8. Owe(item) = Holding(token.tag)
    BY <1>6, <1>7 DEF Owe
<1>9. Balanced(M, o)
    BY <1>1, <1>3, <1>5, <1>6, <1>8, BalancedOpened
<1>. QED
    BY <1>9 DEF M, o

LEMMA BalancedBuild ==
    ASSUME Good(writer, message, open), Balanced(message, open), NEW type \in {"array", "map"}, Build(type)
    PROVE  Balanced(message', open')
<1>. DEFINE token == CountToken(type, 0)
            item == [how |-> "build", index |-> Len(message) + 1, left |-> -1]
            M == message'
            o == open'
            p == Opening("build", -1)
<1>1. MayWrite /\ M = Append(message, token) /\ o = p
    BY DEF Build, Say, CountToken
<1>2. 0 \in Nat /\ 0 < Weight[4]
    <2>1. 4 \in 0..8
        OBVIOUS
    <2>2. Weight[4] \in Nat \ {0}
        BY <2>1, WeightOf
    <2>. QED
        BY <2>2
<1>3. Sensible(token) /\ token.tag.type = type /\ token.tag.value = 0
    BY <1>2, CountSensible, CountTokens DEF CountToken
<1>4. open \in Seq(Items) /\ Len(message) \in Nat
    BY DEF Good, Proper
<1>5. Pushed(Counting(open), item, p)
    BY <1>4, OpeningIs
<1>6. item.index = Len(message) + 1 /\ item.how = "build" /\ item.left = -1
    OBVIOUS
<1>7. Holding(token.tag) = 0
    <2>1. 2 * 0 = 0
        OBVIOUS
    <2>. HIDE DEF token
    <2>2. CASE type = "array"
        BY <1>3, <2>2 DEF Holding
    <2>3. CASE type = "map"
        BY <1>3, <2>1, <2>3 DEF Holding
    <2>. QED
        BY <2>2, <2>3
<1>. HIDE DEF token, M, o, item, p
<1>8. Owe(item) = 0
    BY <1>6 DEF Owe
<1>9. Balanced(M, o)
    BY <1>1, <1>3, <1>5, <1>6, <1>7, <1>8, BalancedOpened
<1>. QED
    BY <1>9 DEF M, o

LEMMA BalancedSomeBytes ==
    ASSUME Good(writer, message, open), Balanced(message, open), NEW count, WriteSomeBytes(count)
    PROVE  Balanced(message', open')
<1>. DEFINE o == open'
<1>1. open # <<>> /\ Last(open).how = "bytes" /\ count \in 1..Last(open).left
    BY DEF WriteSomeBytes, Unwritten
<1>2. Proper(message, open) /\ open \in Seq(Items) /\ Last(open) = open[Len(open)] /\ open[Len(open)].left \in Int
    BY <1>1, OpenTop
<1>3. open[Len(open)].how = "bytes" /\ count \in Int
    BY <1>1, <1>2
<1>4. o = [open EXCEPT ![Len(open)].left = open[Len(open)].left - count] /\ message' = message
    BY <1>2 DEF WriteSomeBytes
<1>. HIDE DEF o
<1>5. Advanced(open, count, o)
    BY <1>1, <1>2, <1>3, <1>4, Advancing
<1>6. Balanced(message, o)
    BY <1>2, <1>3, <1>5, BalancedAdvanced
<1>. QED
    BY <1>4, <1>6 DEF o

LEMMA BalancedEnded ==
    ASSUME Good(writer, message, open), Balanced(message, open), FinishBytes \/ Finish
    PROVE  Balanced(message', open')
<1>1. open # <<>> /\ open' = Front(open) /\ message' = message
      /\ \/ Last(open).how = "bytes"
         \/ Last(open).how = "start" /\ Last(open).left = 0
    BY DEF FinishBytes, Finish
<1>2. Proper(message, open) /\ Last(open) = open[Len(open)] /\ Popped(open, Front(open))
    BY <1>1, OpenTop
<1>3. Owe(open[Len(open)]) = 0
    BY <1>1, <1>2 DEF Owe
<1>. DEFINE o == Front(open)
<1>. HIDE DEF o
<1>4. Balanced(message, o)
    BY <1>2, <1>3, BalancedPopped DEF o
<1>. QED
    BY <1>1, <1>4 DEF o

LEMMA BalancedComplete ==
    ASSUME Good(writer, message, open), Balanced(message, open), Complete
    PROVE  Balanced(message', open')
<1>. DEFINE M == message'
            o == open'
<1>1. Completing(message, open, M, o) /\ Proper(message, open)
    BY CompletingIs DEF Good
<1>. HIDE DEF M, o
<1>2. Balanced(M, o)
    BY <1>1, BalancedCompleted
<1>. QED
    BY <1>2 DEF M, o

LEMMA BalancedWritten ==
    ASSUME Good(writer, message, open), Balanced(message, open), Written1
    PROVE  Balanced(message', open')
<1>1. CASE \E tag \in Scalars : WriteAScalar(tag)
    BY <1>1, BalancedScalar
<1>2. CASE WriteAForeign
    BY <1>2, BalancedForeign
<1>3. CASE \E text \in Texts : WriteAStr(text)
    BY <1>3, BalancedStr
<1>4. CASE \E text \in Texts : StartBytes("bin", text)
    BY <1>4, BalancedStartBytes
<1>5. CASE \E count \in {Piece, Unwritten} : WriteSomeBytes(count)
    BY <1>5, BalancedSomeBytes
<1>6. CASE FinishBytes \/ Finish
    BY <1>6, BalancedEnded
<1>7. CASE \E type \in {"array", "map"}, count \in Counts : Start(type, count)
    BY <1>7, BalancedStart
<1>8. CASE \E type \in {"array", "map"} : Build(type)
    BY <1>8, BalancedBuild
<1>9. CASE Complete
    BY <1>9, BalancedComplete
<1>10. CASE Flush \/ GiveUp
    <2>1. UNCHANGED <<message, open>>
        BY <1>10 DEF Flush, GiveUp
    <2>. QED
        BY <2>1
<1>. QED
    BY <1>1, <1>2, <1>3, <1>4, <1>5, <1>6, <1>7, <1>8, <1>9, <1>10 DEF Written1

LEMMA BalancedNone ==
    Balanced(<<>>, <<>>)
<1>. DEFINE d == [p \in 0..0 |-> 0]
            e == [p \in 1..0 |-> 0]
<1>1. d \in [0..0 -> Int] /\ d[0] = 0 /\ e \in [1..0 -> Int] /\ Len(<<>>) = 0
    OBVIOUS
<1>. HIDE DEF d, e
<1>2. Debts(<<>>, <<>>, d, e)
    BY <1>1 DEF Debts
<1>. QED
    BY <1>1, <1>2 DEF Balanced, Nested

------------------------------------------------------------------------------------
(* What a message has from a place on. *)

WireFrom(msg, p) == Wire(SubSeq(msg, p + 1, Len(msg)))

LEMMA WireFromStep ==
    ASSUME NEW msg \in Seq(Tokens), NEW p \in Nat, p < Len(msg)
    PROVE  WireFrom(msg, p) = Spelled(msg[p + 1]) \o WireFrom(msg, p + 1) /\ WireFrom(msg, p) \in Bytes
           /\ WireFrom(msg, p + 1) \in Bytes
<1>. DEFINE n == Len(msg)
            q == p + 1
            u == SubSeq(msg, p + 1, q)
            v == SubSeq(msg, q + 1, n)
<1>1. n \in Nat /\ q \in Nat /\ p <= q /\ q <= n /\ n <= Len(msg) /\ q \in 1..Len(msg)
    OBVIOUS
<1>2. u = <<msg[q]>> /\ msg[q] \in Tokens
    BY <1>1, SliceOfOne
<1>3. TokenSlices(msg, p, q, n)
    <2>. HIDE DEF n, q
    <2>. QED
        BY <1>1, TokenSlicesJoin
<1>4. u \o v = SubSeq(msg, p + 1, n) /\ u \in Seq(Tokens) /\ v \in Seq(Tokens)
    BY <1>3 DEF TokenSlices
<1>. HIDE DEF n, q, u, v
<1>5. Wire(u \o v) = Wire(u) \o Wire(v) /\ Wire(v) \in Bytes /\ Wire(u) = Spelled(msg[q]) /\ Wire(u) \in Bytes
    BY <1>2, <1>4, WireJoin, WireBytes, WireOfOne
<1>6. Wire(u) \o Wire(v) \in Bytes
    BY <1>5, Join
<1>. QED
    BY <1>4, <1>5, <1>6 DEF WireFrom, n, q, v

LEMMA WireFromAll ==
    ASSUME NEW msg \in Seq(Tokens)
    PROVE  WireFrom(msg, 0) = Wire(msg) /\ WireFrom(msg, Len(msg)) = <<>> /\ Len(msg) \in Nat
<1>1. SubSeq(msg, 0 + 1, Len(msg)) = msg /\ SubSeq(msg, Len(msg) + 1, Len(msg)) = <<>> /\ Len(msg) \in Nat
    OBVIOUS
<1>. QED
    BY <1>1, WireBytes DEF WireFrom

LEMMA WireFromBytes ==
    ASSUME NEW msg \in Seq(Tokens), NEW p \in 0..Len(msg)
    PROVE  WireFrom(msg, p) \in Bytes
<1>1. p \in Nat /\ Len(msg) \in Nat /\ (p < Len(msg) \/ p = Len(msg))
    OBVIOUS
<1>2. <<>> \in Bytes
    BY Nothings
<1>. QED
    BY <1>1, <1>2, WireFromStep, WireFromAll

------------------------------------------------------------------------------------
(* How many tokens an object has. *)

\* What is owed after each token from a place on, and the same by what is there.
Owing(f, from, left) ==
    f = [n \in 0..left |-> IF n = 0 THEN 1 ELSE f[n - 1] - 1 + Holding(message[from + n - 1].tag)]
OwedFrom(d, p, left) == [k \in 0..left |-> 1 - d[p] + d[p + k]]

LEMMA OwingIs ==
    ASSUME message \in Seq(Tokens), NEW d, NEW e, Debts(message, <<>>, d, e), NEW p \in Nat, p < Len(message),
           NEW left, left = Len(message) - p
    PROVE  /\ left \in Nat /\ left >= 1
           /\ Owing(OwedFrom(d, p, left), p + 1, left)
           /\ \A k \in 0..left : OwedFrom(d, p, left)[k] = 1 - d[p] + d[p + k] /\ OwedFrom(d, p, left)[k] \in Int
           /\ \A k \in 1..left : /\ OwedFrom(d, p, left)[k] = OwedFrom(d, p, left)[k - 1] - 1 + Holding(message[p + k].tag)
                                 /\ Holding(message[p + k].tag) \in Nat
           /\ OwedFrom(d, p, left)[0] = 1 /\ OwedFrom(d, p, left)[left] <= 0
<1>. DEFINE n == Len(message)
            g == OwedFrom(d, p, left)
            h == [k \in 0..left |-> IF k = 0 THEN 1 ELSE g[k - 1] - 1 + Holding(message[(p + 1) + k - 1].tag)]
<1>1. n \in Nat /\ p < n /\ left = n - p
    OBVIOUS
<1>2. /\ d \in [0..n -> Int] /\ d[n] = 0 /\ e \in [1..n -> Int]
      /\ \A q \in 1..n : d[q - 1] = d[q] + 1 - Holding(message[q].tag) + e[q] /\ d[q - 1] >= 1 /\ e[q] = 0
    BY DEF Debts
<1>3. \A q \in 1..n : message[q] \in Tokens
    OBVIOUS
<1>4. \A q \in 1..n : Holding(message[q].tag) \in Nat
    <2>1. \A q \in 1..n : message[q].tag \in Tags
        BY <1>3 DEF Tokens
    <2>. QED
        BY <2>1, HeldNat
<1>. HIDE DEF n
<1>5. \A k \in 0..left : g[k] = 1 - d[p] + d[p + k]
    BY DEF OwedFrom
<1>a. left \in Nat /\ left >= 1 /\ p + left = n
    BY <1>1
<1>6. \A k \in 0..left : p + k \in 0..n
    BY <1>1, <1>a
<1>b. p \in 0..n
    BY <1>1
<1>7. \A k \in 0..left : g[k] \in Int
    <2>. SUFFICES ASSUME NEW k \in 0..left PROVE g[k] \in Int
        OBVIOUS
    <2>1. d[p] \in Int /\ d[p + k] \in Int
        BY <1>2, <1>6, <1>b
    <2>2. g[k] = 1 - d[p] + d[p + k]
        BY <1>5
    <2>. HIDE DEF g
    <2>. QED
        BY <2>1, <2>2
<1>8. \A k \in 1..left : g[k] = g[k - 1] - 1 + Holding(message[p + k].tag) /\ Holding(message[p + k].tag) \in Nat
    <2>. SUFFICES ASSUME NEW k \in 1..left
                  PROVE  g[k] = g[k - 1] - 1 + Holding(message[p + k].tag) /\ Holding(message[p + k].tag) \in Nat
        OBVIOUS
    <2>. DEFINE H == Holding(message[p + k].tag)
                x == d[p + k]
                y == d[p + k - 1]
                z == d[p]
    <2>1. k \in 0..left /\ k - 1 \in 0..left /\ p + k \in 1..n /\ p + k \in 0..n /\ p + (k - 1) = p + k - 1
          /\ p + k - 1 \in 0..n
        BY <1>1, <1>a
    <2>2. g[k] = 1 - z + x /\ g[k - 1] = 1 - z + y
        BY <1>5, <2>1
    <2>3. y = x + 1 - H + e[p + k] /\ e[p + k] = 0 /\ H \in Nat
        BY <1>2, <1>4, <2>1
    <2>4. x \in Int /\ y \in Int /\ z \in Int
        BY <1>2, <1>b, <2>1
    <2>. DEFINE a == g[k]
                b == g[k - 1]
                c == e[p + k]
    <2>5. a = 1 - z + x /\ b = 1 - z + y /\ y = x + 1 - H + c /\ c = 0 /\ H \in Nat
        BY <2>2, <2>3
    <2>. HIDE DEF H, x, y, z, g, a, b, c
    <2>6. a = b - 1 + H
        BY <2>4, <2>5
    <2>. QED
        BY <2>5, <2>6 DEF a, b, H
<1>9. g[0] = 1
    <2>1. p + 0 = p /\ 0 \in 0..left
        BY <1>a
    <2>2. g[0] = 1 - d[p] + d[p]
        BY <1>5, <2>1
    <2>3. d[p] \in Int
        BY <1>2, <1>b
    <2>. HIDE DEF g
    <2>. QED
        BY <2>2, <2>3
<1>10. g[left] <= 0
    <2>1. left \in 0..left
        BY <1>a
    <2>2. g[left] = 1 - d[p] + 0
        BY <1>2, <1>5, <1>a, <2>1
    <2>3. p + 1 \in 1..n /\ p + 1 - 1 = p
        BY <1>1
    <2>4. d[p] >= 1 /\ d[p] \in Int
        BY <1>2, <1>b, <2>3
    <2>. HIDE DEF g
    <2>. QED
        BY <2>2, <2>4
<1>11. g = h
    <2>1. \A k \in 0..left : g[k] = h[k]
        <3>. SUFFICES ASSUME NEW k \in 0..left PROVE g[k] = h[k]
            OBVIOUS
        <3>. HIDE DEF g
        <3>1. CASE k = 0
            BY <1>9, <3>1
        <3>2. CASE k # 0
            <4>1. k \in 1..left /\ (p + 1) + k - 1 = p + k
                BY <1>a, <3>2
            <4>. QED
                BY <1>8, <3>2, <4>1
        <3>. QED
            BY <3>1, <3>2
    <2>2. g = [k \in 0..left |-> g[k]]
        BY DEF OwedFrom
    <2>3. h = [k \in 0..left |-> h[k]]
        OBVIOUS
    <2>. HIDE DEF g, h
    <2>. QED
        BY <2>1, <2>2, <2>3
<1>12. Owing(g, p + 1, left)
    <2>. HIDE DEF g
    <2>. QED
        BY <1>11 DEF Owing
<1>. QED
    BY <1>5, <1>7, <1>8, <1>9, <1>10, <1>12, <1>a

\* There is one such function.
LEMMA OwingAlike ==
    ASSUME NEW from, NEW left \in Nat, NEW f, Owing(f, from, left), NEW g, Owing(g, from, left)
    PROVE  f = g
<1>. DEFINE S == {k \in 0..left : f[k] # g[k]}
            F(h) == [n \in 0..left |-> IF n = 0 THEN 1 ELSE h[n - 1] - 1 + Holding(message[from + n - 1].tag)]
<1>1. f = F(f) /\ g = F(g)
    BY DEF Owing
<1>2. S = {}
    <2>. SUFFICES ASSUME S # {} PROVE FALSE
        OBVIOUS
    <2>1. S \subseteq Nat
        OBVIOUS
    <2>. HIDE DEF S
    <2>2. PICK k \in S : \A i \in S : k <= i
        BY <2>1, LeastNumber
    <2>3. k \in 0..left /\ f[k] # g[k]
        BY DEF S
    <2>4. CASE k = 0
        <3>1. f[0] = 1 /\ g[0] = 1
            BY <1>1
        <3>. QED
            BY <2>3, <2>4, <3>1
    <2>5. CASE k # 0
        <3>1. k - 1 \in 0..left /\ ~(k <= k - 1)
            BY <2>3, <2>5
        <3>2. k - 1 \notin S
            BY <2>2, <3>1
        <3>3. f[k - 1] = g[k - 1]
            BY <3>1, <3>2 DEF S
        <3>4. f[k] = f[k - 1] - 1 + Holding(message[from + k - 1].tag)
            BY <1>1, <2>3, <2>5
        <3>5. g[k] = g[k - 1] - 1 + Holding(message[from + k - 1].tag)
            BY <1>1, <2>3, <2>5
        <3>. QED
            BY <2>3, <3>3, <3>4, <3>5
    <2>. QED
        BY <2>4, <2>5
<1>3. \A k \in 0..left : f[k] = g[k]
    BY <1>2
<1>4. f = [k \in 0..left |-> f[k]] /\ g = [k \in 0..left |-> g[k]]
    BY <1>1
<1>. HIDE DEF F
<1>. QED
    BY <1>3, <1>4

\* The first place where nothing is owed.
FirstPaid(g, left, k) == k \in 1..left /\ g[k] = 0 /\ \A i \in 1..(k - 1) : g[i] > 0

LEMMA PaidSometime ==
    ASSUME message \in Seq(Tokens), NEW d, NEW e, Debts(message, <<>>, d, e), NEW p \in Nat, p < Len(message),
           NEW left, left = Len(message) - p
    PROVE  \E k : FirstPaid(OwedFrom(d, p, left), left, k)
<1>. DEFINE g == OwedFrom(d, p, left)
            S == {k \in Nat : k \in 1..left /\ g[k] <= 0}
<1>1. /\ left \in Nat /\ left >= 1
      /\ \A k \in 0..left : g[k] \in Int
      /\ \A k \in 1..left : g[k] = g[k - 1] - 1 + Holding(message[p + k].tag) /\ Holding(message[p + k].tag) \in Nat
      /\ g[0] = 1 /\ g[left] <= 0
    <2>. HIDE DEF S
    <2>1. left \in Nat /\ left >= 1
        BY OwingIs
    <2>2. \A k \in 0..left : g[k] \in Int
        BY OwingIs
    <2>3. \A k \in 1..left : /\ g[k] = g[k - 1] - 1 + Holding(message[p + k].tag)
                             /\ Holding(message[p + k].tag) \in Nat
        BY OwingIs
    <2>4. g[0] = 1 /\ g[left] <= 0
        BY OwingIs
    <2>. HIDE DEF g
    <2>. QED
        BY <2>1, <2>2, <2>3, <2>4
<1>. HIDE DEF g
<1>2. S \subseteq Nat /\ S # {}
    <2>1. left \in S
        BY <1>1
    <2>. QED
        BY <2>1
<1>. HIDE DEF S
<1>3. PICK k \in S : \A i \in S : k <= i
    BY <1>2, LeastNumber
<1>4. k \in Nat /\ k \in 1..left /\ g[k] <= 0
    BY DEF S
<1>5. \A i \in 1..(k - 1) : g[i] > 0
    <2>. SUFFICES ASSUME NEW i \in 1..(k - 1) PROVE g[i] > 0
        OBVIOUS
    <2>1. i \in 1..left /\ i \in 0..left /\ i \in Nat /\ ~(k <= i)
        BY <1>1, <1>4
    <2>2. i \notin S
        BY <1>3, <2>1
    <2>3. ~(g[i] <= 0) /\ g[i] \in Int
        BY <1>1, <2>1, <2>2 DEF S
    <2>. QED
        BY <2>3
<1>6. g[k - 1] >= 1 /\ g[k - 1] \in Int
    <2>1. CASE k = 1
        <3>1. k - 1 = 0
            BY <2>1
        <3>. QED
            BY <1>1, <3>1
    <2>2. CASE k # 1
        <3>1. k - 1 \in 1..(k - 1) /\ k - 1 \in 0..left
            BY <1>1, <1>4, <2>2
        <3>2. g[k - 1] > 0 /\ g[k - 1] \in Int
            BY <1>1, <1>5, <3>1
        <3>. QED
            BY <3>2
    <2>. QED
        BY <2>1, <2>2
<1>7. g[k] = 0
    <2>. DEFINE H == Holding(message[p + k].tag)
                a == g[k - 1]
                b == g[k]
    <2>1. b = a - 1 + H /\ H \in Nat /\ a >= 1 /\ a \in Int /\ b <= 0
        BY <1>1, <1>4, <1>6
    <2>. HIDE DEF H, a, b
    <2>2. b = 0
        BY <2>1
    <2>. QED
        BY <2>2 DEF b
<1>8. FirstPaid(g, left, k)
    BY <1>4, <1>5, <1>7 DEF FirstPaid
<1>. QED
    BY <1>8 DEF g

LEMMA ExtentIs ==
    ASSUME message \in Seq(Tokens), NEW d, NEW e, Debts(message, <<>>, d, e), NEW p \in Nat, p < Len(message),
           NEW left, left = Len(message) - p
    PROVE  FirstPaid(OwedFrom(d, p, left), left, Extent(p + 1))
<1>. DEFINE from == p + 1
            more == Len(message) - from + 1
            F(f) == [n \in 0..more |-> IF n = 0 THEN 1 ELSE f[n - 1] - 1 + Holding(message[from + n - 1].tag)]
            owed == CHOOSE f : f = F(f)
            P(n) == owed[n] = 0 /\ \A k \in 1..(n - 1) : owed[k] > 0
            g == OwedFrom(d, p, left)
            size == Extent(p + 1)
<1>1. more = left /\ left \in Nat
    BY OwingIs
<1>2. Owing(g, from, left)
    BY OwingIs
<1>. HIDE DEF g, more
<1>3. g = F(g)
    BY <1>1, <1>2 DEF Owing
<1>4. owed = F(owed)
    <2>. HIDE DEF F
    <2>. QED
        BY <1>3
<1>. HIDE DEF owed
<1>5. Owing(owed, from, left)
    BY <1>1, <1>4 DEF Owing
<1>. HIDE DEF from
<1>6. owed = g
    BY <1>1, <1>2, <1>5, OwingAlike
<1>7. size = CHOOSE n \in 1..more : P(n)
    BY DEF Extent, owed, more, from
<1>. HIDE DEF size
<1>8. PICK k : FirstPaid(g, left, k)
    BY PaidSometime DEF g
<1>9. k \in 1..more /\ P(k)
    BY <1>1, <1>6, <1>8 DEF FirstPaid
<1>10. size \in 1..more /\ P(size)
    <2>. HIDE DEF P
    <2>. QED
        BY <1>7, <1>9
<1>11. FirstPaid(g, left, size)
    BY <1>1, <1>6, <1>10 DEF FirstPaid
<1>. QED
    BY <1>11 DEF g, size

\* The object there, as a discard meets it.
Tokens1(p, k) == [i \in 1..k |-> message[p + i]]
Wires(p, k) == [i \in 0..k |-> WireFrom(message, p + i)]

LEMMA ObjectThere ==
    ASSUME message \in Seq(Tokens), \A i \in 1..Len(message) : Sensible(message[i]),
           NEW d, NEW e, Debts(message, <<>>, d, e), NEW p \in Nat, p < Len(message),
           NEW k, k = Extent(p + 1)
    PROVE  /\ k \in 1..(Len(message) - p) /\ k \in Nat
           /\ Object(Tokens1(p, k), Wires(p, k), OwedFrom(d, p, Len(message) - p), k)
           /\ Wires(p, k)[0] = WireFrom(message, p) /\ Wires(p, k)[k] = WireFrom(message, p + k)
           /\ Known(Tokens1(p, k), k) <=> \A i \in (p + 1)..(p + k) : message[i].tag.type # "ext"
<1>. DEFINE n == Len(message)
            left == n - p
            g == OwedFrom(d, p, left)
            ts == Tokens1(p, k)
            w == Wires(p, k)
<1>1. n \in Nat /\ left = n - p /\ p < n
    OBVIOUS
<1>2. FirstPaid(g, left, k)
    BY ExtentIs
<1>3. /\ left \in Nat /\ left >= 1
      /\ \A i \in 1..left : g[i] = g[i - 1] - 1 + Holding(message[p + i].tag)
      /\ g[0] = 1
    BY OwingIs
<1>. HIDE DEF n, left, g
<1>4. k \in 1..left /\ g[k] = 0 /\ \A i \in 1..(k - 1) : g[i] > 0
    BY <1>2 DEF FirstPaid
<1>5. k \in Nat /\ k >= 1 /\ k <= left
    BY <1>3, <1>4
<1>6. \A i \in 1..k : ts[i] = message[p + i]
    BY DEF Tokens1
<1>7. \A i \in 0..k : w[i] = WireFrom(message, p + i)
    BY DEF Wires
<1>8. w[0] = WireFrom(message, p) /\ w[k] = WireFrom(message, p + k)
    <2>1. 0 \in 0..k /\ k \in 0..k /\ p + 0 = p
        BY <1>5
    <2>. QED
        BY <1>7, <2>1
<1>. HIDE DEF ts, w
<1>9. ASSUME NEW i \in 1..k
      PROVE  /\ Sensible(ts[i]) /\ w[i] \in Bytes /\ w[i - 1] = Spelled(ts[i]) \o w[i]
             /\ g[i] = g[i - 1] - 1 + Holding(ts[i].tag)
             /\ g[i - 1] # 0
    <2>. DEFINE q == p + (i - 1)
    <2>1. /\ i \in 0..k /\ i - 1 \in 0..k /\ q \in Nat /\ q < n /\ q + 1 = p + i /\ p + i \in 1..n /\ i \in 1..left
          /\ i \in Nat
        BY <1>1, <1>3, <1>5
    <2>2. ts[i] = message[p + i] /\ Sensible(message[p + i])
        BY <1>6, <2>1 DEF n
    <2>3. w[i] = WireFrom(message, q + 1) /\ w[i - 1] = WireFrom(message, q)
        BY <1>7, <2>1
    <2>4. WireFrom(message, q) = Spelled(message[q + 1]) \o WireFrom(message, q + 1) /\ WireFrom(message, q + 1) \in Bytes
        <3>. HIDE DEF q
        <3>. QED
            BY <2>1, WireFromStep DEF n
    <2>5. w[i - 1] = Spelled(ts[i]) \o w[i] /\ w[i] \in Bytes
        BY <2>1, <2>2, <2>3, <2>4
    <2>6. g[i] = g[i - 1] - 1 + Holding(ts[i].tag)
        BY <1>3, <2>1, <2>2
    <2>7. g[i - 1] # 0
        <3>1. CASE i = 1
            <4>1. i - 1 = 0
                BY <3>1
            <4>. QED
                BY <1>3, <4>1
        <3>2. CASE i # 1
            <4>1. i - 1 \in 1..(k - 1)
                BY <1>5, <2>1, <3>2
            <4>2. g[i - 1] > 0
                BY <1>4, <4>1
            <4>3. ~(0 > 0)
                OBVIOUS
            <4>. QED
                BY <4>2, <4>3
        <3>. QED
            BY <3>1, <3>2
    <2>. QED
        BY <2>2, <2>5, <2>6, <2>7
<1>10. Object(ts, w, g, k)
    BY <1>3, <1>4, <1>5, <1>9 DEF Object
<1>11. Known(ts, k) <=> \A i \in (p + 1)..(p + k) : message[i].tag.type # "ext"
    <2>1. ASSUME Known(ts, k), NEW i \in (p + 1)..(p + k) PROVE message[i].tag.type # "ext"
        <3>. DEFINE j == i - p
        <3>1. j \in 1..k /\ p + j = i
            BY <1>5
        <3>. HIDE DEF j
        <3>2. ts[j].tag.type # "ext" /\ ts[j] = message[p + j]
            BY <1>6, <2>1, <3>1 DEF Known
        <3>. QED
            BY <3>1, <3>2
    <2>2. ASSUME \A i \in (p + 1)..(p + k) : message[i].tag.type # "ext", NEW j \in 1..k PROVE ts[j].tag.type # "ext"
        <3>1. p + j \in (p + 1)..(p + k)
            BY <1>5
        <3>. QED
            BY <1>6, <2>2, <3>1
    <2>. QED
        BY <2>1, <2>2 DEF Known
<1>. QED
    BY <1>4, <1>5, <1>8, <1>10, <1>11 DEF n, left, g, ts, w

------------------------------------------------------------------------------------
(* The reader and the message. *)

\* What the reader still has to give when p tags are read and n bytes of the last body
\* are not.
LastPart(msg, p, n) ==
    IF n = 0 THEN <<>> ELSE SubSeq(msg[p].body, Len(msg[p].body) - n + 1, Len(msg[p].body))
Coming(msg, p, n) == LastPart(msg, p, n) \o WireFrom(msg, p)
Between(msg, p, n) ==
    /\ p \in 0..Len(msg) /\ n \in Nat
    /\ n > 0 => p > 0 /\ HasBody(msg[p].tag) /\ n <= Len(msg[p].body)
ReadingAt(r, msg, p, n, outcome, answer, c) ==
    /\ Fed(r)
    /\ ~c => r.error = outcome
    /\ r.error = "ok" =>
        /\ Between(msg, p, n) /\ Along(r, Coming(msg, p, n), c)
        /\ outcome = "ok" /\ r.got = answer
Meant(msg) == msg \in Seq(Tokens) /\ Balanced(msg, <<>>)

LEMMA FedThere ==
    ASSUME NEW r, Fed(r)
    PROVE  r # Nothing
<1>1. DOMAIN r = ReaderFields
    BY DEF Fed, IsReader
<1>2. "kind" \in ReaderFields
    BY DEF ReaderFields
<1>3. DOMAIN Nothing = {}
    BY DEF Nothing
<1>. QED
    BY <1>1, <1>2, <1>3

LEMMA ToldTokens ==
    ASSUME NEW msg, Meant(msg), NEW p \in Nat, p < Len(msg)
    PROVE  /\ Sensible(msg[p + 1]) /\ Len(msg) \in Nat
           /\ WireFrom(msg, p) = Spelled(msg[p + 1]) \o WireFrom(msg, p + 1) /\ WireFrom(msg, p + 1) \in Bytes
           /\ WireFrom(msg, p) \in Bytes
<1>1. msg \in Seq(Tokens) /\ Len(msg) \in Nat
    BY DEF Meant
<1>2. p + 1 \in 1..Len(msg)
    BY <1>1
<1>3. Sensible(msg[p + 1])
    BY <1>2 DEF Meant, Balanced
<1>. QED
    BY <1>1, <1>3, WireFromStep

\* Before the next tag.
LEMMA BeforeTag ==
    ASSUME NEW r, NEW msg, NEW p, NEW outcome, NEW answer, NEW c, Meant(msg), r.error = "ok",
           ReadingAt(r, msg, p, 0, outcome, answer, c), p < Len(msg)
    PROVE  /\ Sensible(msg[p + 1]) /\ WireFrom(msg, p + 1) \in Bytes /\ p \in Nat
           /\ Along(r, Spelled(msg[p + 1]) \o WireFrom(msg, p + 1), c)
<1>1. Between(msg, p, 0) /\ Along(r, Coming(msg, p, 0), c)
    BY DEF ReadingAt
<1>2. p \in Nat
    BY <1>1 DEF Between
<1>3. /\ Sensible(msg[p + 1]) /\ WireFrom(msg, p + 1) \in Bytes /\ WireFrom(msg, p) \in Bytes
      /\ WireFrom(msg, p) = Spelled(msg[p + 1]) \o WireFrom(msg, p + 1)
    BY <1>2, ToldTokens
<1>4. LastPart(msg, p, 0) = <<>>
    BY DEF LastPart
<1>5. Coming(msg, p, 0) = WireFrom(msg, p)
    BY <1>3, <1>4, Join DEF Coming
<1>. QED
    BY <1>1, <1>2, <1>3, <1>5

\* Behind a tag whose body is still to be read, or is not.
LEMMA BehindTag ==
    ASSUME NEW msg, Meant(msg), NEW p \in Nat, p < Len(msg), msg[p + 1].tag.type # "ext",
           NEW n, HasBody(msg[p + 1].tag) => n = msg[p + 1].tag.value, ~HasBody(msg[p + 1].tag) => n = 0
    PROVE  Between(msg, p + 1, n) /\ Coming(msg, p + 1, n) = msg[p + 1].body \o WireFrom(msg, p + 1)
<1>. DEFINE t == msg[p + 1]
            body == t.body
            W == WireFrom(msg, p + 1)
<1>1. Sensible(t) /\ W \in Bytes /\ Len(msg) \in Nat
    BY ToldTokens
<1>2. body \in Bytes /\ Len(body) \in Nat
    <2>1. body \in Bytes
        BY <1>1, TokenTag
    <2>. HIDE DEF body
    <2>. QED
        BY <2>1 DEF Bytes
<1>3. p + 1 \in 0..Len(msg) /\ p + 1 > 0
    BY <1>1
<1>4. CASE HasBody(t.tag)
    <2>1. n = Len(body)
        BY <1>1, <1>4 DEF Sensible
    <2>2. Between(msg, p + 1, n)
        BY <1>2, <1>3, <1>4, <2>1 DEF Between
    <2>3. LastPart(msg, p + 1, n) = body
        <3>1. CASE n = 0
            <4>0. Len(body) = 0
                BY <2>1, <3>1
            <4>1. body = <<>>
                <5>. HIDE DEF body
                <5>. QED
                    BY <1>2, <4>0 DEF Bytes
            <4>. QED
                BY <3>1, <4>1 DEF LastPart
        <3>2. CASE n # 0
            <4>1. LastPart(msg, p + 1, n) = SubSeq(body, Len(body) - n + 1, Len(body))
                BY <3>2 DEF LastPart
            <4>2. Len(body) - n + 1 = 1
                <5>. DEFINE k == Len(body)
                <5>1. n = k /\ k \in Nat
                    BY <1>2, <2>1
                <5>. HIDE DEF k
                <5>2. k - n + 1 = 1
                    BY <5>1
                <5>. QED
                    BY <5>2 DEF k
            <4>. HIDE DEF body
            <4>3. SubSeq(body, 1, Len(body)) = body
                BY <1>2 DEF Bytes
            <4>. QED
                BY <4>1, <4>2, <4>3
        <3>. QED
            BY <3>1, <3>2
    <2>. QED
        BY <2>2, <2>3 DEF Coming
<1>5. CASE ~HasBody(t.tag)
    <2>1. n = 0 /\ body = <<>>
        BY <1>1, <1>5 DEF Sensible
    <2>2. Between(msg, p + 1, n)
        BY <1>3, <2>1 DEF Between
    <2>3. LastPart(msg, p + 1, n) = body
        BY <2>1 DEF LastPart
    <2>. QED
        BY <2>2, <2>3 DEF Coming
<1>. QED
    BY <1>4, <1>5

\* What an answer makes of the state: the reader is where the caller is told it is.
LEMMA AnswerTells ==
    ASSUME NEW r, NEW x, NEW outcome, NEW answer, NEW rest, NEW c, Answers(r, x, outcome, answer, rest, c),
           NEW msg, NEW p, NEW n, outcome = "ok" => Between(msg, p, n) /\ rest = Coming(msg, p, n)
    PROVE  ReadingAt(x, msg, p, n, outcome, answer, c)
<1>1. CASE outcome = "ok"
    <2>1. Gives(r, x, answer, rest, c)
        BY <1>1 DEF Answers
    <2>. QED
        BY <1>1, <2>1 DEF Gives, ReadingAt
<1>2. CASE outcome # "ok"
    <2>1. Refuses(r, x, outcome, c)
        BY <1>2 DEF Answers
    <2>. QED
        BY <1>2, <2>1 DEF Refuses, ReadingAt
<1>. QED
    BY <1>1, <1>2

\* A call takes the tag, or the body with it.
LEMMA TagTold ==
    ASSUME NEW r, NEW msg, Meant(msg), NEW p \in Nat, p < Len(msg), NEW x, NEW outcome, NEW answer, NEW c,
           Answers(r, x, outcome, answer, msg[p + 1].body \o WireFrom(msg, p + 1), c),
           msg[p + 1].tag.type = "ext" => outcome # "ok",
           NEW n, HasBody(msg[p + 1].tag) => n = msg[p + 1].tag.value, ~HasBody(msg[p + 1].tag) => n = 0
    PROVE  ReadingAt(x, msg, p + 1, n, outcome, answer, c)
<1>1. outcome = "ok" => Between(msg, p + 1, n) /\ Coming(msg, p + 1, n) = msg[p + 1].body \o WireFrom(msg, p + 1)
    BY BehindTag
<1>. QED
    BY <1>1, AnswerTells

LEMMA BodyTold ==
    ASSUME NEW r, NEW msg, Meant(msg), NEW p \in Nat, p \in 0..Len(msg), NEW x, NEW outcome, NEW answer, NEW c,
           Answers(r, x, outcome, answer, WireFrom(msg, p), c)
    PROVE  ReadingAt(x, msg, p, 0, outcome, answer, c)
<1>1. Between(msg, p, 0)
    BY DEF Between
<1>2. WireFrom(msg, p) \in Bytes
    BY WireFromBytes DEF Meant
<1>3. LastPart(msg, p, 0) = <<>>
    BY DEF LastPart
<1>4. Coming(msg, p, 0) = WireFrom(msg, p)
    BY <1>2, <1>3, Join DEF Coming
<1>. QED
    BY <1>1, <1>4, AnswerTells

------------------------------------------------------------------------------------
(* The invariant of the user who reads. *)

\* How a call may end: as promised, or with an error where the code departs from that.
Meets(done, a) == (a.departure = "none" => done = a.outcome) /\ (done = "ok" => a.outcome = "ok")

\* What has been written is balanced; while it is read the reader is where the user was
\* told it is, and every answer was what it should be.
ReaderInv ==
    /\ Writing => Balanced(message, open)
    /\ IsClosed /\ writer.error = "ok" => Meant(message)
    /\ ~Reading => asked = NoQuestion /\ place = 0 /\ due = 0
    /\ Reading => /\ writer = Nothing /\ Meant(message)
                  /\ \E done : /\ Meets(done, asked)
                               /\ ReadingAt(reader, message, place, due, done, asked.answer, cut)

LEMMA StillReading ==
    ASSUME ReaderInv, Reading, UNCHANGED <<writer, message, cut>>, NEW done, Meets(done, asked'),
           ReadingAt(reader', message, place', due', done, asked'.answer, cut)
    PROVE  ReaderInv'
<1>. DEFINE x == reader'
            p == place'
            n == due'
            a == asked'
<1>1. writer = Nothing /\ Meant(message)
    BY DEF ReaderInv
<1>2. writer' = Nothing /\ Meant(message')
    BY <1>1
<1>3. ~Writing' /\ ~IsClosed'
    BY <1>2 DEF Writing, IsClosed
<1>4. ReadingAt(x, message, p, n, done, a.answer, cut)
    OBVIOUS
<1>. HIDE DEF x
<1>5. x # Nothing
    BY <1>4, FedThere DEF ReadingAt
<1>6. Reading'
    BY <1>5 DEF Reading, x
<1>7. ReadingAt(reader', message', place', due', done, asked'.answer, cut')
    BY <1>4 DEF x
<1>. QED
    BY <1>2, <1>3, <1>6, <1>7 DEF ReaderInv

LEMMA AtTheTag ==
    ASSUME ReaderInv, AtTag
    PROVE  /\ Reading /\ Meant(message) /\ place \in Nat /\ place < Len(message) /\ Next1 = message[place + 1]
           /\ Sensible(Next1) /\ WireFrom(message, place + 1) \in Bytes
           /\ Along(reader, Spelled(Next1) \o WireFrom(message, place + 1), cut)
           /\ place + 1 \in Nat /\ place + 1 \in 0..Len(message)
<1>1. Reading /\ reader.error = "ok" /\ due = 0 /\ place < Len(message)
    BY DEF AtTag, Ready
<1>2. Meant(message) /\ \E done : ReadingAt(reader, message, place, 0, done, asked.answer, cut)
    BY <1>1 DEF ReaderInv
<1>3. /\ Sensible(message[place + 1]) /\ WireFrom(message, place + 1) \in Bytes /\ place \in Nat
      /\ Along(reader, Spelled(message[place + 1]) \o WireFrom(message, place + 1), cut)
    BY <1>1, <1>2, BeforeTag
<1>4. Len(message) \in Nat
    BY <1>2 DEF Meant
<1>5. place + 1 \in Nat /\ place + 1 \in 0..Len(message)
    BY <1>1, <1>3, <1>4
<1>. QED
    BY <1>1, <1>2, <1>3, <1>5 DEF Next1

\* A promise that is kept is met.
LEMMA Asked ==
    ASSUME NEW outcome, NEW answer, Ask(outcome, answer)
    PROVE  asked'.answer = answer /\ Meets(outcome, asked')
BY DEF Ask, Promise, Meets

LEMMA TookTag ==
    ASSUME ReaderInv, AtTag, NEW x, NEW outcome, NEW answer,
           Answers(reader, x, outcome, answer, Next1.body \o WireFrom(message, place + 1), cut),
           Foreigner => outcome # "ok", Ask(outcome, answer), Take(x, FALSE)
    PROVE  ReaderInv'
<1>. DEFINE n == due'
<1>1. /\ Reading /\ Meant(message) /\ place \in Nat /\ place < Len(message) /\ Next1 = message[place + 1]
    BY AtTheTag
<1>2. /\ reader' = x /\ place' = place + 1 /\ UNCHANGED <<writer, message, cut>>
      /\ n = IF HasBody(Next1.tag) /\ ~FALSE THEN Next1.tag.value ELSE 0
    BY DEF Take
<1>3. (HasBody(message[place + 1].tag) => n = message[place + 1].tag.value)
      /\ (~HasBody(message[place + 1].tag) => n = 0)
    BY <1>1, <1>2
<1>4. message[place + 1].tag.type = "ext" => outcome # "ok"
    BY <1>1 DEF Foreigner
<1>5. Answers(reader, x, outcome, answer, message[place + 1].body \o WireFrom(message, place + 1), cut)
    BY <1>1
<1>. HIDE DEF n
<1>6. ReadingAt(x, message, place + 1, n, outcome, answer, cut)
    BY <1>1, <1>3, <1>4, <1>5, TagTold
<1>7. asked'.answer = answer /\ Meets(outcome, asked')
    BY Asked
<1>8. ReadingAt(reader', message, place', due', outcome, asked'.answer, cut)
    BY <1>2, <1>6, <1>7 DEF n
<1>. QED
    BY <1>1, <1>2, <1>7, <1>8, StillReading

LEMMA TookBodyFor ==
    ASSUME ReaderInv, AtTag, NEW x, NEW done, NEW outcome, NEW answer, NEW departure,
           Answers(reader, x, done, answer, WireFrom(message, place + 1), cut),
           Promise(departure, outcome, answer), Take(x, TRUE),
           departure = "none" => done = outcome, done = "ok" => outcome = "ok"
    PROVE  ReaderInv'
<1>1. /\ Reading /\ Meant(message) /\ place + 1 \in Nat /\ place + 1 \in 0..Len(message)
    BY AtTheTag
<1>2. /\ reader' = x /\ place' = place + 1 /\ UNCHANGED <<writer, message, cut>>
      /\ due' = IF HasBody(Next1.tag) /\ ~TRUE THEN Next1.tag.value ELSE 0
    BY DEF Take
<1>3. asked'.answer = answer /\ Meets(done, asked')
    BY DEF Promise, Meets
<1>4. due' = 0
    BY <1>2
<1>. DEFINE q == place + 1
<1>. HIDE DEF q
<1>5. ReadingAt(x, message, q, 0, done, answer, cut)
    BY <1>1, BodyTold DEF q
<1>6. ReadingAt(reader', message, place', due', done, asked'.answer, cut)
    BY <1>2, <1>3, <1>4, <1>5 DEF q
<1>. QED
    BY <1>1, <1>2, <1>3, <1>6, StillReading

LEMMA TookBody ==
    ASSUME ReaderInv, AtTag, NEW x, NEW outcome, NEW answer,
           Answers(reader, x, outcome, answer, WireFrom(message, place + 1), cut),
           Ask(outcome, answer), Take(x, TRUE)
    PROVE  ReaderInv'
BY TookBodyFor DEF Ask

\* One lemma per call of the user: the reader stays where the user is told it is.
LEMMA ReaderReadATag ==
    ASSUME ReaderInv, ReadATag
    PROVE  ReaderInv'
<1>. DEFINE t == Next1
            W == WireFrom(message, place + 1)
            x == ReadTag(reader)
            outcome == IF Foreigner THEN "unsupported" ELSE "ok"
<1>1. AtTag /\ Ask(outcome, t.tag) /\ Take(x, FALSE)
    BY DEF ReadATag
<1>2. Sensible(t) /\ W \in Bytes /\ Along(reader, Spelled(t) \o W, cut)
    BY <1>1, AtTheTag
<1>3. Foreigner <=> t.tag.type = "ext"
    BY DEF Foreigner
<1>4. Answers(reader, x, outcome, t.tag, t.body \o W, cut)
    <2>1. CASE t.tag.type = "ext"
        <3>1. Refuses(reader, x, "unsupported", cut)
            BY <1>2, <2>1, TokenRead
        <3>. QED
            BY <1>3, <2>1, <3>1 DEF Answers
    <2>2. CASE t.tag.type # "ext"
        <3>1. Gives(reader, x, t.tag, t.body \o W, cut)
            BY <1>2, <2>2, TokenRead
        <3>. QED
            BY <1>3, <2>2, <3>1 DEF Answers
    <2>. QED
        BY <2>1, <2>2
<1>5. Foreigner => outcome # "ok"
    OBVIOUS
<1>. HIDE DEF x, outcome
<1>. QED
    BY <1>1, <1>4, <1>5, TookTag

LEMMA ReaderPeekATag ==
    ASSUME ReaderInv, PeekATag
    PROVE  ReaderInv'
<1>. DEFINE t == Next1
            W == WireFrom(message, place + 1)
            x == PeekTag(reader)
            outcome == IF Foreigner THEN "unsupported" ELSE "ok"
<1>1. /\ AtTag /\ Ask(outcome, t.tag) /\ reader' = x /\ place' = place /\ due' = due
      /\ UNCHANGED <<writer, message, cut>>
    BY DEF PeekATag
<1>2. /\ Sensible(t) /\ W \in Bytes /\ Along(reader, Spelled(t) \o W, cut) /\ Reading /\ Meant(message)
      /\ place \in Nat /\ place < Len(message) /\ Next1 = message[place + 1]
    BY <1>1, AtTheTag
<1>3. Foreigner <=> t.tag.type = "ext"
    BY DEF Foreigner
<1>4. Answers(reader, x, outcome, t.tag, Spelled(t) \o W, cut)
    <2>1. CASE t.tag.type = "ext"
        <3>1. Refuses(reader, x, "unsupported", cut)
            BY <1>2, <2>1, TokenRead
        <3>. QED
            BY <1>3, <2>1, <3>1 DEF Answers
    <2>2. CASE t.tag.type # "ext"
        <3>1. Gives(reader, x, t.tag, Spelled(t) \o W, cut)
            BY <1>2, <2>2, TokenRead
        <3>. QED
            BY <1>3, <2>2, <3>1 DEF Answers
    <2>. QED
        BY <2>1, <2>2
<1>5. due = 0
    BY <1>1 DEF AtTag
<1>6. WireFrom(message, place) = Spelled(t) \o W
    BY <1>2, ToldTokens
<1>. HIDE DEF x, outcome, W, t
<1>7. Answers(reader, x, outcome, t.tag, WireFrom(message, place), cut)
    BY <1>4, <1>6
<1>8. place \in 0..Len(message)
    BY <1>2, ToldTokens
<1>9. ReadingAt(x, message, place, 0, outcome, t.tag, cut)
    BY <1>2, <1>7, <1>8, BodyTold
<1>10. asked'.answer = t.tag /\ Meets(outcome, asked')
    BY <1>1, Asked
<1>11. ReadingAt(reader', message, place', due', outcome, asked'.answer, cut)
    BY <1>1, <1>5, <1>9, <1>10
<1>. QED
    BY <1>1, <1>2, <1>10, <1>11, StillReading

LEMMA ReaderExpectANumber ==
    ASSUME ReaderInv, NEW type \in IntTypes, ExpectANumber(type)
    PROVE  ReaderInv'
<1>. DEFINE t == Next1
            W == WireFrom(message, place + 1)
            x == ExpectInt(reader, type)
            fits == IsNumber(t.tag) /\ t.tag.value >= Lowest(type) /\ t.tag.value <= Highest(type)
            outcome == IF fits THEN "ok" ELSE IF t.tag.type = "ext" THEN "unsupported" ELSE "type"
<1>1. AtTag /\ Ask(outcome, t.tag.value) /\ Take(x, FALSE)
    BY DEF ExpectANumber, Unsupported, Foreigner
<1>2. Sensible(t) /\ W \in Bytes /\ Along(reader, Spelled(t) \o W, cut)
    BY <1>1, AtTheTag
<1>3. type \in [width : {1, 2, 4, 8}, signed : BOOLEAN]
    BY StreamAssumption
<1>4. Lowest(type) \in Int /\ Highest(type) \in Int
    BY <1>3, TypeBounds
<1>. HIDE DEF t, W
<1>5. Answers(reader, x, outcome, t.tag.value, t.body \o W, cut)
    BY <1>2, <1>4, IntExpected
<1>6. Foreigner => outcome # "ok"
    BY DEF Foreigner, IsNumber, t
<1>. HIDE DEF x, outcome
<1>. QED
    BY <1>1, <1>5, <1>6, TookTag DEF t, W

LEMMA ReaderExpectANil ==
    ASSUME ReaderInv, ExpectANil
    PROVE  ReaderInv'
<1>. DEFINE t == Next1
            W == WireFrom(message, place + 1)
            x == ExpectNil(reader)
            outcome == IF t.tag.type = "nil" THEN "ok" ELSE "type"
<1>1. AtTag /\ Ask(outcome, Nil) /\ Take(x, FALSE)
    BY DEF ExpectANil
<1>2. Sensible(t) /\ W \in Bytes /\ Along(reader, Spelled(t) \o W, cut)
    BY <1>1, AtTheTag
<1>. HIDE DEF t, W
<1>3. Answers(reader, x, outcome, Nil, t.body \o W, cut)
    BY <1>2, NilExpected
<1>4. Foreigner => outcome # "ok"
    BY DEF Foreigner, t
<1>. HIDE DEF x, outcome
<1>. QED
    BY <1>1, <1>3, <1>4, TookTag DEF t, W

LEMMA ReaderExpectABool ==
    ASSUME ReaderInv, NEW value \in BOOLEAN, ExpectABool(value)
    PROVE  ReaderInv'
<1>. DEFINE t == Next1
            W == WireFrom(message, place + 1)
            x == ExpectBoolMatch(reader, value)
            outcome == IF t.tag = Tag("bool", IF value THEN 1 ELSE 0) THEN "ok" ELSE "type"
<1>1. AtTag /\ Ask(outcome, value) /\ Take(x, FALSE)
    BY DEF ExpectABool
<1>2. Sensible(t) /\ W \in Bytes /\ Along(reader, Spelled(t) \o W, cut)
    BY <1>1, AtTheTag
<1>. HIDE DEF t, W
<1>3. Answers(reader, x, outcome, value, t.body \o W, cut)
    BY <1>2, BoolExpected
<1>4. Foreigner => outcome # "ok"
    <2>1. Tag("bool", IF value THEN 1 ELSE 0).type = "bool"
        BY DEF Tag
    <2>. QED
        BY <2>1 DEF Foreigner, t
<1>. HIDE DEF x, outcome
<1>. QED
    BY <1>1, <1>3, <1>4, TookTag DEF t, W

\* Where nil stands for none its count is 0.
LEMMA NilZero ==
    ASSUME NEW t, Sensible(t), t.tag.type = "nil"
    PROVE  t.tag.value = 0
<1>1. Valid(t.tag)
    BY DEF Sensible, Tokens, Tags
<1>. QED
    BY <1>1 DEF Valid

\* What is returned matters only where the call should succeed.
LEMMA AnswerOther ==
    ASSUME NEW r, NEW x, NEW outcome, NEW a, NEW rest, NEW c, Answers(r, x, outcome, a, rest, c),
           NEW b, outcome = "ok" => a = b
    PROVE  Answers(r, x, outcome, b, rest, c)
BY DEF Answers

LEMMA ReaderExpectACompound ==
    ASSUME ReaderInv, NEW type \in {"array", "map"}, NEW max \in Counts, ExpectACompound(type, max)
    PROVE  ReaderInv'
<1>. DEFINE t == Next1
            W == WireFrom(message, place + 1)
            x == ExpectCompoundOrNil(reader, type, max)
            none == t.tag.type = "nil"
            count == IF none THEN 0 ELSE t.tag.value
            outcome == IF none \/ (t.tag.type = type /\ t.tag.value <= max) THEN "ok"
                       ELSE IF t.tag.type = "ext" THEN "unsupported" ELSE "type"
<1>1. AtTag /\ Ask(outcome, count) /\ Take(x, FALSE)
    BY DEF ExpectACompound, Unsupported, Foreigner
<1>2. Sensible(t) /\ W \in Bytes /\ Along(reader, Spelled(t) \o W, cut)
    BY <1>1, AtTheTag
<1>3. max \in Int /\ type # "ext"
    BY StreamAssumption
<1>4. t.tag.value = count
    BY <1>2, NilZero
<1>. HIDE DEF t, W
<1>5. Answers(reader, x, outcome, t.tag.value, t.body \o W, cut)
    BY <1>2, <1>3, CompoundExpected
<1>6. Foreigner => outcome # "ok"
    BY <1>3 DEF Foreigner, t
<1>. HIDE DEF x, outcome, count
<1>7. Answers(reader, x, outcome, count, t.body \o W, cut)
    BY <1>4, <1>5
<1>. QED
    BY <1>1, <1>6, <1>7, TookTag DEF t, W

LEMMA ReaderExpectARange ==
    ASSUME ReaderInv, NEW type \in IntTypes, ExpectARange(type)
    PROVE  ReaderInv'
<1>. DEFINE t == Next1
            W == WireFrom(message, place + 1)
            x == ExpectIntRange(reader, type, 0, 1)
            fits == IsNumber(t.tag) /\ t.tag.value \in 0..1
            outcome == IF fits THEN "ok" ELSE IF t.tag.type = "ext" THEN "unsupported" ELSE "type"
<1>1. AtTag /\ Ask(outcome, t.tag.value) /\ Take(x, FALSE)
    BY DEF ExpectARange, Expecting, Departing, Ask, Either, Unsupported, Foreigner
<1>2. Sensible(t) /\ W \in Bytes /\ Along(reader, Spelled(t) \o W, cut)
    BY <1>1, AtTheTag
<1>3. type \in [width : {1, 2, 4, 8}, signed : BOOLEAN]
    BY StreamAssumption
<1>4. Lowest(type) \in Int /\ Highest(type) \in Int /\ Lowest(type) <= 0 /\ 1 <= Highest(type)
    BY <1>3, TypeBounds
<1>. HIDE DEF t, W
<1>5. Answers(reader, x, outcome, t.tag.value, t.body \o W, cut)
    BY <1>2, <1>4, RangeExpected
<1>6. Foreigner => outcome # "ok"
    BY DEF Foreigner, IsNumber, t
<1>. HIDE DEF x, outcome
<1>. QED
    BY <1>1, <1>5, <1>6, TookTag DEF t, W

\* A number of a message is in the bounds of the widest type of its sign.
LEMMA NumberBounds ==
    ASSUME NEW tag \in Tags, IsNumber(tag)
    PROVE  LET type == Integer(8, tag.value < 0)
           IN  /\ type \in [width : {1, 2, 4, 8}, signed : BOOLEAN] /\ tag.value \in Int
               /\ Lowest(type) <= tag.value /\ tag.value <= Highest(type)
               /\ tag = Number(tag.value)
<1>. DEFINE n == tag.value
            type == Integer(8, n < 0)
<1>1. Valid(tag) /\ n \in Int
    BY DEF Tags, IsNumber
<1>2. tag.type \in {"uint", "int"}
    BY DEF IsNumber
<1>3. (tag.type = "int" <=> n < 0) /\ (tag.type = "uint" <=> n \in Nat)
    <2>1. tag.type = "int" => n < 0
        BY <1>1 DEF Valid
    <2>2. tag.type = "uint" => n \in Nat
        BY <1>1 DEF Valid
    <2>. QED
        BY <1>1, <1>2, <2>1, <2>2
<1>4. PICK f \in Formats : Fits(tag, f)
    BY <1>1, <1>2 DEF Valid
<1>5. f.width \in {1, 2, 4, 8}
    BY <1>2, <1>4 DEF Formats, Format, Fits
<1>. DEFINE w == Weight[f.width]
            v == Weight[8]
<1>6. w \in Nat /\ v \in Nat /\ w <= v /\ w \div 2 <= v \div 2 /\ w \div 2 \in Nat /\ v \div 2 \in Nat
    <2>1. w \in {Weight[1], Weight[2], Weight[4], Weight[8]}
        BY <1>5
    <2>. HIDE DEF w
    <2>2. \A i \in 1..8 : Weight[i] \in Nat /\ Weight[i - 1] \in Nat /\ Weight[i] >= Weight[i - 1]
        <3>. SUFFICES ASSUME NEW i \in 1..8
                      PROVE  Weight[i] \in Nat /\ Weight[i - 1] \in Nat /\ Weight[i] >= Weight[i - 1]
            OBVIOUS
        <3>. DEFINE a == Weight[i]
                    b == Weight[i - 1]
        <3>1. a = Base * b /\ a \in Nat /\ b \in Nat /\ b > 0 /\ Base \in Nat /\ Base >= 4
            BY WeightStep, BaseIs
        <3>. HIDE DEF a, b
        <3>2. a >= b
            BY <3>1
        <3>. QED
            BY <3>1, <3>2 DEF a, b
    <2>3. /\ Weight[1] \in Nat /\ Weight[2] \in Nat /\ Weight[4] \in Nat /\ Weight[8] \in Nat
          /\ Weight[1] <= Weight[8] /\ Weight[2] <= Weight[8] /\ Weight[4] <= Weight[8]
        <3>1. /\ Weight[1] \in Nat /\ Weight[2] \in Nat /\ Weight[3] \in Nat /\ Weight[4] \in Nat
              /\ Weight[5] \in Nat /\ Weight[6] \in Nat /\ Weight[7] \in Nat /\ Weight[8] \in Nat
            BY <2>2
        <3>2. /\ Weight[2] >= Weight[2 - 1] /\ Weight[3] >= Weight[3 - 1] /\ Weight[4] >= Weight[4 - 1]
              /\ Weight[5] >= Weight[5 - 1] /\ Weight[6] >= Weight[6 - 1] /\ Weight[7] >= Weight[7 - 1]
              /\ Weight[8] >= Weight[8 - 1]
            BY <2>2
        <3>3. 2 - 1 = 1 /\ 3 - 1 = 2 /\ 4 - 1 = 3 /\ 5 - 1 = 4 /\ 6 - 1 = 5 /\ 7 - 1 = 6 /\ 8 - 1 = 7
            OBVIOUS
        <3>4. /\ Weight[2] >= Weight[1] /\ Weight[3] >= Weight[2] /\ Weight[4] >= Weight[3]
              /\ Weight[5] >= Weight[4] /\ Weight[6] >= Weight[5] /\ Weight[7] >= Weight[6]
              /\ Weight[8] >= Weight[7]
            BY <3>2, <3>3
        <3>. QED
            BY <3>1, <3>4
    <2>4. w \in Nat /\ w <= Weight[8]
        BY <2>1, <2>3
    <2>. HIDE DEF v
    <2>5. v \in Nat /\ w <= v
        BY <2>3, <2>4 DEF v
    <2>. QED
        BY <2>4, <2>5
<1>7. /\ tag.type = "int" => n >= -(w \div 2)
      /\ tag.type = "uint" => n < w
    BY <1>4 DEF Fits
<1>8. type.width = 8 /\ type.signed = (n < 0) /\ type \in [width : {1, 2, 4, 8}, signed : BOOLEAN]
    BY <1>1 DEF Integer
<1>9. Lowest(type) = IF n < 0 THEN -(v \div 2) ELSE 0
    BY <1>8 DEF Lowest
<1>10. Highest(type) = IF n < 0 THEN v \div 2 - 1 ELSE v - 1
    BY <1>8 DEF Highest
<1>11. tag = Number(n)
    <2>1. tag = [type |-> tag.type, value |-> n]
        BY DEF Tags
    <2>. QED
        BY <1>1, <1>2, <1>3, <2>1 DEF Number, Tag
<1>12. Lowest(type) <= n /\ n <= Highest(type)
    <2>. DEFINE lowest == Lowest(type)
                highest == Highest(type)
                h == v \div 2
                g == w \div 2
    <2>0. /\ lowest = (IF n < 0 THEN -h ELSE 0) /\ highest = (IF n < 0 THEN h - 1 ELSE v - 1)
          /\ w \in Nat /\ v \in Nat /\ w <= v /\ g <= h /\ g \in Nat /\ h \in Nat
          /\ (n < 0 => n >= -g) /\ (~(n < 0) => n < w) /\ n \in Int
        BY <1>1, <1>2, <1>3, <1>6, <1>7, <1>9, <1>10
    <2>. HIDE DEF lowest, highest, h, g, v, w, n
    <2>1. n < 0 => lowest <= n /\ n <= highest
        BY <2>0
    <2>2. ~(n < 0) => lowest <= n /\ n <= highest
        BY <2>0
    <2>3. lowest <= n /\ n <= highest
        BY <2>1, <2>2
    <2>. QED
        BY <2>3 DEF lowest, highest
<1>. QED
    BY <1>1, <1>8, <1>11, <1>12

LEMMA ReaderExpectAMatch ==
    ASSUME ReaderInv, NEW wanted \in Scalars, IsNumber(wanted), ExpectAMatch(wanted.value)
    PROVE  ReaderInv'
<1>. DEFINE t == Next1
            value == wanted.value
            W == WireFrom(message, place + 1)
            type == Integer(8, value < 0)
            x == ExpectIntRange(reader, type, value, value)
            fits == IsNumber(t.tag) /\ t.tag.value \in value..value
            outcome == IF fits THEN "ok" ELSE IF t.tag.type = "ext" THEN "unsupported" ELSE "type"
<1>1. AtTag /\ Ask(IF t.tag = Number(value) THEN "ok" ELSE IF t.tag.type = "ext" THEN "unsupported" ELSE "type", value)
      /\ Take(x, FALSE)
    BY DEF ExpectAMatch, ExpectIntMatch, Expecting, Departing, Ask, Either, Unsupported, Foreigner
<1>2. Sensible(t) /\ W \in Bytes /\ Along(reader, Spelled(t) \o W, cut)
    BY <1>1, AtTheTag
<1>3. wanted \in Tags
    BY ScalarTag
<1>4. /\ type \in [width : {1, 2, 4, 8}, signed : BOOLEAN] /\ value \in Int
      /\ Lowest(type) <= value /\ value <= Highest(type)
    BY <1>3, NumberBounds
<1>5. Lowest(type) \in Int /\ Highest(type) \in Int
    BY <1>4, TypeBounds
<1>6. fits <=> t.tag = Number(value)
    <2>1. ASSUME fits PROVE t.tag = Number(value)
        <3>1. t.tag \in Tags
            BY <1>2, TokenTag
        <3>2. t.tag = Number(t.tag.value)
            BY <2>1, <3>1, NumberBounds
        <3>3. t.tag.value = value
            BY <1>4, <2>1
        <3>. QED
            BY <3>2, <3>3
    <2>2. ASSUME t.tag = Number(value) PROVE fits
        <3>1. t.tag.type \in {"uint", "int"} /\ t.tag.value = value
            BY <2>2 DEF Number, Tag
        <3>. QED
            BY <1>4, <3>1 DEF IsNumber
    <2>. QED
        BY <2>1, <2>2
<1>7. Ask(outcome, value)
    BY <1>1, <1>6
<1>8. fits => t.tag.value = value
    BY <1>4
<1>. HIDE DEF t, W, type
<1>9. Answers(reader, x, outcome, t.tag.value, t.body \o W, cut)
    BY <1>2, <1>4, <1>5, RangeExpected
<1>10. Foreigner => outcome # "ok"
    BY DEF Foreigner, IsNumber, t
<1>11. outcome = "ok" => t.tag.value = value
    BY <1>8
<1>. HIDE DEF x, outcome, value
<1>12. Answers(reader, x, outcome, value, t.body \o W, cut)
    BY <1>9, <1>11, AnswerOther
<1>. QED
    BY <1>1, <1>7, <1>10, <1>12, TookTag DEF t, W

LEMMA ReaderExpectATag ==
    ASSUME ReaderInv, NEW tag \in Scalars, ExpectATag(tag)
    PROVE  ReaderInv'
<1>. DEFINE t == Next1
            W == WireFrom(message, place + 1)
            x == ExpectTag(reader, tag)
            outcome == IF t.tag = tag THEN "ok" ELSE IF t.tag.type = "ext" THEN "unsupported" ELSE "type"
<1>1. AtTag /\ Ask(outcome, tag) /\ Take(x, FALSE)
    BY DEF ExpectATag, Expecting, Departing, Ask, Either, Unsupported, Foreigner
<1>2. Sensible(t) /\ W \in Bytes /\ Along(reader, Spelled(t) \o W, cut)
    BY <1>1, AtTheTag
<1>3. tag.type # "ext"
    BY ScalarTag
<1>. HIDE DEF t, W
<1>4. Answers(reader, x, outcome, t.tag, t.body \o W, cut)
    BY <1>2, <1>3, ThisTagExpected
<1>5. Foreigner => outcome # "ok"
    BY <1>3 DEF Foreigner, t
<1>6. outcome = "ok" => t.tag = tag
    OBVIOUS
<1>. HIDE DEF x, outcome
<1>7. Answers(reader, x, outcome, tag, t.body \o W, cut)
    BY <1>4, <1>6, AnswerOther
<1>. QED
    BY <1>1, <1>5, <1>7, TookTag DEF t, W

LEMMA ReaderExpectAFloat ==
    ASSUME ReaderInv, NEW isStrict \in BOOLEAN, ExpectAFloat(isStrict)
    PROVE  ReaderInv'
<1>. DEFINE t == Next1
            W == WireFrom(message, place + 1)
            x == ExpectFloat(reader)
            z == ExpectFloatStrict(reader, {"float"})
            lax == IF IsNumber(t.tag) \/ t.tag.type \in {"float", "double"} THEN "ok"
                   ELSE IF t.tag.type = "ext" THEN "unsupported" ELSE "type"
            strict == IF t.tag.type = "float" THEN "ok" ELSE IF t.tag.type = "ext" THEN "unsupported" ELSE "type"
<1>1. AtTag /\ ((Ask(lax, ToFloat(t.tag)) /\ Take(x, FALSE)) \/ (Ask(strict, t.tag) /\ Take(z, FALSE)))
    BY DEF ExpectAFloat, Expecting, Departing, Ask, Either, Unsupported, Foreigner
<1>2. Sensible(t) /\ W \in Bytes /\ Along(reader, Spelled(t) \o W, cut)
    BY <1>1, AtTheTag
<1>. HIDE DEF t, W
<1>3. /\ Answers(reader, x, lax, ToFloat(t.tag), t.body \o W, cut)
      /\ Answers(reader, z, strict, t.tag, t.body \o W, cut)
    BY <1>2, FloatExpected, StrictFloatExpected
<1>4. Foreigner => lax # "ok" /\ strict # "ok"
    BY DEF Foreigner, IsNumber, t
<1>. HIDE DEF x, z, lax, strict
<1>5. CASE Ask(lax, ToFloat(t.tag)) /\ Take(x, FALSE)
    BY <1>1, <1>3, <1>4, <1>5, TookTag DEF t, W
<1>6. CASE Ask(strict, t.tag) /\ Take(z, FALSE)
    BY <1>1, <1>3, <1>4, <1>6, TookTag DEF t, W
<1>. QED
    BY <1>1, <1>5, <1>6

LEMMA ReaderExpectAllocated ==
    ASSUME ReaderInv, NEW max \in Counts, NEW orNil \in BOOLEAN, NEW canAllocate \in BOOLEAN,
           ExpectAllocated(max, orNil, canAllocate)
    PROVE  ReaderInv'
<1>. DEFINE t == Next1
            W == WireFrom(message, place + 1)
            x == ExpectArrayAlloc(reader, max, orNil, canAllocate)
            none == orNil /\ t.tag.type = "nil"
            array == t.tag.type = "array" /\ t.tag.value <= max
            count == IF none THEN 0 ELSE t.tag.value
            told == IF array /\ count > 0 /\ ~canAllocate THEN "memory"
                    ELSE IF none \/ array THEN "ok" ELSE IF t.tag.type = "ext" THEN "unsupported" ELSE "type"
            outcome == IF array /\ t.tag.value > 0 /\ ~canAllocate THEN "memory"
                       ELSE IF none \/ array THEN "ok" ELSE IF t.tag.type = "ext" THEN "unsupported" ELSE "type"
<1>1. AtTag /\ Ask(told, count) /\ Take(x, FALSE)
    BY DEF ExpectAllocated, Expecting, Departing, Ask, Either, Unsupported, Foreigner
<1>2. Sensible(t) /\ W \in Bytes /\ Along(reader, Spelled(t) \o W, cut)
    BY <1>1, AtTheTag
<1>3. max \in Nat
    BY StreamAssumption
<1>4. t.tag.value = count
    BY <1>2, NilZero
<1>5. told = outcome
    BY <1>4
<1>. HIDE DEF t, W
<1>6. Answers(reader, x, outcome, t.tag.value, t.body \o W, cut)
    BY <1>2, <1>3, ArrayExpected
<1>7. Foreigner => outcome # "ok"
    BY DEF Foreigner, t
<1>. HIDE DEF x, outcome, told, count
<1>8. Answers(reader, x, told, count, t.body \o W, cut)
    BY <1>4, <1>5, <1>6
<1>. QED
    BY <1>1, <1>5, <1>7, <1>8, TookTag DEF t, W

LEMMA ReaderExpectAText ==
    ASSUME ReaderInv, NEW size \in BufferSizes, ExpectAText(size)
    PROVE  ReaderInv'
<1>. DEFINE t == Next1
            W == WireFrom(message, place + 1)
            x == ExpectCstr(reader, size)
            outcome == IF t.tag.type # "str" THEN "type" ELSE IF Len(t.body) > size - 1 THEN "too_big"
                       ELSE IF ~NoNull(t.body) THEN "type" ELSE "ok"
<1>1. AtTag /\ Ask(outcome, t.body) /\ Take(x, TRUE)
    BY DEF ExpectAText
<1>2. Sensible(t) /\ W \in Bytes /\ Along(reader, Spelled(t) \o W, cut)
    BY <1>1, AtTheTag
<1>3. size \in Int
    BY StreamAssumption
<1>. HIDE DEF t, W
<1>4. Answers(reader, x, outcome, t.body, W, cut)
    BY <1>2, <1>3, CstrExpected
<1>. HIDE DEF x, outcome
<1>. QED
    BY <1>1, <1>4, TookBody DEF t, W

LEMMA ReaderExpectABlob ==
    ASSUME ReaderInv, NEW size \in BufferSizes, ExpectABlob(size)
    PROVE  ReaderInv'
<1>. DEFINE t == Next1
            W == WireFrom(message, place + 1)
            x == ExpectBuf(reader, "bin", size)
            outcome == IF t.tag.type # "bin" THEN IF t.tag.type = "ext" THEN "unsupported" ELSE "type"
                       ELSE IF Len(t.body) > size THEN "too_big" ELSE "ok"
            promised == IF t.tag.type \notin {"bin", "str"} THEN IF t.tag.type = "ext" THEN "unsupported" ELSE "type"
                        ELSE IF Len(t.body) > size THEN "too_big" ELSE "ok"
            departure == IF t.tag.type = "str" THEN "bin" ELSE "none"
<1>1. AtTag /\ Promise(departure, promised, t.body) /\ Take(x, TRUE)
    BY DEF ExpectABlob, IfStr, Unsupported, Foreigner
<1>2. Sensible(t) /\ W \in Bytes /\ Along(reader, Spelled(t) \o W, cut)
    BY <1>1, AtTheTag
<1>3. size \in Int
    BY StreamAssumption
<1>. HIDE DEF t, W
<1>4. Answers(reader, x, IF t.tag.type # "bin" THEN Missed(t, "bin") ELSE IF Len(t.body) > size THEN "too_big" ELSE "ok",
              t.body, W, cut)
    BY <1>2, <1>3, BufExpected
<1>5. Answers(reader, x, outcome, t.body, W, cut)
    BY <1>4 DEF Missed
<1>6. (departure = "none" => outcome = promised) /\ (outcome = "ok" => promised = "ok")
    OBVIOUS
<1>. HIDE DEF x, outcome, promised, departure
<1>. QED
    BY <1>1, <1>5, <1>6, TookBodyFor DEF t, W

LEMMA ReaderExpectARareText ==
    ASSUME ReaderInv, NEW max \in Int, NEW canAllocate \in BOOLEAN, ExpectARareText(max, canAllocate)
    PROVE  ReaderInv'
<1>. DEFINE t == Next1
            W == WireFrom(message, place + 1)
            x == ExpectUtf8(reader, max)
            z == ExpectCstrAlloc(reader, max + 1, canAllocate)
            fits == t.tag.type = "str" /\ Len(t.body) <= max
            checked == IF t.tag.type = "str" /\ ~fits THEN "too_big"
                       ELSE IF fits /\ t.body \notin NotUtf8 THEN "ok" ELSE "type"
            taken == IF fits /\ ~canAllocate THEN "memory"
                     ELSE IF t.tag.type = "str" /\ ~fits THEN "too_big"
                     ELSE IF fits /\ NoNull(t.body) THEN "ok" ELSE "type"
<1>1. AtTag /\ ((Ask(checked, t.body) /\ Take(x, TRUE)) \/ (Ask(taken, t.body) /\ Take(z, TRUE)))
    BY DEF ExpectARareText, Expecting, Departing, Ask
<1>2. Sensible(t) /\ W \in Bytes /\ Along(reader, Spelled(t) \o W, cut)
    BY <1>1, AtTheTag
<1>. HIDE DEF t, W
<1>3. Answers(reader, x, checked, t.body, W, cut)
    BY <1>2, Utf8Expected
<1>4. Answers(reader, z, taken, t.body, W, cut)
    BY <1>2, CstrAllocExpected
<1>. HIDE DEF x, z, checked, taken
<1>5. CASE Ask(checked, t.body) /\ Take(x, TRUE)
    BY <1>1, <1>3, <1>5, TookBody DEF t, W
<1>6. CASE Ask(taken, t.body) /\ Take(z, TRUE)
    BY <1>1, <1>4, <1>6, TookBody DEF t, W
<1>. QED
    BY <1>1, <1>5, <1>6

LEMMA ReaderExpectARareBlob ==
    ASSUME ReaderInv, NEW max \in Int, NEW canAllocate \in BOOLEAN, ExpectARareBlob(max, canAllocate)
    PROVE  ReaderInv'
<1>. DEFINE t == Next1
            W == WireFrom(message, place + 1)
            x == ExpectBinSizeBuf(reader, max)
            z == ExpectBinAlloc(reader, max, canAllocate)
            fits == t.tag.type = "bin" /\ Len(t.body) <= max
            sized == IF fits /\ Len(t.body) = max THEN "ok" ELSE IF t.tag.type = "ext" THEN "unsupported" ELSE "type"
            taken == IF fits /\ t.body # <<>> /\ ~canAllocate THEN "memory"
                     ELSE IF fits THEN "ok" ELSE IF t.tag.type = "ext" THEN "unsupported" ELSE "type"
            exact == IF t.tag.type \in {"bin", "str"} /\ Len(t.body) = max THEN "ok"
                     ELSE IF t.tag.type = "ext" THEN "unsupported" ELSE "type"
            departure == IF t.tag.type = "str" THEN "bin" ELSE "none"
<1>1. AtTag /\ ((Promise(departure, exact, t.body) /\ Take(x, TRUE)) \/ (Ask(taken, t.body) /\ Take(z, TRUE)))
    BY DEF ExpectARareBlob, Expecting, Departing, Ask, IfStr, Either, Unsupported, Foreigner
<1>2. Sensible(t) /\ W \in Bytes /\ Along(reader, Spelled(t) \o W, cut)
    BY <1>1, AtTheTag
<1>3. fits /\ Len(t.body) = max <=> t.tag.type = "bin" /\ Len(t.body) = max
    OBVIOUS
<1>. HIDE DEF t, W
<1>4. Answers(reader, x, IF t.tag.type = "bin" /\ Len(t.body) = max THEN "ok"
                         ELSE IF t.tag.type = "ext" THEN "unsupported" ELSE "type", t.body, W, cut)
    BY <1>2, BinSizeExpected
<1>5. Answers(reader, x, sized, t.body, W, cut)
    BY <1>3, <1>4
<1>6. Answers(reader, z, taken, t.body, W, cut)
    BY <1>2, BinAllocExpected
<1>9. (departure = "none" => sized = exact) /\ (sized = "ok" => exact = "ok")
    BY <1>3
<1>. HIDE DEF x, z, sized, taken, exact, departure
<1>7. CASE Promise(departure, exact, t.body) /\ Take(x, TRUE)
    BY <1>1, <1>5, <1>7, <1>9, TookBodyFor DEF t, W
<1>8. CASE Ask(taken, t.body) /\ Take(z, TRUE)
    BY <1>1, <1>6, <1>8, TookBody DEF t, W
<1>. QED
    BY <1>1, <1>7, <1>8

LEMMA TextByte ==
    ASSUME NEW text \in Seq(0..(Base - 1)), NEW i \in DOMAIN text
    PROVE  AsInt(<<text[i]>>) \in Int
<1>. DEFINE S == 0..(Base - 1)
<1>1. text \in Seq(S)
    OBVIOUS
<1>. HIDE DEF S
<1>2. text[i] \in S
    BY <1>1
<1>3. text[i] \in 0..(Base - 1)
    BY <1>2 DEF S
<1>. QED
    BY <1>3, ByteValue, BaseIs

LEMMA ReaderExpectThisText ==
    ASSUME ReaderInv, NEW text \in Texts, ExpectThisText(text)
    PROVE  ReaderInv'
<1>. DEFINE t == Next1
            W == WireFrom(message, place + 1)
            x == [ExpectStrMatch(reader, text) EXCEPT !.got = <<>>]
            same == t.tag.type = "str" /\ t.body = text /\ \A i \in DOMAIN text : AsInt(<<text[i]>>) >= 0
            outcome == IF same THEN "ok" ELSE "type"
            found == t.tag.type = "str" /\ t.body = text
            upper == \E i \in DOMAIN text : AsInt(<<text[i]>>) < 0
            promised == IF found THEN "ok" ELSE "type"
            departure == IF found /\ upper THEN "match" ELSE "none"
<1>1. AtTag /\ Promise(departure, promised, <<>>) /\ Take(x, TRUE)
    BY DEF ExpectThisText, Departing
<1>2. Sensible(t) /\ W \in Bytes /\ Along(reader, Spelled(t) \o W, cut)
    BY <1>1, AtTheTag
<1>3. text \in Seq(0..(Base - 1))
    BY StreamAssumption
<1>. HIDE DEF t, W
<1>4. Answers(reader, x, outcome, <<>>, W, cut)
    BY <1>2, <1>3, TextExpected
<1>5. (departure = "none" => outcome = promised) /\ (outcome = "ok" => promised = "ok")
    <2>1. ASSUME NEW i \in DOMAIN text PROVE AsInt(<<text[i]>>) \in Int
        BY <1>3, TextByte
    <2>. QED
        BY <2>1
<1>. HIDE DEF x, outcome, promised, departure
<1>. QED
    BY <1>1, <1>4, <1>5, TookBodyFor DEF t, W

LEMMA KeysLength ==
    Len(Keys) \in Nat
<1>. DEFINE n == Cardinality(Texts)
            F == [1..n -> Texts]
<1>1. n \in Nat /\ ExistsBijection(1..n, Texts)
    BY StreamAssumption, FS_CardinalityType
<1>2. \E f \in F : IsInjective(f)
    BY <1>1 DEF ExistsBijection, Bijection, Injection
<1>3. Keys = CHOOSE f \in F : IsInjective(f)
    BY DEF Keys, SetToSeq
<1>4. Keys \in F
    BY <1>2, <1>3
<1>5. Keys \in Seq(Texts)
    BY <1>1, <1>4
<1>. QED
    BY <1>5

LEMMA ReaderExpectAKey ==
    ASSUME ReaderInv, NEW found, ExpectAKey(Keys, found)
    PROVE  ReaderInv'
<1>. DEFINE t == Next1
            W == WireFrom(message, place + 1)
            x == ExpectKeyCstr(reader, Keys, found)
            isStr == t.tag.type = "str"
            index == IF isStr THEN IndexIn(Keys, t.body) ELSE Len(Keys)
            outcome == IF isStr /\ reader.kind # "data" /\ Len(t.body) > reader.size THEN "too_big"
                       ELSE IF index \in found /\ index < Len(Keys) THEN "invalid"
                       ELSE IF t.tag.type = "ext" THEN "unsupported" ELSE "ok"
<1>1. AtTag /\ Holding(t.tag) = 0 /\ Ask(outcome, index) /\ Take(x, TRUE)
    BY DEF ExpectAKey, Foreigner
<1>2. Sensible(t) /\ W \in Bytes /\ Along(reader, Spelled(t) \o W, cut)
    BY <1>1, AtTheTag
<1>3. Len(Keys) \in Nat
    BY KeysLength
<1>. HIDE DEF t, W
<1>4. Answers(reader, x, outcome, index, W, cut)
    BY <1>1, <1>2, <1>3, KeyExpected
<1>. HIDE DEF x, outcome, index
<1>. QED
    BY <1>1, <1>4, TookBody DEF t, W

LEMMA ReaderExpectOneOf ==
    ASSUME ReaderInv, ExpectOneOf(Keys)
    PROVE  ReaderInv'
<1>. DEFINE t == Next1
            W == WireFrom(message, place + 1)
            x == ExpectEnum(reader, Keys)
            index == IF t.tag.type = "str" THEN IndexIn(Keys, t.body) ELSE Len(Keys)
            long == t.tag.type = "str" /\ reader.kind # "data" /\ Len(t.body) > reader.size
            outcome == IF long THEN "too_big" ELSE IF index < Len(Keys) THEN "ok" ELSE "type"
<1>1. AtTag /\ Ask(outcome, index) /\ Take(x, TRUE)
    BY DEF ExpectOneOf, Expecting, Departing, Ask
<1>2. Sensible(t) /\ W \in Bytes /\ Along(reader, Spelled(t) \o W, cut)
    BY <1>1, AtTheTag
<1>3. Len(Keys) \in Nat
    BY KeysLength
<1>. HIDE DEF t, W
<1>4. Answers(reader, x, outcome, index, W, cut)
    BY <1>2, <1>3, EnumExpected
<1>. HIDE DEF x, outcome, index
<1>. QED
    BY <1>1, <1>4, TookBody DEF t, W

LEMMA ReaderExpectAnUnusedKey ==
    ASSUME ReaderInv, NEW found, NEW count \in Nat, ExpectAnUnusedKey(found, count)
    PROVE  ReaderInv'
<1>. DEFINE t == Next1
            W == WireFrom(message, place + 1)
            x == ExpectKeyUint(reader, found, count)
            number == IF t.tag.type = "uint" THEN Lesser(t.tag.value, count) ELSE count
            outcome == IF number < count /\ number \in found THEN "invalid"
                       ELSE IF t.tag.type = "ext" THEN "unsupported" ELSE "ok"
<1>1. AtTag /\ Holding(t.tag) = 0 /\ Ask(outcome, number) /\ Take(x, TRUE)
    BY DEF ExpectAnUnusedKey, Expecting, Departing, Ask, Either, Unsupported, Foreigner
<1>2. Sensible(t) /\ W \in Bytes /\ Along(reader, Spelled(t) \o W, cut)
    BY <1>1, AtTheTag
<1>. HIDE DEF t, W
<1>3. Answers(reader, x, outcome, number, W, cut)
    BY <1>1, <1>2, KeyUintExpected
<1>. HIDE DEF x, outcome, number
<1>. QED
    BY <1>1, <1>3, TookBody DEF t, W

\* The next bytes of a body.
LEMMA PartTaken ==
    ASSUME NEW msg \in Seq(Tokens), NEW p \in Nat, NEW n \in Nat, n > 0, Between(msg, p, n), NEW count \in 1..n
    PROVE  LET body == msg[p].body
               from == Len(body) - n
               P == SubSeq(body, from + 1, from + count)
           IN  /\ P \in Bytes /\ Len(P) = count /\ LastPart(msg, p, n - count) \in Bytes
               /\ LastPart(msg, p, n) = P \o LastPart(msg, p, n - count)
               /\ Between(msg, p, n - count) /\ n - count \in Nat
<1>. DEFINE body == msg[p].body
            from == Len(body) - n
            P == SubSeq(body, from + 1, from + count)
<1>1. p \in 1..Len(msg) /\ HasBody(msg[p].tag) /\ n <= Len(body)
    BY DEF Between
<1>2. body \in Bytes
    <2>1. msg[p] \in Tokens
        BY <1>1
    <2>. QED
        BY <2>1 DEF Tokens
<1>3. LastPart(msg, p, n) = SubSeq(body, Len(body) - n + 1, Len(body))
    <2>1. ~(n = 0)
        OBVIOUS
    <2>. QED
        BY <2>1, Zenon DEF LastPart
<1>4. LastPart(msg, p, n - count) = IF n - count = 0 THEN <<>> ELSE SubSeq(body, Len(body) - (n - count) + 1, Len(body))
    BY DEF LastPart
<1>. HIDE DEF body
<1>5. Len(body) \in Nat
    BY <1>2 DEF Bytes
<1>. DEFINE len == Len(body)
            mid == from + count
<1>6. from \in Nat /\ mid \in Nat /\ from <= mid /\ mid <= len /\ count \in Nat /\ count <= n /\ n - count \in Nat
      /\ mid - from = count /\ len - n + 1 = from + 1 /\ len - (n - count) + 1 = mid + 1 /\ len \in Nat
      /\ (n - count = 0 => mid = len)
    <2>1. len \in Nat /\ from = len - n /\ mid = from + count /\ n <= len
        BY <1>1, <1>5
    <2>. HIDE DEF len, from, mid
    <2>. QED
        BY <2>1
<1>7. /\ SubSeq(body, from + 1, mid) \o SubSeq(body, mid + 1, len) = SubSeq(body, from + 1, len)
      /\ SubSeq(body, from + 1, mid) \in Bytes /\ SubSeq(body, mid + 1, len) \in Bytes
    <2>. HIDE DEF from, mid
    <2>. QED
        BY <1>2, <1>6, SlicesJoin
<1>8. P = SubSeq(body, from + 1, mid) /\ P \in Bytes
    BY <1>7
<1>9. Len(P) = count
    <2>. HIDE DEF from, mid
    <2>1. Len(SubSeq(body, from + 1, mid)) = mid - from
        BY <1>2, <1>6 DEF Bytes
    <2>. QED
        BY <1>6, <1>8, <2>1 DEF mid
<1>10. LastPart(msg, p, n - count) = SubSeq(body, mid + 1, len)
    <2>1. CASE n - count # 0
        BY <1>4, <1>6, <2>1
    <2>2. CASE n - count = 0
        <3>1. mid = len
            BY <1>6, <2>2
        <3>2. SubSeq(body, len + 1, len) = <<>>
            <4>. HIDE DEF len
            <4>. QED
                BY <1>2, <1>6 DEF Bytes
        <3>. QED
            BY <1>4, <2>2, <3>1, <3>2
    <2>. QED
        BY <2>1, <2>2
<1>11. LastPart(msg, p, n) = SubSeq(body, from + 1, len)
    BY <1>3, <1>6
<1>12. Between(msg, p, n - count)
    <2>1. n - count <= Len(body)
        <3>. HIDE DEF len, from, mid
        <3>1. n <= len /\ len \in Nat
            BY <1>1, <1>6 DEF len
        <3>2. n - count <= len
            BY <1>6, <3>1
        <3>. QED
            BY <3>2 DEF len
    <2>. QED
        BY <1>1, <1>6, <2>1 DEF Between, body
<1>13. LastPart(msg, p, n) = P \o LastPart(msg, p, n - count)
    BY <1>7, <1>8, <1>10, <1>11
<1>. QED
    BY <1>6, <1>7, <1>8, <1>9, <1>10, <1>12, <1>13 DEF body

LEMMA PartAhead ==
    ASSUME ReaderInv, Ready, NEW count \in 1..due
    PROVE  LET body == message[place].body
               from == Len(body) - due
               P == SubSeq(body, from + 1, from + count)
               rest == Coming(message, place, due - count)
           IN  /\ Reading /\ P \in Bytes /\ Len(P) = count /\ rest \in Bytes
               /\ Between(message, place, due - count) /\ Along(reader, P \o rest, cut)
<1>. DEFINE body == message[place].body
            from == Len(body) - due
            P == SubSeq(body, from + 1, from + count)
            n == due - count
            rest == Coming(message, place, n)
<1>1. Reading /\ reader.error = "ok"
    BY DEF Ready
<1>2. /\ Meant(message) /\ message \in Seq(Tokens) /\ Between(message, place, due)
      /\ Along(reader, Coming(message, place, due), cut)
    BY <1>1 DEF ReaderInv, ReadingAt, Meant
<1>3. due \in Nat /\ place \in Nat /\ place \in 0..Len(message) /\ due > 0
    <2>1. place \in 0..Len(message) /\ due \in Nat
        BY <1>2 DEF Between
    <2>2. Len(message) \in Nat
        BY <1>2
    <2>3. due > 0
        BY <2>1
    <2>. QED
        BY <2>1, <2>2, <2>3
<1>4. /\ P \in Bytes /\ Len(P) = count /\ LastPart(message, place, n) \in Bytes
      /\ LastPart(message, place, due) = P \o LastPart(message, place, n)
      /\ Between(message, place, n)
    <2>0. message \in Seq(Tokens) /\ place \in Nat /\ due \in Nat /\ due > 0 /\ Between(message, place, due)
        BY <1>2, <1>3
    <2>1. P \in Bytes /\ Len(P) = count
        BY ONLY <2>0, count \in 1..due, PartTaken
    <2>2. LastPart(message, place, n) \in Bytes
        BY ONLY <2>0, count \in 1..due, PartTaken
    <2>3. LastPart(message, place, due) = P \o LastPart(message, place, n)
        BY ONLY <2>0, count \in 1..due, PartTaken
    <2>4. Between(message, place, n)
        BY ONLY <2>0, count \in 1..due, PartTaken
    <2>. QED
        BY <2>1, <2>2, <2>3, <2>4
<1>5. WireFrom(message, place) \in Bytes
    BY <1>2, <1>3, WireFromBytes
<1>6. rest = LastPart(message, place, n) \o WireFrom(message, place) /\ rest \in Bytes
    BY <1>4, <1>5, Join DEF Coming
<1>7. Coming(message, place, due) = (P \o LastPart(message, place, n)) \o WireFrom(message, place)
    BY <1>4 DEF Coming
<1>. HIDE DEF P, n, rest
<1>8. Along(reader, P \o rest, cut)
    BY <1>2, <1>4, <1>5, <1>6, <1>7, AlongAgain
<1>. QED
    BY <1>1, <1>4, <1>6, <1>8 DEF P, n, rest

LEMMA TookPart ==
    ASSUME ReaderInv, Reading, NEW x, NEW outcome, NEW answer, NEW n,
           Answers(reader, x, outcome, answer, Coming(message, place, n), cut), Between(message, place, n),
           Ask(outcome, answer), reader' = x, due' = n, UNCHANGED <<writer, message, open, place, cut>>
    PROVE  ReaderInv'
<1>1. ReadingAt(x, message, place, n, outcome, answer, cut)
    BY AnswerTells
<1>2. asked'.answer = answer /\ Meets(outcome, asked')
    BY Asked
<1>3. ReadingAt(reader', message, place', due', outcome, asked'.answer, cut)
    BY <1>1, <1>2
<1>. QED
    BY <1>2, <1>3, StillReading

LEMMA ReaderReadSomeBytes ==
    ASSUME ReaderInv, NEW how \in {"copy", "in place", "either", "skip"}, NEW count, ReadSomeBytes(how, count)
    PROVE  ReaderInv'
<1>. DEFINE body == message[place].body
            from == Len(body) - due
            P == SubSeq(body, from + 1, from + count)
            n == due - count
            rest == Coming(message, place, n)
            outcome == IF how = "in place" /\ reader.kind # "data" /\ count > reader.size THEN "too_big" ELSE "ok"
            answer == IF how = "skip" THEN <<>> ELSE P
            x == BytesBy(how, count)
<1>1. Ready /\ count \in 1..due
    BY Zenon DEF ReadSomeBytes
<1>2. Ask(outcome, answer) /\ reader' = x /\ due' = n /\ UNCHANGED <<writer, message, open, place, cut>>
    BY Zenon DEF ReadSomeBytes
<1>3. /\ Reading /\ P \in Bytes /\ Len(P) = count /\ rest \in Bytes
      /\ Between(message, place, n) /\ Along(reader, P \o rest, cut)
    BY <1>1, PartAhead, Zenon
<1>. HIDE DEF P, n, rest
<1>4. Answers(reader, x, outcome, answer, rest, cut)
    BY <1>3, BytesTaken, Zenon
<1>. HIDE DEF x, outcome, answer
<1>. QED
    BY <1>2, <1>3, <1>4, TookPart, Zenon DEF rest

LEMMA ReaderDiscardAnObject ==
    ASSUME ReaderInv, DiscardAnObject
    PROVE  ReaderInv'
<1>. DEFINE size == Extent(place + 1)
            known == \A i \in (place + 1)..(place + size) : message[i].tag.type # "ext"
            outcome == IF known THEN "ok" ELSE "unsupported"
            y == Discard(reader)
            x == [y EXCEPT !.got = <<>>]
            ts == Tokens1(place, size)
            w == Wires(place, size)
            q == place + size
<1>1. AtTag /\ Ask(outcome, <<>>) /\ place' = q /\ reader' = x /\ UNCHANGED <<writer, message, due, cut>>
    BY DEF DiscardAnObject
<1>2. /\ Reading /\ Meant(message) /\ place \in Nat /\ place < Len(message) /\ Sensible(Next1)
      /\ WireFrom(message, place + 1) \in Bytes /\ Next1 = message[place + 1]
      /\ Along(reader, Spelled(Next1) \o WireFrom(message, place + 1), cut)
    BY <1>1, AtTheTag
<1>3. Along(reader, WireFrom(message, place), cut)
    BY <1>2, ToldTokens
<1>4. message \in Seq(Tokens) /\ (\A i \in 1..Len(message) : Sensible(message[i]))
      /\ \E d, e : Debts(message, <<>>, d, e)
    BY <1>2 DEF Meant, Balanced
<1>5. PICK d, e : Debts(message, <<>>, d, e)
    BY <1>4
<1>. DEFINE owed == OwedFrom(d, place, Len(message) - place)
<1>. HIDE DEF size
<1>6. /\ size \in 1..(Len(message) - place) /\ size \in Nat /\ Object(ts, w, owed, size)
      /\ w[0] = WireFrom(message, place) /\ w[size] = WireFrom(message, q) /\ (Known(ts, size) <=> known)
    BY <1>2, <1>4, <1>5, ObjectThere DEF size
<1>. HIDE DEF ts, w, owed, known
<1>7. Along(reader, w[0], cut)
    BY <1>3, <1>6
<1>8. /\ known => Leaves(reader, y, w[size], cut)
      /\ ~known => Refuses(reader, y, "unsupported", cut)
    BY <1>6, <1>7, DiscardsAll
<1>9. /\ known => Gives(reader, x, <<>>, w[size], cut)
      /\ ~known => Refuses(reader, x, "unsupported", cut)
    BY <1>8, Ignored
<1>10. Answers(reader, x, outcome, <<>>, WireFrom(message, q), cut)
    BY <1>6, <1>9 DEF Answers
<1>11. due = 0
    BY <1>1 DEF AtTag
<1>12. q \in Nat /\ q \in 0..Len(message)
    <2>1. Len(message) \in Nat
        BY <1>4
    <2>. QED
        BY <1>2, <1>6, <2>1
<1>. HIDE DEF x, y, outcome, q
<1>13. ReadingAt(x, message, q, 0, outcome, <<>>, cut)
    BY <1>2, <1>10, <1>12, BodyTold
<1>14. asked'.answer = <<>> /\ Meets(outcome, asked')
    BY <1>1, Asked
<1>15. ReadingAt(reader', message, place', due', outcome, asked'.answer, cut)
    BY <1>1, <1>11, <1>13, <1>14
<1>. QED
    BY <1>1, <1>2, <1>14, <1>15, StillReading

LEMMA NewFed ==
    ASSUME NEW kind \in Sources, NEW size \in BufferSizes, NEW chunk \in Chunks, NEW bytes \in Bytes,
           NEW r, r = NewReader(kind, size, chunk, bytes)
    PROVE  Fed(r) /\ r.error = "ok" /\ Stream(r) = bytes /\ r.got = <<>>
<1>1. /\ kind \in {"data", "fill", "file", "pipe"} /\ size \in Nat /\ size >= 9
      /\ chunk \in Nat /\ chunk > 0
    BY StreamAssumption
<1>2. IsReader(r)
    BY DEF NewReader, IsReader, ReaderFields
<1>3. r.kind = kind /\ r.error = "ok" /\ r.got = <<>> /\ r.feof = FALSE /\ r.chunk = chunk
    BY DEF NewReader
<1>4. <<>> \in Bytes /\ Len(<<>>) = 0 /\ bytes \o <<>> = bytes /\ <<>> \o bytes = bytes
    BY Nothings, Join
<1>5. ASSUME kind = "data" PROVE Fed(r) /\ Stream(r) = bytes
    <2>1. r.size = 0 /\ r.data = bytes /\ r.source = <<>>
        BY <1>5 DEF NewReader
    <2>2. Stream(r) = bytes
        BY <1>4, <2>1 DEF Stream
    <2>3. r.kind = "data" /\ r.data \in Bytes /\ r.source \in Bytes /\ r.feof \in BOOLEAN /\ ~r.feof
        BY <1>3, <1>4, <1>5, <2>1
    <2>. QED
        BY <1>2, <2>1, <2>2, <2>3 DEF Fed
<1>6. ASSUME kind # "data" PROVE Fed(r) /\ Stream(r) = bytes
    <2>1. r.size = size /\ r.data = <<>> /\ r.source = bytes
        BY <1>6 DEF NewReader
    <2>2. Stream(r) = bytes
        BY <1>4, <2>1 DEF Stream
    <2>3. /\ r.kind \in {"data", "fill", "file", "pipe"} /\ r.kind # "data"
          /\ r.data \in Bytes /\ r.source \in Bytes /\ r.feof \in BOOLEAN /\ ~r.feof
        BY <1>1, <1>3, <1>4, <1>6, <2>1
    <2>4. r.size \in Nat /\ r.size >= 9 /\ r.chunk \in Nat /\ r.chunk > 0 /\ Len(r.data) <= r.size
        BY <1>1, <1>3, <1>4, <2>1
    <2>. QED
        BY <1>2, <2>2, <2>3, <2>4 DEF Fed
<1>. QED
    BY <1>3, <1>5, <1>6

LEMMA LeavesUnread ==
    ASSUME Written1
    PROVE  Unread
BY DEF Written1, WriteAScalar, WriteAForeign, WriteAStr, StartBytes, WriteSomeBytes, FinishBytes, Start, Finish,
       Build, Complete, Flush, GiveUp

LEMMA ReaderInit ==
    ASSUME Init
    PROVE  ReaderInv
<1>1. message = <<>> /\ open = <<>> /\ ~Reading /\ asked = NoQuestion /\ place = 0 /\ due = 0
    BY DEF Init, Reading
<1>2. Good(writer, message, open)
    BY GoodInit
<1>3. ~IsClosed
    BY <1>2, GoodSink DEF IsClosed
<1>. QED
    BY <1>1, <1>3, BalancedNone DEF ReaderInv

LEMMA ReaderWritten ==
    ASSUME StreamInv, ReaderInv, Written1, BuildSize >= MinBuffer
    PROVE  ReaderInv'
<1>1. Writing /\ Good(writer, message, open) /\ Balanced(message, open)
    BY WritingStep DEF StreamInv, ReaderInv
<1>2. ~Reading
    BY <1>1 DEF Writing, ReaderInv
<1>3. asked = NoQuestion /\ place = 0 /\ due = 0
    BY <1>2 DEF ReaderInv
<1>4. UNCHANGED <<reader, place, due, asked, cut>>
    BY LeavesUnread DEF Unread
<1>5. Good(writer', message', open') /\ Balanced(message', open')
    BY <1>1, GoodWritten, BalancedWritten
<1>6. writer'.sink # "closed"
    <2>. DEFINE w == writer'
                msg == message'
                opn == open'
    <2>1. Good(w, msg, opn)
        BY <1>5
    <2>. HIDE DEF w, msg, opn
    <2>2. w.sink # "closed"
        BY <2>1, GoodSink
    <2>. QED
        BY <2>2 DEF w
<1>7. ~Reading' /\ ~IsClosed'
    BY <1>2, <1>4, <1>6 DEF Reading, IsClosed
<1>8. (Balanced(message, open))'
    BY <1>5 DEF Balanced, Sensible, Nested, Debts, Owe
<1>. QED
    BY <1>3, <1>4, <1>7, <1>8 DEF ReaderInv, NoQuestion

LEMMA ReaderDestroyed ==
    ASSUME StreamInv, ReaderInv, Destroy
    PROVE  ReaderInv'
<1>1. /\ Writing /\ (open = <<>> \/ writer.error # "ok") /\ writer' = Closed(DestroyWriter(writer))
      /\ message' = message /\ open' = open /\ UNCHANGED <<reader, place, due, asked, cut>>
    BY DEF Destroy, Unread
<1>2. Proper(message, open) /\ Sound(writer, message, open, Rest(message, open)) /\ Balanced(message, open)
    BY <1>1 DEF StreamInv, Good, ReaderInv
<1>3. ~Reading /\ asked = NoQuestion /\ place = 0 /\ due = 0
    BY <1>1 DEF Writing, ReaderInv
<1>. DEFINE c == writer'
<1>4. c = Closed(DestroyWriter(writer))
    BY <1>1
<1>. HIDE DEF c
<1>5. c.sink = "closed" /\ (writer.error # "ok" => c.error # "ok")
    BY <1>1, <1>2, <1>4, SoundDestroyed
<1>6. ~Writing' /\ ~Reading'
    BY <1>1, <1>3, <1>5 DEF Writing, Reading, c
<1>7. c.error = "ok" => Meant(message)
    <2>. SUFFICES ASSUME c.error = "ok" PROVE Meant(message)
        OBVIOUS
    <2>1. open = <<>>
        BY <1>1, <1>5
    <2>2. message \in Seq(Tokens)
        BY <1>2 DEF Proper
    <2>. QED
        BY <1>2, <2>1, <2>2 DEF Meant
<1>8. (IsClosed /\ writer.error = "ok" => Meant(message))'
    BY <1>1, <1>7 DEF c
<1>. QED
    BY <1>1, <1>3, <1>6, <1>8 DEF ReaderInv, NoQuestion

LEMMA ReaderArrived ==
    ASSUME StreamInv, ReaderInv,
           NEW kind \in Sources, NEW size \in BufferSizes, NEW chunk \in Chunks, Arrive(kind, size, chunk)
    PROVE  ReaderInv'
<1>. DEFINE out == writer.out
<1>1. /\ IsClosed /\ writer.error = "ok" /\ writer' = Nothing /\ UNCHANGED <<message, open, place, due, asked>>
      /\ \E count \in 0..Len(out) :
            /\ reader' = NewReader(kind, size, chunk, SubSeq(out, 1, count))
            /\ cut' = (count < Len(out))
    BY DEF Arrive
<1>2. PICK count \in 0..Len(out) :
            /\ reader' = NewReader(kind, size, chunk, SubSeq(out, 1, count))
            /\ cut' = (count < Len(out))
    BY <1>1
<1>3. Meant(message) /\ message \in Seq(Tokens)
    BY <1>1 DEF ReaderInv, Meant
<1>4. out = Wire(message)
    BY <1>1 DEF StreamInv, Done
<1>5. out \in Bytes /\ Len(out) \in Nat /\ WireFrom(message, 0) = out
    BY <1>3, <1>4, WholePrefix, WireFromAll DEF Bytes
<1>6. ~Reading /\ asked = NoQuestion /\ place = 0 /\ due = 0
    <2>1. writer # Nothing
        BY <1>1 DEF IsClosed
    <2>. QED
        BY <2>1 DEF ReaderInv
<1>. DEFINE r == reader'
            c == cut'
            got == SubSeq(out, 1, count)
            t == After(out, count)
<1>7. r = NewReader(kind, size, chunk, got) /\ c = (count < Len(out))
    BY <1>2
<1>. HIDE DEF r, c, out
<1>8. /\ got \in Bytes /\ t \in Bytes /\ got \o t = out /\ Len(t) = Len(out) - count
      /\ count \in Nat /\ count <= Len(out)
    BY <1>5, AfterIs
<1>. HIDE DEF got, t
<1>9. Fed(r) /\ r.error = "ok" /\ Stream(r) = got /\ r.got = <<>>
    BY <1>7, <1>8, NewFed
<1>10. Coming(message, 0, 0) = out
    <2>1. LastPart(message, 0, 0) = <<>>
        BY DEF LastPart
    <2>. QED
        BY <1>5, <2>1, Join DEF Coming
<1>11. Trailing(r, out, c, t)
    <2>. DEFINE l == Len(t)
                k == Len(out)
    <2>0. l = k - count /\ count \in Nat /\ k \in Nat /\ count <= k /\ (c <=> count < k)
        BY <1>5, <1>7, <1>8
    <2>. HIDE DEF l, k
    <2>5. (~c => l = 0) /\ (c => l # 0)
        BY <2>0
    <2>1. ~c => t = <<>>
        <3>1. ~c => Len(t) = 0
            BY <2>5 DEF l
        <3>. QED
            BY <1>8, <3>1 DEF Bytes
    <2>2. c => t # <<>>
        <3>1. c => Len(t) # 0
            BY <2>5 DEF l
        <3>2. Len(<<>>) = 0
            OBVIOUS
        <3>. QED
            BY <3>1, <3>2
    <2>. QED
        BY <1>8, <1>9, <2>1, <2>2 DEF Trailing
<1>12. Between(message, 0, 0)
    <2>1. Len(message) \in Nat
        BY <1>3
    <2>. QED
        BY <2>1 DEF Between
<1>13. ReadingAt(r, message, 0, 0, "ok", <<>>, c)
    BY <1>9, <1>10, <1>11, <1>12 DEF ReadingAt, Along
<1>14. Meets("ok", asked') /\ ReadingAt(reader', message', place', due', "ok", asked'.answer, cut')
    <2>1. asked.outcome = "ok" /\ asked.answer = <<>>
        BY <1>6 DEF NoQuestion
    <2>. QED
        BY <1>1, <1>6, <1>13, <2>1 DEF Meets, r, c
<1>15. r # Nothing
    BY <1>9, FedThere
<1>16. Reading' /\ ~Writing' /\ ~IsClosed'
    BY <1>1, <1>15 DEF Reading, Writing, IsClosed, r
<1>17. Meant(message')
    BY <1>1, <1>3
<1>18. (Meant(message))'
    BY <1>17
<1>. QED
    BY <1>1, <1>14, <1>16, <1>18 DEF ReaderInv

LEMMA ReaderUnchanged ==
    ASSUME ReaderInv, UNCHANGED vars
    PROVE  ReaderInv'
BY DEF ReaderInv, vars, Writing, Reading, IsClosed

------------------------------------------------------------------------------------
(* What is proved of the reader. *)

LEMMA ReaderBeyond ==
    ASSUME ReaderInv, Beyond
    PROVE  ReaderInv'
<1>1. CASE ReadATag
    BY <1>1, ReaderReadATag
<1>2. CASE PeekATag
    BY <1>2, ReaderPeekATag
<1>3. CASE \E how \in {"copy", "in place", "either", "skip"}, count \in {Piece, due} : ReadSomeBytes(how, count)
    BY <1>3, ReaderReadSomeBytes, Zenon
<1>4. CASE DiscardAnObject
    BY <1>4, ReaderDiscardAnObject
<1>5. CASE \E type \in IntTypes : ExpectANumber(type)
    BY <1>5, ReaderExpectANumber
<1>6. CASE ExpectANil
    BY <1>6, ReaderExpectANil
<1>7. CASE \E value \in BOOLEAN : ExpectABool(value)
    BY <1>7, ReaderExpectABool
<1>8. CASE \E type \in {"array", "map"}, max \in Counts : ExpectACompound(type, max)
    BY <1>8, ReaderExpectACompound
<1>9. CASE \E size \in BufferSizes : ExpectAText(size) \/ ExpectABlob(size)
    BY <1>9, ReaderExpectAText, ReaderExpectABlob
<1>10. CASE \E found \in {{}, {0}} : ExpectAKey(Keys, found)
    BY <1>10, ReaderExpectAKey
<1>. QED
    BY <1>1, <1>2, <1>3, <1>4, <1>5, <1>6, <1>7, <1>8, <1>9, <1>10, Zenon DEF Beyond

LEMMA ReaderRarely ==
    ASSUME ReaderInv, Rarely
    PROVE  ReaderInv'
<1>1. CASE \E type \in IntTypes : ExpectARange(type)
    BY <1>1, ReaderExpectARange
<1>2. CASE \E tag \in Scalars : ExpectATag(tag) \/ (IsNumber(tag) /\ ExpectAMatch(tag.value))
    BY <1>2, ReaderExpectATag, ReaderExpectAMatch
<1>3. CASE \E isStrict \in BOOLEAN : ExpectAFloat(isStrict)
    BY <1>3, ReaderExpectAFloat
<1>4. CASE \E max \in Counts, orNil \in BOOLEAN, canAllocate \in BOOLEAN : ExpectAllocated(max, orNil, canAllocate)
    BY <1>4, ReaderExpectAllocated
<1>5. CASE \E text \in Texts, canAllocate \in BOOLEAN :
          ExpectARareText(Len(text), canAllocate) \/ ExpectARareBlob(Len(text), canAllocate)
    <2>1. \A text \in Texts : Len(text) \in Int
        BY StreamAssumption
    <2>. QED
        BY <1>5, <2>1, ReaderExpectARareText, ReaderExpectARareBlob
<1>6. CASE \E text \in Texts : ExpectThisText(text)
    BY <1>6, ReaderExpectThisText
<1>7. CASE ExpectOneOf(Keys)
    BY <1>7, ReaderExpectOneOf
<1>8. CASE ExpectAnUnusedKey({1}, 2)
    BY <1>8, ReaderExpectAnUnusedKey
<1>. QED
    BY <1>1, <1>2, <1>3, <1>4, <1>5, <1>6, <1>7, <1>8 DEF Rarely

LEMMA ReaderStep ==
    ASSUME StreamInv, ReaderInv, [Next]_vars, BuildSize >= MinBuffer
    PROVE  ReaderInv'
<1>1. CASE Written1
    BY <1>1, ReaderWritten
<1>2. CASE Destroy
    BY <1>2, ReaderDestroyed
<1>3. CASE \E kind \in Sources, size \in BufferSizes, chunk \in Chunks : Arrive(kind, size, chunk)
    BY <1>3, ReaderArrived
<1>4. CASE Beyond
    BY <1>4, ReaderBeyond
<1>5. CASE Rarely
    BY <1>5, ReaderRarely
<1>6. CASE UNCHANGED vars
    BY <1>6, ReaderUnchanged
<1>. QED
    BY <1>1, <1>2, <1>3, <1>4, <1>5, <1>6, Zenon DEF Next, Written1, Beyond, Rarely

\* What is proved about every reachable state while the message is read: the reader has
\* to give exactly what the user has not read yet (all of it, or its beginning when the
\* message is cut), and says of every call what it should say.
THEOREM ReaderAlwaysThere == WideBuilds => (Spec => []ReaderInv)
<1>. SUFFICES ASSUME WideBuilds PROVE Spec => []ReaderInv
    OBVIOUS
<1>1. BuildSize >= MinBuffer
    BY DEF WideBuilds
<1>2. Init => StreamInv /\ ReaderInv
    BY StreamInit, ReaderInit
<1>3. (StreamInv /\ ReaderInv) /\ [Next]_vars => (StreamInv /\ ReaderInv)'
    BY <1>1, StreamStep, ReaderStep
<1>. QED
    BY <1>2, <1>3, PTL DEF Spec

\* A call of the reader that succeeds returns what the writer's user put there, and
\* succeeds only where it should: whatever the source, the sizes of its pieces and of
\* the buffer, and wherever the message is cut.
THEOREM AlwaysDelivered == WideBuilds => (Spec => []Delivered)
<1>. SUFFICES ASSUME WideBuilds PROVE Spec => []Delivered
    OBVIOUS
<1>1. ReaderInv => Delivered
    BY DEF ReaderInv, ReadingAt, Meets, Delivered
<1>2. Spec => []ReaderInv
    BY ReaderAlwaysThere
<1>. QED
    BY <1>1, <1>2, PTL

\* The reader reports an error for a whole message only where the caller asked for
\* something else than what is there.
THEOREM NeverFalseError == WideBuilds => (Spec => []NoFalseError)
<1>. SUFFICES ASSUME WideBuilds PROVE Spec => []NoFalseError
    OBVIOUS
<1>1. ReaderInv => NoFalseError
    BY DEF ReaderInv, ReadingAt, Meets, NoFalseError, AsPromised
<1>2. Spec => []ReaderInv
    BY ReaderAlwaysThere
<1>. QED
    BY <1>1, <1>2, PTL

\* Nobody reads a message to its end when the end never arrived.
THEOREM CutAlwaysNoticed == WideBuilds => (Spec => []CutNoticed)
<1>. SUFFICES ASSUME WideBuilds PROVE Spec => []CutNoticed
    OBVIOUS
<1>1. ReaderInv => CutNoticed
    <2>. SUFFICES ASSUME ReaderInv, Reading, cut, place = Len(message), due = 0, reader.kind # "file",
                         reader.error = "ok"
                  PROVE  FALSE
        BY DEF CutNoticed
    <2>1. message \in Seq(Tokens) /\ Along(reader, Coming(message, place, 0), cut)
        BY DEF ReaderInv, ReadingAt, Meant
    <2>2. WireFrom(message, place) = <<>>
        BY <2>1, WireFromAll
    <2>3. LastPart(message, place, 0) = <<>>
        BY DEF LastPart
    <2>4. Coming(message, place, 0) = <<>>
        BY <2>2, <2>3, Nothings, Join DEF Coming
    <2>. DEFINE s == Stream(reader)
    <2>5. Fed(reader) /\ s \in Bytes
        BY <2>1, AlongParts
    <2>6. PICK t : Trailing(reader, <<>>, cut, t)
        BY <2>1, <2>4 DEF Along
    <2>7. t \in Bytes /\ <<>> = s \o t /\ t # <<>>
        BY <2>6 DEF Trailing
    <2>. HIDE DEF s
    <2>8. Len(s \o t) = Len(s) + Len(t) /\ Len(s) \in Nat /\ Len(t) \in Nat
        BY <2>5, <2>7 DEF Bytes
    <2>9. Len(t) # 0
        BY <2>7 DEF Bytes
    <2>10. Len(s \o t) = 0
        <3>1. Len(<<>>) = 0
            OBVIOUS
        <3>. QED
            BY <2>7, <3>1
    <2>. QED
        BY <2>8, <2>9, <2>10
<1>2. Spec => []ReaderInv
    BY ReaderAlwaysThere
<1>. QED
    BY <1>1, <1>2, PTL
====================================================================================
