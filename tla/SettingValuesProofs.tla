----------------------------- MODULE SettingValuesProofs -----------------------------
(* What a definition admits is what its limits mean, and what is saved reads back,    *)
(* for integers of every width.                                                       *)
EXTENDS SettingValues, WellFoundedInduction, TLAPS

------------------------------------------------------------------------------------
(* Powers of two.                                                                     *)

\* Every set of natural numbers that is not empty has a least element.
LEMMA LeastNumber ==
    ASSUME NEW S, S \subseteq Nat, S # {}
    PROVE  \E m \in S : \A n \in S : m <= n
<1>. DEFINE R == {z \in Nat \X Nat : z[1] < z[2]}
<1>1. IsWellFoundedOn(R, Nat)
    BY NatLessThanWellFounded DEF OpToRel
<1>2. PICK m \in S : \A n \in S : ~(<<n, m>> \in R)
    <2>. HIDE DEF R
    <2>. QED
        BY <1>1, WFMin
<1>3. \A n \in S : ~(n < m)
    BY <1>2
<1>. QED
    BY <1>3

\* The recursion of Power has a solution, however far it goes.
LEMMA PowerExists ==
    ASSUME NEW n \in Nat
    PROVE  \E f : f = [i \in 0..n |-> IF i = 0 THEN 1 ELSE 2 * f[i - 1]]
<1>. DEFINE F(f, m) == [i \in 0..m |-> IF i = 0 THEN 1 ELSE 2 * f[i - 1]]
            S == {m \in Nat : ~\E f : f = F(f, m)}
<1>1. SUFFICES ASSUME S # {}
               PROVE  FALSE
    OBVIOUS
<1>2. PICK m \in S : \A i \in S : m <= i
    BY <1>1, LeastNumber
<1>3. m # 0
    <2>1. [i \in 0..0 |-> 1] = F([i \in 0..0 |-> 1], 0)
        OBVIOUS
    <2>. QED
        BY <2>1
<1>4. m - 1 \in Nat /\ m - 1 \notin S
    <2>1. m \in Nat
        OBVIOUS
    <2>. HIDE DEF S
    <2>. QED
        BY <1>2, <1>3, <2>1
<1>5. PICK f : f = F(f, m - 1)
    BY <1>4
<1>. DEFINE next == [i \in 0..m |-> IF i = 0 THEN 1 ELSE 2 * f[i - 1]]
<1>6. \A i \in 0..(m - 1) : next[i] = f[i]
    <2>. SUFFICES ASSUME NEW i \in 0..(m - 1)
                  PROVE  next[i] = f[i]
        OBVIOUS
    <2>1. f[i] = IF i = 0 THEN 1 ELSE 2 * f[i - 1]
        BY <1>5
    <2>2. i \in 0..m
        OBVIOUS
    <2>. QED
        BY <2>1, <2>2
<1>7. next = F(next, m)
    <2>1. \A i \in 0..m : i # 0 => i - 1 \in 0..(m - 1)
        OBVIOUS
    <2>2. \A i \in 0..m : i # 0 => next[i - 1] = f[i - 1]
        <3>. HIDE DEF next
        <3>. QED
            BY <1>6, <2>1
    <2>. QED
        BY <2>2
<1>. QED
    BY <1>7

LEMMA PowerOf ==
    /\ Power[0] = 1
    /\ \A n \in 1..MaxBits : Power[n] = 2 * Power[n - 1]
<1>. DEFINE F(f) == [n \in 0..MaxBits |-> IF n = 0 THEN 1 ELSE 2 * f[n - 1]]
<1>1. MaxBits \in Nat
    BY DEF MaxBits
<1>2. \E f : f = F(f)
    BY <1>1, PowerExists
<1>3. Power = CHOOSE f : f = F(f)
    BY DEF Power
<1>4. Power = F(Power)
    BY <1>2, <1>3
<1>5. 0 \in 0..MaxBits /\ \A n \in 1..MaxBits : n \in 0..MaxBits /\ n # 0
    BY <1>1
<1>. QED
    BY <1>4, <1>5

LEMMA PowerPositive == \A n \in 0..MaxBits : Power[n] \in Nat \ {0}
<1>. DEFINE S == {n \in 0..MaxBits : Power[n] \notin Nat \ {0}}
<1>1. SUFFICES ASSUME S # {}
               PROVE  FALSE
    OBVIOUS
<1>2. PICK n \in S : \A i \in S : n <= i
    <2>1. S \subseteq Nat
        BY DEF MaxBits
    <2>. QED
        BY <1>1, <2>1, LeastNumber
<1>3. n \in 0..MaxBits /\ MaxBits \in Nat
    BY DEF MaxBits
<1>4. n # 0
    BY PowerOf
<1>5. n - 1 \in 0..MaxBits /\ ~(n <= n - 1)
    BY <1>3, <1>4
<1>6. Power[n - 1] \in Nat \ {0}
    BY <1>2, <1>5
<1>7. Power[n] = 2 * Power[n - 1]
    BY <1>3, <1>4, PowerOf
<1>. QED
    BY <1>6, <1>7

\* 2^(m + n) = 2^m * 2^n.
LEMMA PowerSum ==
    ASSUME NEW m \in Nat, NEW n \in Nat, m + n <= MaxBits
    PROVE  Power[m + n] = Power[m] * Power[n]
<1>. DEFINE S == {i \in 0..n : Power[m + i] # Power[m] * Power[i]}
<1>1. SUFFICES ASSUME S # {}
               PROVE  FALSE
    OBVIOUS
<1>2. PICK i \in S : \A j \in S : i <= j
    <2>1. S \subseteq Nat
        OBVIOUS
    <2>. QED
        BY <1>1, <2>1, LeastNumber
<1>3. i \in 0..n /\ MaxBits \in Nat
    BY DEF MaxBits
<1>4. i # 0
    BY <1>3, PowerOf, PowerPositive
<1>5. i - 1 \in 0..n /\ ~(i <= i - 1) /\ m + i \in 1..MaxBits /\ i \in 1..MaxBits
    BY <1>3, <1>4
<1>6. Power[m + (i - 1)] = Power[m] * Power[i - 1]
    BY <1>2, <1>5
<1>7. Power[m + i] = 2 * Power[m + (i - 1)]
    <2>1. (m + i) - 1 = m + (i - 1)
        BY <1>3
    <2>. QED
        BY <1>5, <2>1, PowerOf
<1>8. Power[i] = 2 * Power[i - 1]
    BY <1>5, PowerOf
<1>9. Power[m] \in Nat /\ Power[i - 1] \in Nat
    BY <1>3, <1>5, PowerPositive
<1>10. Power[m + i] = Power[m] * Power[i]
    BY <1>6, <1>7, <1>8, <1>9
<1>. QED
    BY <1>10

------------------------------------------------------------------------------------
(* Quotients and remainders.                                                          *)

LEMMA Division ==
    ASSUME NEW a \in Int, NEW b \in Nat \ {0}
    PROVE  /\ a \div b \in Int
           /\ a % b \in 0..(b - 1)
           /\ a = (a \div b) * b + (a % b)
OBVIOUS

LEMMA DivisionUnique ==
    ASSUME NEW q \in Int, NEW b \in Nat \ {0}, NEW r \in 0..(b - 1)
    PROVE  (q * b + r) \div b = q /\ (q * b + r) % b = r
<1>. DEFINE a == q * b + r
            p == a \div b
            s == a % b
<1>1. a \in Int
    OBVIOUS
<1>2. p \in Int /\ s \in 0..(b - 1) /\ a = p * b + s
    BY <1>1, Division
<1>3. (q - p) * b = s - r
    BY <1>2
<1>. HIDE DEF a, p, s
<1>4. q - p < 1 /\ q - p > -1
    BY <1>2, <1>3
<1>5. p = q /\ s = r
    BY <1>2, <1>3, <1>4
<1>. QED
    BY <1>5 DEF a, p, s

LEMMA DivisionTwice ==
    ASSUME NEW a \in Nat, NEW b \in Nat \ {0}, NEW c \in Nat \ {0}
    PROVE  (a \div b) \div c = a \div (b * c)
<1>. DEFINE q == a \div b
            r == a % b
            p == q \div c
            s == q % c
<1>1. q \in Int /\ r \in 0..(b - 1) /\ a = q * b + r
    BY Division
<1>2. p \in Int /\ s \in 0..(c - 1) /\ q = p * c + s
    BY <1>1, Division
<1>. HIDE DEF q, r, p, s
<1>3. a = p * (b * c) + (s * b + r) /\ b * c \in Nat \ {0}
    BY <1>1, <1>2
<1>4. s * b + r \in 0..(b * c - 1)
    <2>1. s * b <= (c - 1) * b /\ s * b >= 0
        BY <1>2
    <2>2. (c - 1) * b = b * c - b
        OBVIOUS
    <2>3. s * b \in Int /\ b * c \in Int
        BY <1>2
    <2>. HIDE DEF q
    <2>. QED
        BY <1>1, <2>1, <2>2, <2>3
<1>5. a \div (b * c) = p
    BY <1>2, <1>3, <1>4, DivisionUnique
<1>. QED
    BY <1>5 DEF q, p

LEMMA NextDigit ==
    ASSUME NEW a \in Nat, NEW b \in Nat \ {0}, NEW c \in Nat \ {0}
    PROVE  a \div b = ((a \div b) % c) + (a \div (b * c)) * c
<1>. DEFINE q == a \div b
<1>1. q \in Int
    BY Division
<1>2. a \div (b * c) = q \div c
    BY DivisionTwice
<1>. HIDE DEF q
<1>3. q = (q \div c) * c + (q % c) /\ q \div c \in Int /\ q % c \in Int
    BY <1>1, Division
<1>4. q = (q % c) + (q \div c) * c
    BY <1>1, <1>3
<1>. QED
    BY <1>2, <1>4 DEF q

\* Multiples of the divisor change no remainder.
LEMMA RemainderShift ==
    ASSUME NEW x \in Int, NEW k \in Int, NEW s \in Nat \ {0}
    PROVE  (x + k * s) % s = x % s
<1>. DEFINE q == x \div s
            r == x % s
<1>1. q \in Int /\ r \in 0..(s - 1) /\ x = q * s + r
    BY Division
<1>. HIDE DEF q, r
<1>2. x + k * s = (q + k) * s + r /\ q + k \in Int
    BY <1>1
<1>3. ((q + k) * s + r) % s = r
    BY <1>1, <1>2, DivisionUnique
<1>. QED
    BY <1>2, <1>3 DEF r

------------------------------------------------------------------------------------
(* The limits.                                                                        *)

SettingTypes == IntegerTypes \cup {BoolType}

LEMMA TypeWidth ==
    ASSUME NEW t \in SettingTypes
    PROVE  /\ t.bits \in 1..MaxBits
           /\ Power[t.bits - 1] \in Nat \ {0}
           /\ Power[t.bits] = 2 * Power[t.bits - 1]
           /\ IsBool(t) => ~t.signed
<1>1. CASE t = BoolType
    <2>1. 1 \in 1..MaxBits /\ 1 - 1 \in 0..MaxBits
        BY DEF MaxBits
    <2>. QED
        BY <1>1, <2>1, PowerOf, PowerPositive DEF BoolType
<1>2. CASE t \in IntegerTypes
    <2>1. PICK size \in 1..8 : t.bits = size * ByteBits
        BY <1>2 DEF IntegerTypes
    <2>2. ByteBits \in 3..8
        BY WidthsAssumption DEF MaxBits
    <2>3. size * ByteBits \in 3..MaxBits
        <3>1. size * ByteBits >= 1 * ByteBits /\ size * ByteBits <= 8 * ByteBits
            BY <2>2
        <3>2. size * ByteBits \in Int
            BY <2>2
        <3>. QED
            BY <2>2, <3>1, <3>2 DEF MaxBits
    <2>4. t.bits - 1 \in 0..MaxBits /\ t.bits \in 1..MaxBits
        BY <2>1, <2>3 DEF MaxBits
    <2>5. t.bits # 1
        BY <2>1, <2>3
    <2>. QED
        BY <2>4, <2>5, PowerOf, PowerPositive DEF IsBool
<1>. QED
    BY <1>1, <1>2 DEF SettingTypes

LEMMA SignOf ==
    ASSUME NEW t \in SettingTypes
    PROVE  t.signed \in BOOLEAN
<1>1. CASE t = BoolType
    BY <1>1 DEF BoolType
<1>2. CASE t \in IntegerTypes
    BY <1>2 DEF IntegerTypes
<1>. QED
    BY <1>1, <1>2 DEF SettingTypes

LEMMA InType ==
    ASSUME NEW t \in SettingTypes, NEW n \in ValuesOf(t)
    PROVE  /\ n \in Int
           /\ t.signed => -Power[t.bits - 1] <= n /\ n < Power[t.bits - 1]
           /\ ~t.signed => 0 <= n /\ n < Power[t.bits]
<1>1. t.signed \in BOOLEAN
    BY SignOf
<1>2. Power[t.bits - 1] \in Nat /\ Power[t.bits] \in Nat
    BY TypeWidth
<1>. QED
    BY <1>1, <1>2 DEF ValuesOf, Lowest, Highest

\* The unsigned image of a number: two's complement.
LEMMA Image ==
    ASSUME NEW t \in SettingTypes, NEW n \in ValuesOf(t)
    PROVE  n % Power[t.bits] = IF n < 0 THEN n + Power[t.bits] ELSE n
<1>. DEFINE P == Power[t.bits]
<1>1. P \in Nat \ {0} /\ P = 2 * Power[t.bits - 1] /\ Power[t.bits - 1] \in Nat
    BY TypeWidth
<1>2. n \in Int /\ -P <= n /\ n < P
    BY <1>1, InType
<1>. HIDE DEF P
<1>3. CASE n < 0
    <2>1. n + P \in 0..(P - 1) /\ (-1) * P + (n + P) = n /\ -1 \in Int
        BY <1>1, <1>2, <1>3
    <2>2. ((-1) * P + (n + P)) % P = n + P
        BY <1>1, <2>1, DivisionUnique
    <2>. QED
        BY <1>3, <2>1, <2>2 DEF P
<1>4. CASE ~(n < 0)
    <2>1. n \in 0..(P - 1) /\ 0 * P + n = n /\ 0 \in Int
        BY <1>1, <1>2, <1>4
    <2>2. (0 * P + n) % P = n
        BY <1>1, <2>1, DivisionUnique
    <2>. QED
        BY <1>4, <2>1, <2>2 DEF P
<1>. QED
    BY <1>3, <1>4

\* Where the subtraction of unsigned images is faithful, the steps are counted right.
LEMMA StepsCounted ==
    ASSUME NEW t \in SettingTypes, NEW n \in ValuesOf(t), NEW origin \in ValuesOf(t), NEW s \in Nat \ {0},
           \/ Power[t.bits] % s = 0
           \/ origin <= n /\ (n < 0) = (origin < 0)
           \/ origin <= n /\ t.bits >= IntWidth
    PROVE  Distance(t, n, origin) % s = (n - origin) % s
<1>. DEFINE P == Power[t.bits]
            raw == (n % P) - (origin % P)
            x == n - origin
<1>1. P \in Nat \ {0} /\ P = 2 * Power[t.bits - 1] /\ Power[t.bits - 1] \in Nat
    BY TypeWidth
<1>2. /\ n \in Int /\ origin \in Int /\ x \in Int
      /\ x < P
    <2>1. t.signed \in BOOLEAN
        BY SignOf
    <2>. QED
        BY <1>1, <2>1, InType
<1>3. PICK a \in {-1, 0, 1} : raw = x + a * P /\ ((n < 0) = (origin < 0) => a = 0)
    <2>1. /\ n % P = IF n < 0 THEN n + P ELSE n
          /\ origin % P = IF origin < 0 THEN origin + P ELSE origin
        BY Image
    <2>. DEFINE carry == (IF n < 0 THEN 1 ELSE 0) - (IF origin < 0 THEN 1 ELSE 0)
    <2>. HIDE DEF P
    <2>2. carry \in {-1, 0, 1} /\ ((n < 0) = (origin < 0) => carry = 0)
        BY <1>2
    <2>3. raw = x + carry * P
        BY <1>1, <1>2, <2>1, 0 * P = 0, 1 * P = P, (-1) * P = -P
    <2>. QED
        BY <2>2, <2>3
<1>4. Distance(t, n, origin) = IF t.bits >= IntWidth THEN raw % P ELSE raw
    <2>1. t.bits \in Int /\ IntWidth \in Int
        BY TypeWidth, IntWidthAssumption
    <2>. QED
        BY <2>1 DEF Distance
<1>. HIDE DEF P, raw, x
<1>10. P \in Nat \ {0} /\ x \in Int
    BY <1>1, <1>2
<1>5. PICK b \in Int : raw % P = x + b * P
    <2>. DEFINE q == raw \div P
    <2>0. raw \in Int
        BY <1>1, <1>2, <1>3
    <2>1. q \in Int /\ raw = q * P + (raw % P) /\ raw % P \in Int
        BY <1>10, <2>0, Division
    <2>. HIDE DEF q
    <2>2. a - q \in Int /\ raw % P = x + (a - q) * P
        <3>1. a \in Int /\ q \in Int /\ raw % P = raw - q * P
            BY <1>1, <2>0, <2>1
        <3>2. (a - q) * P = a * P - q * P
            BY <1>1, <3>1
        <3>. QED
            BY <1>1, <1>2, <1>3, <2>0, <3>1, <3>2
    <2>. QED
        BY <2>2
<1>8. CASE Power[t.bits] % s = 0
    <2>. DEFINE k == P \div s
    <2>1. k \in Int /\ P = k * s
        <3>1. P % s = 0
            BY <1>8 DEF P
        <3>2. P \div s \in Int /\ P = (P \div s) * s + (P % s)
            BY <1>10, Division
        <3>. QED
            BY <1>10, <3>1, <3>2
    <2>. DEFINE ak == a * k
                bk == b * k
    <2>. HIDE DEF k
    <2>2. raw = x + ak * s /\ ak \in Int
        BY <1>2, <1>3, <2>1
    <2>3. raw % P = x + bk * s /\ bk \in Int
        BY <1>2, <1>5, <2>1
    <2>. HIDE DEF ak, bk
    <2>4. raw % s = x % s
        BY <1>10, <2>2, RemainderShift
    <2>5. (raw % P) % s = x % s
        <3>1. (x + bk * s) % s = x % s
            BY <1>10, <2>3, RemainderShift
        <3>. QED
            BY <2>3, <3>1
    <2>. QED
        BY <1>4, <2>4, <2>5 DEF x
<1>9. CASE origin <= n /\ ((n < 0) = (origin < 0) \/ t.bits >= IntWidth)
    <2>1. x \in 0..(P - 1)
        BY <1>1, <1>2, <1>9 DEF x
    <2>2. raw % P = x
        <3>1. (0 * P + x) % P = x /\ 0 * P + x = x
            BY <1>10, <2>1, DivisionUnique
        <3>2. a \in Int
            BY <1>3
        <3>3. (x + a * P) % P = x % P
            BY <1>10, <3>2, RemainderShift
        <3>. QED
            BY <1>3, <3>1, <3>3
    <2>3. (n < 0) = (origin < 0) => raw = x
        BY <1>1, <1>2, <1>3
    <2>. QED
        BY <1>4, <1>9, <2>2, <2>3 DEF x
<1>. QED
    BY <1>8, <1>9

\* The lowest value a definition lets through, from which its steps are counted.
LEMMA OriginOf ==
    ASSUME NEW d \in Definitions
    PROVE  /\ Origin(d) \in ValuesOf(d.type)
           /\ d.min = {} \/ d.min = {Origin(d)}
           /\ d.min = {} => Origin(d) = 0
<1>1. d.type \in SettingTypes /\ d.min \in OptionalOf(ValuesOf(d.type))
    BY DefinitionsAssumption DEF SettingTypes
<1>2. CASE d.min = {}
    <2>1. Origin(d) = 0
        BY <1>2 DEF Origin
    <2>2. 0 \in ValuesOf(d.type)
        <3>1. d.type.signed \in BOOLEAN
            BY <1>1, SignOf
        <3>. DEFINE t == d.type
                    half == Power[t.bits - 1]
                    whole == Power[t.bits]
        <3>2. half \in Nat \ {0} /\ whole = 2 * half
            BY <1>1, TypeWidth
        <3>3. ValuesOf(t) = Lowest(t)..Highest(t)
            BY DEF ValuesOf
        <3>4. /\ t.signed => Lowest(t) = -half /\ Highest(t) = half - 1
              /\ ~t.signed => Lowest(t) = 0 /\ Highest(t) = whole - 1
            BY DEF Lowest, Highest
        <3>5. t.signed \in BOOLEAN
            BY <3>1
        <3>. HIDE DEF t, half, whole
        <3>6. 0 \in Lowest(t)..Highest(t)
            BY <3>2, <3>4, <3>5
        <3>. QED
            BY <3>3, <3>6 DEF t
    <2>. QED
        BY <1>2, <2>1, <2>2
<1>3. CASE d.min # {}
    <2>1. PICK m \in ValuesOf(d.type) : d.min = {m}
        BY <1>1, <1>3 DEF OptionalOf
    <2>2. Origin(d) = m
        BY <2>1 DEF Origin
    <2>. QED
        BY <2>1, <2>2
<1>. QED
    BY <1>2, <1>3

LEMMA CandidateIn ==
    ASSUME NEW c \in Candidates
    PROVE  /\ c = [type |-> c.type, num |-> c.num]
           /\ c.type \in SettingTypes
           /\ c.num \in ValuesOf(c.type)
           /\ \E i \in DOMAIN Types : Types[i] = c.type
<1>1. PICK i \in DOMAIN Types : \E n \in ValuesOf(Types[i]) : c = [type |-> Types[i], num |-> n]
    BY CandidatesAssumption
<1>2. PICK n \in ValuesOf(Types[i]) : c = [type |-> Types[i], num |-> n]
    BY <1>1
<1>3. c.type = Types[i] /\ c.num = n
    BY <1>2
<1>4. Types[i] \in SettingTypes
    BY TypesAssumption DEF SettingTypes
<1>. QED
    BY <1>2, <1>3, <1>4

\* The answer of validateLocal() is what the limits mean.
LEMMA ValidateExact ==
    ASSUME NEW d \in Definitions, ValidDefinition(d), NEW c \in Candidates, Faithful(d, c)
    PROVE  Validate(d, c) = "Ok" <=> Legal(d, c)
<1>. DEFINE origin == Origin(d)
<1>1. CASE c.type # d.type
    BY <1>1 DEF Validate, Legal
<1>2. CASE \E m \in d.min : c.num < m
    <2>1. d.min \in OptionalOf(ValuesOf(d.type)) /\ d.type \in SettingTypes
        BY DefinitionsAssumption DEF SettingTypes
    <2>2. \A m \in d.min : m \in Int
        BY <2>1, InType DEF OptionalOf
    <2>3. c.num \in Int
        BY CandidateIn, InType
    <2>4. Validate(d, c) # "Ok"
        BY <1>2 DEF Validate
    <2>5. ~Legal(d, c)
        BY <1>2, <2>2, <2>3 DEF Legal
    <2>. QED
        BY <2>4, <2>5
<1>3. CASE c.type = d.type /\ ~\E m \in d.min : c.num < m
    <2>1. c.num \in ValuesOf(d.type) /\ d.type \in SettingTypes /\ origin \in ValuesOf(d.type)
        BY <1>3, CandidateIn, OriginOf
    <2>2. c.num \in Int /\ origin \in Int
        BY <2>1, InType
    <2>3. \A m \in d.min : m = origin
        BY OriginOf
    <2>4. \A m \in d.min : m <= c.num
        BY <1>3, <2>2, <2>3
    <2>5. (\E m \in d.max : c.num > m) <=> ~(\A m \in d.max : c.num <= m)
        <3>1. d.max \in OptionalOf(ValuesOf(d.type))
            BY DefinitionsAssumption
        <3>2. \A m \in d.max : m \in Int
            BY <2>1, <3>1, InType DEF OptionalOf
        <3>. QED
            BY <2>2, <3>2
    <2>6. OffStep(d, c.num) <=> ~(\A s \in d.step : (c.num - origin) % s = 0)
        <3>. SUFFICES ASSUME NEW s \in d.step
                      PROVE  (IsBool(d.type) \/ Distance(d.type, c.num, origin) % s # 0)
                                <=> (c.num - origin) % s # 0
            BY DEF OffStep
        <3>1. ~IsBool(d.type)
            BY DEF ValidDefinition
        <3>2. s \in Nat \ {0}
            <4>1. d.step \in OptionalOf(ValuesOf(d.type))
                BY DefinitionsAssumption
            <4>2. s \in Int
                BY <2>1, <4>1, InType DEF OptionalOf
            <4>3. s > 0
                BY DEF ValidDefinition
            <4>. QED
                BY <4>2, <4>3
        <3>3. \/ Power[d.type.bits] % s = 0
              \/ origin <= c.num /\ (c.num < 0) = (origin < 0)
              \/ origin <= c.num /\ d.type.bits >= IntWidth
            <4>1. CASE \A z \in d.step : Power[d.type.bits] % z = 0
                BY <4>1
            <4>2. CASE (c.num < 0) = (origin < 0)
                <5>1. d.min = {} => origin = 0
                    BY OriginOf
                <5>2. d.min # {} => origin <= c.num
                    BY <2>3, <2>4
                <5>3. origin <= c.num
                    BY <2>2, <4>2, <5>1, <5>2
                <5>. QED
                    BY <4>2, <5>3
            <4>3. CASE d.type.bits >= IntWidth /\ c.num >= origin
                BY <2>2, <4>3
            <4>. QED
                BY <4>1, <4>2, <4>3 DEF Faithful
        <3>4. Distance(d.type, c.num, origin) % s = (c.num - origin) % s
            BY <2>1, <3>2, <3>3, StepsCounted
        <3>. QED
            BY <3>1, <3>4
    <2>. QED
        BY <1>3, <2>4, <2>5, <2>6 DEF Validate, Legal
<1>. QED
    BY <1>1, <1>2, <1>3

------------------------------------------------------------------------------------
(* Bytes.                                                                             *)

LEMMA Widths ==
    /\ ByteBits \in 3..8 /\ ByteBits \in 0..MaxBits
    /\ Power[ByteBits] \in Nat \ {0}
    /\ Byte \subseteq Nat
    /\ \A i \in 0..8 : i * ByteBits \in 0..MaxBits /\ Power[i * ByteBits] \in Nat \ {0}
    /\ \A i \in 0..7 : Power[(i + 1) * ByteBits] = Power[i * ByteBits] * Power[ByteBits]
<1>1. ByteBits \in 3..8
    BY WidthsAssumption DEF MaxBits
<1>2. ByteBits \in 0..MaxBits
    BY <1>1 DEF MaxBits
<1>3. Power[ByteBits] \in Nat \ {0}
    BY <1>2, PowerPositive
<1>4. Byte \subseteq Nat
    BY <1>3 DEF Byte
<1>5. ASSUME NEW i \in 0..8
      PROVE  i * ByteBits \in 0..MaxBits
    <2>1. i * ByteBits <= 8 * ByteBits /\ 0 <= i * ByteBits /\ i * ByteBits \in Int
        BY <1>1
    <2>. QED
        BY <1>1, <2>1 DEF MaxBits
<1>6. ASSUME NEW i \in 0..7
      PROVE  Power[(i + 1) * ByteBits] = Power[i * ByteBits] * Power[ByteBits]
    <2>1. (i + 1) * ByteBits = i * ByteBits + ByteBits /\ i + 1 \in 0..8 /\ i \in 0..8
        BY <1>1
    <2>2. (i + 1) * ByteBits \in 0..MaxBits /\ i * ByteBits \in 0..MaxBits
        BY <1>5, <2>1
    <2>. DEFINE m == i * ByteBits
    <2>3. m \in Nat /\ ByteBits \in Nat /\ m + ByteBits <= MaxBits
        BY <1>1, <2>1, <2>2
    <2>. HIDE DEF m
    <2>4. Power[m + ByteBits] = Power[m] * Power[ByteBits]
        BY <2>3, PowerSum
    <2>. QED
        BY <2>1, <2>4 DEF m
<1>. QED
    BY <1>1, <1>2, <1>3, <1>4, <1>5, <1>6, PowerPositive

\* Unsigned reads what solves its recursion.
LEMMA UnsignedOf ==
    ASSUME NEW bytes, Len(bytes) \in Nat, NEW g,
           g = [i \in 1..(Len(bytes) + 1) |->
                   IF i > Len(bytes) THEN 0 ELSE bytes[i] + g[i + 1] * Power[ByteBits]]
    PROVE  Unsigned(bytes) = g[1]
<1>. DEFINE k == Len(bytes)
            F(f) == [i \in 1..(k + 1) |-> IF i > k THEN 0 ELSE bytes[i] + f[i + 1] * Power[ByteBits]]
            from == CHOOSE f : f = F(f)
            S == {j \in 0..k : from[k + 1 - j] # g[k + 1 - j]}
<1>1. from = F(from)
    <2>1. g = F(g)
        OBVIOUS
    <2>. QED
        BY <2>1
<1>2. Unsigned(bytes) = from[1]
    BY DEF Unsigned
<1>. HIDE DEF from
<1>3. /\ \A i \in 1..(k + 1) : from[i] = IF i > k THEN 0 ELSE bytes[i] + from[i + 1] * Power[ByteBits]
      /\ \A i \in 1..(k + 1) : g[i] = IF i > k THEN 0 ELSE bytes[i] + g[i + 1] * Power[ByteBits]
    BY <1>1
<1>4. S = {}
    <2>1. SUFFICES ASSUME S # {}
                   PROVE  FALSE
        OBVIOUS
    <2>2. PICK j \in S : \A i \in S : j <= i
        <3>1. S \subseteq Nat
            OBVIOUS
        <3>. QED
            BY <2>1, <3>1, LeastNumber
    <2>3. j \in 0..k /\ from[k + 1 - j] # g[k + 1 - j] /\ k + 1 - j \in 1..(k + 1)
        OBVIOUS
    <2>4. j # 0
        BY <1>3, <2>3
    <2>5. j - 1 \in 0..k /\ ~(j <= j - 1) /\ k + 1 - (j - 1) = (k + 1 - j) + 1 /\ ~(k + 1 - j > k)
        BY <2>3, <2>4
    <2>6. from[(k + 1 - j) + 1] = g[(k + 1 - j) + 1]
        <3>1. j - 1 \notin S
            <4>. HIDE DEF S
            <4>. QED
                BY <2>2, <2>5
        <3>. QED
            BY <2>5, <3>1
    <2>. QED
        BY <1>3, <2>3, <2>5, <2>6
<1>5. k \in 0..k /\ k + 1 - k = 1
    OBVIOUS
<1>. QED
    BY <1>2, <1>4, <1>5

\* What was written as bytes reads back, if it fits in them.
LEMMA BytesReadBack ==
    ASSUME NEW k \in 0..8, NEW n \in 0..(Power[k * ByteBits] - 1)
    PROVE  /\ LittleEndian(n, k) \in Seq(Byte)
           /\ Len(LittleEndian(n, k)) = k
           /\ Unsigned(LittleEndian(n, k)) = n
<1>. DEFINE bytes == LittleEndian(n, k)
            B == Power[ByteBits]
            g == [i \in 1..(k + 1) |-> n \div Power[(i - 1) * ByteBits]]
<1>1. /\ B \in Nat \ {0}
      /\ \A i \in 0..8 : Power[i * ByteBits] \in Nat \ {0}
      /\ n \in Nat
    BY Widths
<1>8. B \in Nat \ {0}
    BY <1>1
<1>9. n \in Int
    BY <1>1
<1>10. n \in Nat
    BY <1>1
<1>2. /\ bytes \in Seq(Byte)
      /\ Len(bytes) = k
      /\ \A i \in 1..k : bytes[i] = (n \div Power[(i - 1) * ByteBits]) % B
    <2>1. ASSUME NEW i \in 1..k
          PROVE  (n \div Power[(i - 1) * ByteBits]) % B \in Byte
        <3>. DEFINE p == Power[(i - 1) * ByteBits]
        <3>1. p \in Nat \ {0}
            <4>1. i - 1 \in 0..8
                OBVIOUS
            <4>. QED
                BY <1>1, <4>1
        <3>. HIDE DEF p
        <3>2. n \div p \in Int
            BY <1>9, <3>1, Division
        <3>3. (n \div p) % B \in 0..(B - 1)
            BY <1>1, <3>2, Division
        <3>. QED
            BY <3>3 DEF p, Byte
    <2>2. bytes \in [1..k -> Byte]
        BY <2>1 DEF LittleEndian
    <2>3. bytes \in Seq(Byte) /\ Len(bytes) = k
        BY <2>2
    <2>. QED
        BY <2>3 DEF LittleEndian
<1>3. g[1] = n
    <2>1. 1 \in 1..(k + 1) /\ (1 - 1) * ByteBits = 0
        BY Widths
    <2>2. n \div 1 = n
        BY <1>1
    <2>. QED
        BY <2>1, <2>2, PowerOf
<1>4. g[k + 1] = 0
    <2>. DEFINE p == Power[k * ByteBits]
    <2>1. p \in Nat \ {0} /\ n \in 0..(p - 1) /\ 0 * p + n = n
        BY <1>1
    <2>. HIDE DEF p
    <2>2. (0 * p + n) \div p = 0
        BY <2>1, DivisionUnique
    <2>3. k + 1 \in 1..(k + 1) /\ (k + 1) - 1 = k
        OBVIOUS
    <2>. QED
        BY <2>1, <2>2, <2>3 DEF p
<1>5. ASSUME NEW i \in 1..k
      PROVE  g[i] = bytes[i] + g[i + 1] * B
    <2>. DEFINE p == Power[(i - 1) * ByteBits]
                q == n \div p
    <2>1. p \in Nat \ {0} /\ q \in Int
        <3>1. i - 1 \in 0..8
            OBVIOUS
        <3>2. p \in Nat \ {0}
            BY <1>1, <3>1
        <3>. HIDE DEF p
        <3>. QED
            BY <1>9, <3>2, Division
    <2>2. Power[i * ByteBits] = p * B
        <3>1. i - 1 \in 0..7 /\ (i - 1) + 1 = i
            OBVIOUS
        <3>. QED
            BY <3>1, Widths
    <2>3. g[i] = q /\ g[i + 1] = n \div (p * B) /\ bytes[i] = q % B
        <3>1. i \in 1..(k + 1) /\ i + 1 \in 1..(k + 1) /\ (i + 1) - 1 = i
            OBVIOUS
        <3>. QED
            BY <1>2, <2>2, <3>1
    <2>. HIDE DEF p, g, bytes, B
    <2>4. n \div p = ((n \div p) % B) + (n \div (p * B)) * B
        BY <1>8, <1>10, <2>1, NextDigit
    <2>. QED
        BY <2>3, <2>4 DEF q
<1>6. g = [i \in 1..(Len(bytes) + 1) |-> IF i > Len(bytes) THEN 0 ELSE bytes[i] + g[i + 1] * B]
    <2>1. \A i \in 1..(k + 1) : i > k => i = k + 1
        OBVIOUS
    <2>2. \A i \in 1..(k + 1) : ~(i > k) => i \in 1..k
        OBVIOUS
    <2>3. \A i \in 1..(k + 1) : g[i] = IF i > k THEN 0 ELSE bytes[i] + g[i + 1] * B
        <3>. HIDE DEF g, bytes, B
        <3>. QED
            BY <1>4, <1>5, <2>1, <2>2
    <2>4. g = [i \in 1..(k + 1) |-> g[i]]
        OBVIOUS
    <2>. HIDE DEF g, bytes, B
    <2>. QED
        BY <1>2, <2>3, <2>4
<1>7. Unsigned(bytes) = g[1]
    <2>1. Len(bytes) \in Nat
        BY <1>2
    <2>. HIDE DEF g, bytes
    <2>. QED
        BY <1>6, <2>1, UnsignedOf
<1>. QED
    BY <1>2, <1>3, <1>7

\* The recursion of the checksum has a solution, however long the bytes.
LEMMA SumExists ==
    ASSUME NEW bytes, NEW n \in Nat
    PROVE  \E f : f = [i \in 0..n |-> IF i = 0 THEN 0
                                      ELSE (3 * f[i - 1] + bytes[i] + 1) % Power[2 * ByteBits]]
<1>. DEFINE F(f, m) == [i \in 0..m |-> IF i = 0 THEN 0
                                       ELSE (3 * f[i - 1] + bytes[i] + 1) % Power[2 * ByteBits]]
            S == {m \in Nat : ~\E f : f = F(f, m)}
<1>1. SUFFICES ASSUME S # {}
               PROVE  FALSE
    OBVIOUS
<1>2. PICK m \in S : \A i \in S : m <= i
    BY <1>1, LeastNumber
<1>3. m # 0
    <2>1. [i \in 0..0 |-> 0] = F([i \in 0..0 |-> 0], 0)
        OBVIOUS
    <2>. QED
        BY <2>1
<1>4. m - 1 \in Nat /\ m - 1 \notin S
    <2>1. m \in Nat
        OBVIOUS
    <2>. HIDE DEF S
    <2>. QED
        BY <1>2, <1>3, <2>1
<1>5. PICK f : f = F(f, m - 1)
    BY <1>4
<1>. DEFINE next == [i \in 0..m |-> IF i = 0 THEN 0
                                    ELSE (3 * f[i - 1] + bytes[i] + 1) % Power[2 * ByteBits]]
<1>6. \A i \in 0..(m - 1) : next[i] = f[i]
    <2>. SUFFICES ASSUME NEW i \in 0..(m - 1)
                  PROVE  next[i] = f[i]
        OBVIOUS
    <2>1. f[i] = IF i = 0 THEN 0 ELSE (3 * f[i - 1] + bytes[i] + 1) % Power[2 * ByteBits]
        BY <1>5
    <2>2. i \in 0..m
        OBVIOUS
    <2>. QED
        BY <2>1, <2>2
<1>7. next = F(next, m)
    <2>1. \A i \in 0..m : i # 0 => i - 1 \in 0..(m - 1)
        OBVIOUS
    <2>2. \A i \in 0..m : i # 0 => next[i - 1] = f[i - 1]
        <3>. HIDE DEF next
        <3>. QED
            BY <1>6, <2>1
    <2>. QED
        BY <2>2
<1>. QED
    BY <1>7

\* The checksum has its two bytes.
LEMMA ChecksumFits ==
    ASSUME NEW bytes \in Seq(Byte)
    PROVE  Crc16(bytes) \in 0..(Power[2 * ByteBits] - 1)
<1>. DEFINE n == Len(bytes)
            P == Power[2 * ByteBits]
            F(f) == [i \in 0..n |-> IF i = 0 THEN 0 ELSE (3 * f[i - 1] + bytes[i] + 1) % P]
            sum == CHOOSE f : f = F(f)
            S == {i \in 0..n : sum[i] \notin 0..(P - 1)}
<1>1. n \in Nat /\ P \in Nat \ {0} /\ \A i \in 1..n : bytes[i] \in Int
    <2>1. n \in Nat
        OBVIOUS
    <2>2. P \in Nat \ {0}
        <3>1. 2 \in 0..8
            OBVIOUS
        <3>. QED
            BY <3>1, Widths
    <2>3. \A i \in 1..n : bytes[i] \in Byte
        OBVIOUS
    <2>4. Byte \subseteq Int
        BY Widths
    <2>. QED
        BY <2>1, <2>2, <2>3, <2>4
<1>2. sum = F(sum)
    <2>1. \E f : f = F(f)
        BY <1>1, SumExists
    <2>. QED
        BY <2>1
<1>3. Crc16(bytes) = sum[n]
    BY DEF Crc16
<1>. HIDE DEF sum, P
<1>4. \A i \in 0..n : sum[i] = IF i = 0 THEN 0 ELSE (3 * sum[i - 1] + bytes[i] + 1) % P
    BY <1>2
<1>5. S = {}
    <2>1. SUFFICES ASSUME S # {}
                   PROVE  FALSE
        OBVIOUS
    <2>2. PICK i \in S : \A j \in S : i <= j
        <3>1. S \subseteq Nat
            OBVIOUS
        <3>. QED
            BY <2>1, <3>1, LeastNumber
    <2>3. i \in 0..n /\ sum[i] \notin 0..(P - 1)
        OBVIOUS
    <2>4. i # 0
        BY <1>1, <1>4, <2>3
    <2>5. i - 1 \in 0..n /\ ~(i <= i - 1) /\ i \in 1..n
        BY <1>1, <2>3, <2>4
    <2>6. sum[i - 1] \in 0..(P - 1)
        BY <2>2, <2>5
    <2>. DEFINE a == 3 * sum[i - 1] + bytes[i] + 1
    <2>7. a \in Int
        BY <1>1, <2>5, <2>6
    <2>. HIDE DEF a
    <2>8. a % P \in 0..(P - 1)
        BY <1>1, <2>7, Division
    <2>. QED
        BY <1>4, <2>3, <2>4, <2>8 DEF a
<1>. QED
    BY <1>1, <1>3, <1>5 DEF P

------------------------------------------------------------------------------------
(* The fields of a record.                                                            *)

\* A payload has the bytes its type needs.
LEMMA PayloadFits ==
    ASSUME NEW t \in SettingTypes
    PROVE  /\ PayloadSize(t) \in 1..8
           /\ Power[t.bits] <= Power[PayloadSize(t) * ByteBits]
<1>1. ByteBits \in 3..8 /\ ByteBits \in Nat \ {0}
    BY Widths
<1>2. CASE t = BoolType
    <2>1. PayloadSize(t) = 1
        BY <1>1, <1>2 DEF PayloadSize, BoolType
    <2>2. Power[t.bits] = 2
        <3>1. 1 \in 1..MaxBits /\ 1 - 1 = 0
            BY DEF MaxBits
        <3>. QED
            BY <1>2, <3>1, PowerOf DEF BoolType
    <2>3. Power[ByteBits] >= 2
        <3>1. ByteBits \in 1..MaxBits /\ ByteBits - 1 \in 0..MaxBits
            BY <1>1 DEF MaxBits
        <3>2. Power[ByteBits] = 2 * Power[ByteBits - 1] /\ Power[ByteBits - 1] \in Nat \ {0}
            BY <3>1, PowerOf, PowerPositive
        <3>. QED
            BY <3>2
    <2>4. 1 * ByteBits = ByteBits
        BY <1>1
    <2>. QED
        BY <2>1, <2>2, <2>3, <2>4
<1>3. CASE t \in IntegerTypes
    <2>1. PICK size \in 1..8 : t.bits = size * ByteBits
        BY <1>3 DEF IntegerTypes
    <2>2. ~(t.bits < ByteBits)
        BY <1>1, <2>1
    <2>3. size \in Int /\ 0 \in 0..(ByteBits - 1)
        BY <1>1
    <2>4. (size * ByteBits + 0) \div ByteBits = size
        BY <1>1, <2>3, DivisionUnique
    <2>5. size * ByteBits + 0 = size * ByteBits
        BY <1>1
    <2>6. PayloadSize(t) = size
        BY <2>1, <2>2, <2>4, <2>5 DEF PayloadSize
    <2>7. Power[t.bits] \in Int
        BY TypeWidth
    <2>. QED
        BY <2>1, <2>6, <2>7
<1>. QED
    BY <1>2, <1>3 DEF SettingTypes

\* Two's complement there and back.
LEMMA CastBack ==
    ASSUME NEW t \in SettingTypes, NEW n \in ValuesOf(t)
    PROVE  /\ AsUnsigned(t, n) \in 0..(Power[t.bits] - 1)
           /\ AsSigned(t, AsUnsigned(t, n)) = n
<1>1. AsUnsigned(t, n) = IF n < 0 THEN n + Power[t.bits] ELSE n
    BY Image DEF AsUnsigned
<1>2. /\ Power[t.bits - 1] \in Nat \ {0}
      /\ Power[t.bits] = 2 * Power[t.bits - 1]
      /\ t.signed \in BOOLEAN
    BY TypeWidth, SignOf
<1>. QED
    BY <1>1, <1>2, InType DEF AsSigned

\* The number of a type, and the byte it shares with the version.
LEMMA PrefixBack ==
    ASSUME NEW i \in DOMAIN Types
    PROVE  LET t == Types[i]
               prefix == TypeNumber(t) + RecordVersion * Power[TypeBits]
           IN  /\ prefix \in Byte
               /\ prefix \div Power[TypeBits] = RecordVersion
               /\ prefix % Power[TypeBits] < Len(Types)
               /\ Types[(prefix % Power[TypeBits]) + 1] = t
<1>. DEFINE t == Types[i]
            number == TypeNumber(t)
            low == Power[TypeBits]
            high == Power[ByteBits - TypeBits]
            prefix == number + RecordVersion * low
<1>1. number \in 0..(Len(Types) - 1) /\ Types[number + 1] = t
    <2>1. i - 1 \in 0..(Len(Types) - 1) /\ Types[(i - 1) + 1] = t
        BY TypesAssumption
    <2>. QED
        BY <2>1 DEF TypeNumber
<1>2. Len(Types) \in Nat /\ Len(Types) <= low
    BY TypesAssumption
<1>3. /\ TypeBits \in Nat /\ ByteBits - TypeBits \in Nat
      /\ TypeBits + (ByteBits - TypeBits) = ByteBits
      /\ ByteBits <= MaxBits
      /\ TypeBits \in 0..MaxBits /\ ByteBits - TypeBits \in 0..MaxBits
    BY WidthsAssumption DEF MaxBits
<1>4. low \in Nat \ {0} /\ high \in Nat \ {0}
    BY <1>3, PowerPositive
<1>5. Power[ByteBits] = low * high
    <2>1. Power[TypeBits + (ByteBits - TypeBits)] = low * high
        BY <1>3, PowerSum
    <2>. QED
        BY <1>3, <2>1
<1>6. RecordVersion \in 0..(high - 1)
    BY PrefixAssumption
<1>. HIDE DEF t, number, low, high
<1>7. number \in 0..(low - 1)
    BY <1>1, <1>2, <1>4
<1>8. RecordVersion \in Int /\ low \in Nat \ {0}
    BY <1>4, <1>6
<1>9. (RecordVersion * low + number) \div low = RecordVersion /\ (RecordVersion * low + number) % low = number
    BY <1>7, <1>8, DivisionUnique
<1>10. prefix = RecordVersion * low + number
    BY <1>7, <1>8
<1>11. prefix \in 0..(low * high - 1)
    <2>1. RecordVersion * low <= (high - 1) * low /\ 0 <= RecordVersion * low
        BY <1>4, <1>6
    <2>2. (high - 1) * low = low * high - low
        BY <1>4
    <2>3. RecordVersion * low \in Int /\ low * high \in Int
        BY <1>4, <1>6
    <2>. QED
        BY <1>4, <1>7, <1>10, <2>1, <2>2, <2>3
<1>12. prefix \in Byte
    BY <1>5, <1>11 DEF Byte
<1>13. prefix \div low = RecordVersion /\ prefix % low = number
    BY <1>9, <1>10
<1>14. number < Len(Types)
    BY <1>1, <1>2
<1>. QED
    BY <1>1, <1>12, <1>13, <1>14 DEF t, number, low

\* One sequence behind the other.
LEMMA Join ==
    ASSUME NEW a \in Seq(Byte), NEW b \in Seq(Byte)
    PROVE  /\ a \o b \in Seq(Byte)
           /\ Len(a \o b) = Len(a) + Len(b)
           /\ \A i \in 1..Len(a) : (a \o b)[i] = a[i]
           /\ \A i \in 1..Len(b) : (a \o b)[Len(a) + i] = b[i]
OBVIOUS

\* What stands behind the first m elements.
LEMMA Piece ==
    ASSUME NEW s \in Seq(Byte), NEW b \in Seq(Byte), NEW m \in Nat,
           m + Len(b) <= Len(s),
           \A i \in 1..Len(b) : s[m + i] = b[i]
    PROVE  SubSeq(s, m + 1, m + Len(b)) = b
<1>. DEFINE n == Len(b)
<1>1. n \in Nat /\ b = [i \in 1..n |-> b[i]]
    OBVIOUS
<1>2. SubSeq(s, m + 1, m + n) = [i \in 1..n |-> s[i + (m + 1) - 1]]
    <2>. DEFINE a == m + 1
                z == m + n
    <2>1. z - a + 1 = n /\ a \in Nat /\ z \in Nat
        BY <1>1
    <2>. HIDE DEF n, a, z
    <2>2. SubSeq(s, a, z) = [i \in 1..(z - a + 1) |-> s[i + a - 1]]
        BY <2>1
    <2>3. SubSeq(s, a, z) = [i \in 1..n |-> s[i + a - 1]]
        BY <2>1, <2>2
    <2>. QED
        BY <2>3, Zenon DEF a, z
<1>3. \A i \in 1..n : i + (m + 1) - 1 = m + i
    BY <1>1
<1>4. \A i \in 1..n : s[i + (m + 1) - 1] = b[i]
    BY <1>3
<1>. HIDE DEF n
<1>5. [i \in 1..n |-> s[i + (m + 1) - 1]] = [i \in 1..n |-> b[i]]
    BY <1>4
<1>. QED
    BY <1>1, <1>2, <1>5 DEF n

\* The key and its three bytes.
LEMMA KeyBack ==
    ASSUME NEW key \in SettingKeys, Packable(key)
    PROVE  /\ PackKey(key) \in Seq(Byte)
           /\ Len(PackKey(key)) = 3
           /\ UnpackKey(PackKey(key)) = key
           /\ key.scope <= LastScope
<1>. DEFINE id == LittleEndian(key.id, 2)
            unit == Power[InstanceBits]
            third == key.instance + key.scope * unit
            packed == PackKey(key)
<1>1. key \in [id : 0..(Power[2 * ByteBits] - 1), scope : 0..LastScope, instance : Byte]
    BY KeysAssumption
<1>2. id \in Seq(Byte) /\ Len(id) = 2 /\ Unsigned(id) = key.id
    <2>1. 2 \in 0..8 /\ key.id \in 0..(Power[2 * ByteBits] - 1)
        BY <1>1
    <2>. QED
        BY <2>1, BytesReadBack
<1>3. unit \in Nat \ {0} /\ Power[ByteBits] = 4 * unit
    <2>1. /\ ByteBits - 2 \in 0..MaxBits /\ ByteBits - 1 \in 1..MaxBits /\ ByteBits \in 1..MaxBits
          /\ (ByteBits - 1) - 1 = ByteBits - 2
        BY Widths DEF MaxBits
    <2>2. Power[ByteBits] = 2 * Power[ByteBits - 1] /\ Power[ByteBits - 1] = 2 * Power[ByteBits - 2]
        BY <2>1, PowerOf
    <2>3. Power[ByteBits - 2] \in Nat \ {0}
        BY <2>1, PowerPositive
    <2>. QED
        BY <2>2, <2>3 DEF InstanceBits
<1>4. key.scope \in 0..3 /\ key.scope <= LastScope
    BY <1>1, ScopesAssumption DEF LastScope
<1>5. key.instance \in 0..(unit - 1)
    <2>1. key.instance \in Nat
        BY <1>1, Widths
    <2>. QED
        BY <1>3, <2>1 DEF Packable
<1>. HIDE DEF unit, id
<1>6. third \in Byte /\ third \div unit = key.scope /\ third % unit = key.instance
    <2>1. third \in 0..(4 * unit - 1)
        BY <1>3, <1>4, <1>5
    <2>2. key.scope \in Int
        BY <1>4
    <2>3. unit \in Nat \ {0}
        BY <1>3
    <2>4. (key.scope * unit + key.instance) \div unit = key.scope
          /\ (key.scope * unit + key.instance) % unit = key.instance
        BY <1>5, <2>2, <2>3, DivisionUnique
    <2>5. third = key.scope * unit + key.instance
        BY <1>3, <1>4, <1>5
    <2>. QED
        BY <1>3, <2>1, <2>4, <2>5 DEF Byte
<1>7. packed = id \o <<third>>
    BY DEF PackKey, id, unit
<1>. HIDE DEF third, packed
<1>8. packed \in Seq(Byte) /\ Len(packed) = 3 /\ packed[3] = third
    <2>. DEFINE last == <<third>>
    <2>1. last \in Seq(Byte) /\ Len(last) = 1 /\ last[1] = third
        BY <1>6
    <2>. HIDE DEF last
    <2>2. packed = id \o last
        BY <1>7 DEF last
    <2>3. packed \in Seq(Byte) /\ Len(packed) = 3
        <3>1. id \in Seq(Byte) /\ Len(id) = 2
            BY <1>2
        <3>2. last \in Seq(Byte)
            BY <2>1
        <3>3. id \o last \in Seq(Byte) /\ Len(id \o last) = Len(id) + Len(last)
            BY ONLY <3>1, <3>2, Join
        <3>. QED
            BY <2>1, <2>2, <3>1, <3>3
    <2>4. packed[3] = last[1]
        <3>1. 1 \in 1..Len(last) /\ Len(id) + 1 = 3
            BY <1>2, <2>1
        <3>2. (id \o last)[Len(id) + 1] = last[1]
            BY <1>2, <2>1, <3>1, Join
        <3>. QED
            BY <2>2, <3>1, <3>2
    <2>. QED
        BY <2>1, <2>3, <2>4
<1>9. SubSeq(packed, 1, 2) = id
    BY <1>2, <1>6, <1>7
<1>10. UnpackKey(packed) = [id |-> key.id, scope |-> key.scope, instance |-> key.instance]
    BY <1>2, <1>6, <1>8, <1>9 DEF UnpackKey, unit
<1>11. UnpackKey(packed) = key
    BY <1>1, <1>10
<1>. QED
    BY <1>4, <1>8, <1>11 DEF packed

\* The size of a record, filled up to the alignment.
LEMMA StoredWhole ==
    ASSUME NEW t \in SettingTypes, NEW alignment \in Nat \ {0}
    PROVE  StoredSize(t, alignment) - EncodedSize(t) \in Nat
<1>. DEFINE size == EncodedSize(t)
            rest == size % alignment
<1>1. size \in Nat
    BY PayloadFits DEF EncodedSize, HeaderSize, CrcSize
<1>. HIDE DEF size
<1>2. rest \in 0..(alignment - 1)
    BY <1>1, Division
<1>. HIDE DEF rest
<1>3. StoredSize(t, alignment) = IF rest = 0 THEN size ELSE size + alignment - rest
    BY DEF StoredSize, rest, size
<1>. QED
    BY <1>1, <1>2, <1>3 DEF size

\* A record that encode() made is decoded to the key and the value it was made from.
LEMMA DecodeEncode ==
    ASSUME NEW key \in SettingKeys, NEW value \in Candidates, NEW medium \in Media, NEW e,
           e = Encode(key, value, medium.alignment, medium.erased, medium.room),
           e.result = "Ok"
    PROVE  /\ e.record \in Seq(Byte)
           /\ Decode(e.record) = [result |-> "Ok", key |-> key, value |-> value]
<1>. DEFINE t == value.type
            size == PayloadSize(t)
            prefix == TypeNumber(t) + RecordVersion * Power[TypeBits]
            first == <<RecordMagic, prefix>>
            packed == PackKey(key)
            payload == LittleEndian(AsUnsigned(t, value.num), size)
            body == first \o packed \o payload
            crc == LittleEndian(Crc16(body), CrcSize)
            whole == body \o crc
            fill == [i \in 1..(StoredSize(t, medium.alignment) - Len(whole)) |-> medium.erased]
            bytes == whole \o fill
<1>1. /\ medium.alignment # 0
      /\ Packable(key)
      /\ e.record = bytes
    BY DEF Encode, Answer
<1>2. PICK number \in DOMAIN Types : Types[number] = t
    BY CandidateIn
<1>3. t \in SettingTypes /\ value.num \in ValuesOf(t) /\ value = [type |-> t, num |-> value.num]
    BY CandidateIn
<1>4. medium.alignment \in Nat \ {0} /\ medium.erased \in Byte
    BY <1>1, MediaAssumption
<1>5. /\ prefix \in Byte
      /\ prefix \div Power[TypeBits] = RecordVersion
      /\ prefix % Power[TypeBits] < Len(Types)
      /\ Types[(prefix % Power[TypeBits]) + 1] = t
    BY <1>2, PrefixBack
<1>6. first \in Seq(Byte) /\ Len(first) = 2 /\ first[1] = RecordMagic /\ first[2] = prefix
    BY <1>5, PrefixAssumption
<1>7. packed \in Seq(Byte) /\ Len(packed) = 3 /\ UnpackKey(packed) = key /\ key.scope <= LastScope
    BY <1>1, KeyBack
<1>8. size \in 1..8 /\ Power[t.bits] <= Power[size * ByteBits]
    BY <1>3, PayloadFits
<1>9. AsUnsigned(t, value.num) \in 0..(Power[size * ByteBits] - 1)
    <2>1. AsUnsigned(t, value.num) \in 0..(Power[t.bits] - 1)
        BY <1>3, CastBack
    <2>2. Power[t.bits] \in Nat /\ Power[size * ByteBits] \in Nat
        <3>1. size \in 0..8
            BY <1>8
        <3>. QED
            BY <1>3, <3>1, TypeWidth, Widths
    <2>. QED
        BY <1>8, <2>1, <2>2
<1>10. payload \in Seq(Byte) /\ Len(payload) = size /\ Unsigned(payload) = AsUnsigned(t, value.num)
    <2>1. size \in 0..8
        BY <1>8
    <2>. HIDE DEF size
    <2>. QED
        BY <1>9, <2>1, BytesReadBack
<1>. HIDE DEF prefix, first, packed, payload, size, t
<1>. DEFINE header == first \o packed
<1>11. /\ header \in Seq(Byte) /\ Len(header) = 5
       /\ header[1] = RecordMagic /\ header[2] = prefix
       /\ \A j \in 1..3 : header[2 + j] = packed[j]
    <2>1. 1 \in 1..2 /\ 2 \in 1..2
        OBVIOUS
    <2>2. /\ first \o packed \in Seq(Byte)
          /\ Len(first \o packed) = Len(first) + Len(packed)
          /\ \A j \in 1..Len(first) : (first \o packed)[j] = first[j]
          /\ \A j \in 1..Len(packed) : (first \o packed)[Len(first) + j] = packed[j]
        BY <1>6, <1>7, Join
    <2>3. header = first \o packed
        OBVIOUS
    <2>. HIDE DEF header
    <2>. QED
        BY <1>6, <1>7, <2>1, <2>2, <2>3
<1>12. /\ body \in Seq(Byte) /\ Len(body) = 5 + size
       /\ \A j \in 1..5 : body[j] = header[j]
       /\ \A j \in 1..size : body[5 + j] = payload[j]
    <2>1. body = header \o payload
        OBVIOUS
    <2>. HIDE DEF header, body
    <2>2. /\ header \o payload \in Seq(Byte)
          /\ Len(header \o payload) = Len(header) + Len(payload)
          /\ \A j \in 1..Len(header) : (header \o payload)[j] = header[j]
          /\ \A j \in 1..Len(payload) : (header \o payload)[Len(header) + j] = payload[j]
        BY <1>10, <1>11, Join
    <2>. QED
        BY <1>10, <1>11, <2>1, <2>2
<1>. HIDE DEF header
<1>. HIDE DEF body
<1>13. crc \in Seq(Byte) /\ Len(crc) = 2 /\ Unsigned(crc) = Crc16(body)
    <2>1. Crc16(body) \in 0..(Power[2 * ByteBits] - 1) /\ 2 \in 0..8 /\ CrcSize = 2
        BY <1>12, ChecksumFits DEF CrcSize
    <2>. DEFINE sum == Crc16(body)
    <2>. HIDE DEF sum
    <2>2. sum \in 0..(Power[2 * ByteBits] - 1)
        BY <2>1 DEF sum
    <2>. QED
        BY <2>1, <2>2, BytesReadBack DEF sum
<1>. HIDE DEF crc
<1>14. fill \in Seq(Byte)
    <2>1. Len(whole) = EncodedSize(t)
        <3>1. Len(whole) = Len(body) + Len(crc)
            BY <1>12, <1>13, Join
        <3>. QED
            BY <1>8, <1>12, <1>13, <3>1 DEF EncodedSize, HeaderSize, CrcSize, size
    <2>2. StoredSize(t, medium.alignment) - Len(whole) \in Nat
        BY <1>3, <1>4, <2>1, StoredWhole
    <2>. DEFINE rest == StoredSize(t, medium.alignment) - Len(whole)
    <2>. HIDE DEF rest
    <2>3. rest \in Nat
        BY <2>2 DEF rest
    <2>4. [i \in 1..rest |-> medium.erased] \in Seq(Byte)
        BY <1>4, <2>3
    <2>. QED
        BY <2>4 DEF rest
<1>. HIDE DEF fill
<1>15. /\ whole \in Seq(Byte) /\ Len(whole) = 7 + size
       /\ \A j \in 1..(5 + size) : whole[j] = body[j]
       /\ \A j \in 1..2 : whole[(5 + size) + j] = crc[j]
    <2>1. (5 + size) + 2 = 7 + size
        BY <1>8
    <2>2. /\ body \o crc \in Seq(Byte)
          /\ Len(body \o crc) = Len(body) + Len(crc)
          /\ \A j \in 1..Len(body) : (body \o crc)[j] = body[j]
          /\ \A j \in 1..Len(crc) : (body \o crc)[Len(body) + j] = crc[j]
        BY <1>12, <1>13, Join
    <2>3. whole = body \o crc
        OBVIOUS
    <2>. HIDE DEF whole
    <2>. QED
        BY <1>12, <1>13, <2>1, <2>2, <2>3
<1>. HIDE DEF whole
<1>16. /\ bytes \in Seq(Byte) /\ Len(bytes) >= 7 + size
       /\ \A j \in 1..(7 + size) : bytes[j] = whole[j]
    <2>1. Len(fill) \in Nat
        BY <1>14
    <2>2. Len(bytes) = (7 + size) + Len(fill)
        BY <1>14, <1>15, Join
    <2>3. Len(bytes) >= 7 + size
        BY <1>8, <2>1, <2>2
    <2>. QED
        BY <1>14, <1>15, <2>3, Join
<1>. HIDE DEF bytes
<1>17. \A j \in 1..(5 + size) : bytes[j] = body[j]
    <2>1. \A j \in 1..(5 + size) : j \in 1..(7 + size)
        BY <1>8
    <2>. QED
        BY <1>15, <1>16, <2>1
<1>18. /\ SubSeq(bytes, 1, 5 + size) = body
       /\ SubSeq(bytes, 3, 5) = packed
       /\ SubSeq(bytes, 6, 5 + size) = payload
       /\ SubSeq(bytes, (5 + size) + 1, (5 + size) + 2) = crc
    <2>1. SubSeq(bytes, 0 + 1, 0 + Len(body)) = body
        <3>1. \A j \in 1..Len(body) : bytes[0 + j] = body[j]
            BY <1>8, <1>12, <1>17
        <3>2. 0 + Len(body) <= Len(bytes)
            BY <1>8, <1>12, <1>16
        <3>. QED
            BY <1>12, <1>16, <3>1, <3>2, Piece
    <2>2. SubSeq(bytes, 2 + 1, 2 + Len(packed)) = packed
        <3>1. \A j \in 1..3 : 2 + j \in 1..(5 + size) /\ 2 + j \in 1..5
            BY <1>8
        <3>2. \A j \in 1..Len(packed) : bytes[2 + j] = packed[j]
            BY <1>7, <1>11, <1>12, <1>17, <3>1
        <3>3. 2 + Len(packed) <= Len(bytes)
            BY <1>7, <1>8, <1>16
        <3>. QED
            BY <1>7, <1>16, <3>2, <3>3, Piece
    <2>3. SubSeq(bytes, 5 + 1, 5 + Len(payload)) = payload
        <3>1. \A j \in 1..size : 5 + j \in 1..(5 + size)
            BY <1>8
        <3>2. \A j \in 1..Len(payload) : bytes[5 + j] = payload[j]
            BY <1>10, <1>12, <1>17, <3>1
        <3>3. 5 + Len(payload) <= Len(bytes)
            BY <1>8, <1>10, <1>16
        <3>. QED
            BY <1>10, <1>16, <3>2, <3>3, Piece
    <2>4. SubSeq(bytes, (5 + size) + 1, (5 + size) + Len(crc)) = crc
        <3>1. \A j \in 1..2 : (5 + size) + j \in 1..(7 + size)
            BY <1>8
        <3>2. \A j \in 1..Len(crc) : bytes[(5 + size) + j] = crc[j]
            BY <1>13, <1>15, <1>16, <3>1
        <3>3. (5 + size) + Len(crc) <= Len(bytes) /\ 5 + size \in Nat
            BY <1>8, <1>13, <1>16
        <3>. QED
            BY <1>13, <1>16, <3>2, <3>3, Piece
    <2>. QED
        BY <1>7, <1>8, <1>10, <1>12, <1>13, <2>1, <2>2, <2>3, <2>4
<1>19. bytes[1] = RecordMagic /\ bytes[2] = prefix
    <2>1. 1 \in 1..(5 + size) /\ 2 \in 1..(5 + size) /\ 1 \in 1..5 /\ 2 \in 1..5
        BY <1>8
    <2>. QED
        BY <1>11, <1>12, <1>17, <2>1
<1>20. DecodeHeader(bytes) = [result |-> "Ok", type |-> t]
    <2>1. ~(Len(bytes) < 5)
        BY <1>8, <1>16
    <2>2. ~(prefix % Power[TypeBits] >= Len(Types))
        <3>1. prefix % Power[TypeBits] \in Int
            <4>1. Power[TypeBits] \in Nat \ {0}
                <5>1. TypeBits \in 0..MaxBits
                    BY WidthsAssumption DEF MaxBits
                <5>. QED
                    BY <5>1, PowerPositive
            <4>2. prefix \in Int
                BY <1>5, Widths
            <4>. QED
                BY <4>1, <4>2, Division
        <3>2. Len(Types) \in Int
            BY TypesAssumption
        <3>. QED
            BY <1>5, <3>1, <3>2
    <2>. QED
        BY <1>5, <1>19, <2>1, <2>2 DEF DecodeHeader, HeaderSize
<1>21. Intact(bytes, t)
    <2>1. EncodedSize(t) = 7 + size /\ (7 + size) - CrcSize = 5 + size /\ CrcSize = 2
        BY <1>8 DEF EncodedSize, HeaderSize, CrcSize, size
    <2>. QED
        BY <1>13, <1>16, <1>18, <2>1 DEF Intact
<1>22. AsSigned(t, Unsigned(payload)) = value.num
    BY <1>3, <1>10, CastBack
<1>23. ~(t.bits = 1 /\ Unsigned(payload) > 1)
    <2>. SUFFICES ASSUME t.bits = 1
                  PROVE  ~(Unsigned(payload) > 1)
        OBVIOUS
    <2>1. Power[t.bits] = 2
        <3>1. 1 \in 1..MaxBits /\ 1 - 1 = 0
            BY DEF MaxBits
        <3>. QED
            BY <3>1, PowerOf
    <2>2. Unsigned(payload) \in 0..(Power[t.bits] - 1)
        BY <1>3, <1>10, CastBack
    <2>. QED
        BY <2>1, <2>2
<1>24. ~(key.scope > LastScope)
    <2>1. key.scope \in 0..LastScope /\ LastScope \in Int
        BY KeysAssumption, ScopesAssumption DEF LastScope
    <2>. QED
        BY <2>1
<1>25. Decode(bytes) = [result |-> "Ok", key |-> key, value |-> [type |-> t, num |-> value.num]]
    <2>. DEFINE read == [result |-> "Ok", type |-> t]
    <2>1. DecodeHeader(bytes) = read /\ read.result = "Ok" /\ read.type = t
        BY <1>20
    <2>2. SubSeq(bytes, 3, HeaderSize) = packed
        BY <1>18 DEF HeaderSize
    <2>3. SubSeq(bytes, HeaderSize + 1, HeaderSize + PayloadSize(t)) = payload
        <3>1. HeaderSize + 1 = 6 /\ HeaderSize + PayloadSize(t) = 5 + size
            BY DEF HeaderSize, size
        <3>. QED
            BY <1>18, <3>1
    <2>. HIDE DEF read
    <2>. QED
        BY <1>7, <1>21, <1>22, <1>23, <1>24, <2>1, <2>2, <2>3 DEF Decode
<1>. QED
    BY <1>1, <1>3, <1>16, <1>25

------------------------------------------------------------------------------------
(* The way of one value.                                                              *)

Refusals == {"TypeMismatch", "BelowMinimum", "AboveMaximum", "InvalidOption", "InvalidStep"}

\* What a candidate passed, and what its record holds until it is damaged.
Passed ==
    /\ def \in Definitions
    /\ phase \notin {"new", "refused"} => ValidDefinition(def)
    /\ phase \in Refusals => candidate \in Candidates /\ Validate(def, candidate) = phase
    /\ phase \in {"Ok", "saved", "loaded"} => candidate \in Candidates /\ Validate(def, candidate) = "Ok"

Held ==
    /\ phase \in {"saved", "loaded"} =>
          /\ record \in [key : SettingKeys, bytes : Seq(Byte), whole : BOOLEAN]
          /\ record.whole => Decode(record.bytes) = [result |-> "Ok", key |-> record.key, value |-> candidate]
    /\ phase = "loaded" => answer = Decode(record.bytes)

IInv == TypeOK /\ Passed /\ Held

LEMMA Outcomes ==
    ASSUME NEW d, NEW c
    PROVE  Validate(d, c) \in Refusals \cup {"Ok"}
BY DEF Validate, Refusals

LEMMA InitialIInv == Init => IInv
BY DEF Init, IInv, TypeOK, Passed, Held, Refusals, Nothing

LEMMA StepIInv == IInv /\ [Next]_vars => IInv'
<1>. SUFFICES ASSUME IInv, [Next]_vars
              PROVE  IInv'
    OBVIOUS
<1>. USE DEF IInv
<1>1. CASE Define
    <2>1. /\ phase = "new" /\ phase' \in {"added", "refused"}
          /\ phase' = "added" => ValidDefinition(def)
          /\ UNCHANGED <<def, candidate, record, answer>>
        BY <1>1 DEF Define
    <2>2. TypeOK'
        BY <2>1 DEF TypeOK
    <2>3. Passed'
        BY <2>1 DEF Passed, Refusals
    <2>4. Held'
        BY <2>1 DEF Held
    <2>. QED
        BY <2>2, <2>3, <2>4
<1>2. ASSUME NEW c \in Candidates, Check(c)
      PROVE  IInv'
    <2>1. /\ phase = "added" /\ phase' = Validate(def, c) /\ candidate' = c
          /\ UNCHANGED <<def, record, answer>>
        BY <1>2 DEF Check
    <2>2. phase' \in Refusals \cup {"Ok"}
        BY <2>1, Outcomes
    <2>3. TypeOK'
        BY <2>1, <2>2 DEF TypeOK, Refusals
    <2>4. Passed'
        <3>1. ValidDefinition(def) /\ def \in Definitions
            BY <2>1 DEF Passed
        <3>2. Validate(def, candidate)' = phase'
            BY <2>1
        <3>3. ValidDefinition(def)'
            BY <2>1, <3>1
        <3>4. phase' \in {"Ok", "saved", "loaded"} => phase' = "Ok"
            BY <2>2 DEF Refusals
        <3>. QED
            BY <2>1, <3>1, <3>2, <3>3, <3>4 DEF Passed
    <2>5. Held'
        BY <2>2 DEF Held, Refusals
    <2>. QED
        BY <2>3, <2>4, <2>5
<1>3. ASSUME NEW key \in SettingKeys, NEW medium \in Media, Save(key, medium)
      PROVE  IInv'
    <2>. DEFINE e == Encode(key, candidate, medium.alignment, medium.erased, medium.room)
    <2>1. /\ phase = "Ok" /\ UNCHANGED <<def, candidate, answer>>
          /\ candidate \in Candidates
          /\ answer = Nothing
        BY <1>3 DEF Save, Passed, TypeOK
    <2>2. CASE e.result = "Ok"
        <3>1. /\ record' = [key |-> key, bytes |-> e.record, whole |-> TRUE]
              /\ phase' = "saved"
            BY <1>3, <2>2 DEF Save
        <3>2. /\ e.record \in Seq(Byte)
              /\ Decode(e.record) = [result |-> "Ok", key |-> key, value |-> candidate]
            <4>. HIDE DEF e
            <4>1. e = Encode(key, candidate, medium.alignment, medium.erased, medium.room)
                BY DEF e
            <4>. QED
                BY <2>1, <2>2, <4>1, DecodeEncode
        <3>. HIDE DEF e
        <3>3. record'.key = key /\ record'.bytes = e.record
            BY <3>1
        <3>4. TypeOK'
            BY <2>1, <3>1, <3>2, <3>3 DEF TypeOK
        <3>5. Passed'
            BY <2>1, <3>1 DEF Passed, Refusals
        <3>6. Held'
            BY <2>1, <3>1, <3>2, <3>3 DEF Held
        <3>. QED
            BY <3>4, <3>5, <3>6
    <2>3. CASE e.result # "Ok"
        <3>1. record' = Nothing /\ phase' = "refused"
            BY <1>3, <2>3 DEF Save
        <3>2. TypeOK'
            BY <2>1, <3>1 DEF TypeOK, Nothing
        <3>3. Passed'
            BY <2>1, <3>1 DEF Passed, Refusals
        <3>4. Held'
            BY <3>1 DEF Held
        <3>. QED
            BY <3>2, <3>3, <3>4
    <2>. QED
        BY <2>2, <2>3
<1>4. CASE Damage
    <2>1. /\ phase = "saved" /\ UNCHANGED <<def, phase, candidate, answer>>
        BY <1>4 DEF Damage
    <2>2. PICK i \in DOMAIN record.bytes, b \in Byte :
              record' = [record EXCEPT !.bytes[i] = b, !.whole = FALSE]
        BY <1>4 DEF Damage
    <2>. DEFINE bytes == [record.bytes EXCEPT ![i] = b]
    <2>3. bytes \in Seq(Byte) /\ record.key \in SettingKeys
        BY <2>1 DEF Held
    <2>4. record'.key = record.key /\ record'.bytes = bytes /\ record'.whole = FALSE
        BY <2>1, <2>2 DEF Held
    <2>. HIDE DEF bytes
    <2>8. record' \in [key : SettingKeys, bytes : Seq(Byte), whole : BOOLEAN]
        <3>1. record' = [key |-> record.key, bytes |-> bytes, whole |-> FALSE]
            BY <2>1, <2>2 DEF Held, bytes
        <3>. QED
            BY <2>3, <3>1
    <2>5. TypeOK'
        BY <2>1, <2>3, <2>4 DEF TypeOK, Held
    <2>6. Passed'
        BY <2>1 DEF Passed
    <2>7. Held'
        BY <2>1, <2>4, <2>8 DEF Held
    <2>. QED
        BY <2>5, <2>6, <2>7
<1>5. CASE Load
    <2>1. /\ phase = "saved" /\ phase' = "loaded" /\ answer' = Decode(record.bytes)
          /\ UNCHANGED <<def, candidate, record>>
        BY <1>5 DEF Load
    <2>2. TypeOK'
        BY <2>1 DEF TypeOK
    <2>3. Passed'
        BY <2>1 DEF Passed, Refusals
    <2>4. Held'
        BY <2>1 DEF Held
    <2>. QED
        BY <2>2, <2>3, <2>4
<1>6. CASE UNCHANGED vars
    BY <1>6 DEF vars, TypeOK, Passed, Held
<1>. QED
    BY <1>1, <1>2, <1>3, <1>4, <1>5, <1>6 DEF Next

LEMMA ValuesInvariance == Spec => []IInv
BY InitialIInv, StepIInv, PTL DEF Spec

\* A phase is one of the path, what was read is there only once it was loaded, and a
\* record that was written is one of bytes under a key.
THEOREM ValuesTyped == Spec => []TypeOK
<1>1. IInv => TypeOK
    BY DEF IInv
<1>. QED
    BY <1>1, ValuesInvariance, PTL

\* A definition that add() accepted admits exactly the candidates its limits mean,
\* wherever the unsigned subtraction of the step check is faithful.
THEOREM LimitsAlwaysExact == Spec => []LimitsExact
<1>1. IInv => LimitsExact
    <2>. SUFFICES ASSUME IInv, Faithful(def, candidate)
                  PROVE  /\ phase \in {"Ok", "saved", "loaded"} => Legal(def, candidate)
                         /\ phase \in Refusals => ~Legal(def, candidate)
        BY DEF LimitsExact, Refusals
    <2>1. phase \in Refusals \cup {"Ok", "saved", "loaded"} =>
             def \in Definitions /\ ValidDefinition(def) /\ candidate \in Candidates
        BY DEF IInv, Passed, Refusals
    <2>2. phase \in {"Ok", "saved", "loaded"} => Validate(def, candidate) = "Ok"
        BY DEF IInv, Passed
    <2>3. phase \in Refusals => Validate(def, candidate) # "Ok"
        BY DEF IInv, Passed, Refusals
    <2>. QED
        BY <2>1, <2>2, <2>3, ValidateExact
<1>. QED
    BY <1>1, ValuesInvariance, PTL

\* An undamaged record reads back as the key and value it was made from, for bytes,
\* types and alignments of every width.
THEOREM AlwaysReadsBack == Spec => []ReadsBack
<1>1. IInv => ReadsBack
    BY DEF IInv, Held, ReadsBack
<1>. QED
    BY <1>1, ValuesInvariance, PTL
====================================================================================
