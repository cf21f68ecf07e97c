-------------------------- MODULE MessagePackTokensProofs --------------------------
(* When tokens are one MessagePack value: how the number of values that are due     *)
(* goes on over tokens that are joined, counted or replaced by other tokens.         *)
EXTENDS MessagePackTokens, SequencesExt, SequenceTheorems, FiniteSetTheorems, WellFoundedInduction, TLAPS

\* Every set of natural numbers that is not empty has a least element.
LEMMA LeastNumber ==
    ASSUME NEW S, S \subseteq Nat, S # {}
    PROVE  \E m \in S : \A n \in S : m <= n
<1>. DEFINE R == {z \in Nat \X Nat : z[1] < z[2]}
<1>1. IsWellFoundedOn(R, Nat)
    BY NatLessThanWellFounded DEF OpToRel
<1>2. PICK m \in S : \A n \in S : ~(<<n, m>> \in R)
    <2>. HIDE DEF R
    <2>. QED
        BY <1>1, WFMin
<1>3. \A n \in S : ~(n < m)
    BY <1>2
<1>. QED
    BY <1>3

-----------------------------------------------------------------------------------
(* Runs of tokens. *)

\* What a token asks for; a token of another kind stands for one value.
Needs(token) ==
    IF token.kind = "map" THEN 2 * token.count ELSE IF token.kind = "array" THEN token.count ELSE 0

IsSeq(s) == \E S : s \in Seq(S)

\* Before the tokens, from values are due, and after them to; something is due before each.
Counts(due, tokens, from, to) ==
    /\ due \in [0..Len(tokens) -> Nat]
    /\ due[0] = from /\ due[Len(tokens)] = to
    /\ \A i \in 1..Len(tokens) :
          Needs(tokens[i]) \in Nat /\ due[i - 1] > 0 /\ due[i] = due[i - 1] - 1 + Needs(tokens[i])

Run(tokens, from, to) == IsSeq(tokens) /\ \E due : Counts(due, tokens, from, to)

LEMMA NoTokens ==
    ASSUME NEW n \in Nat
    PROVE  Run(<<>>, n, n)
<1>1. IsSeq(<<>>) /\ Len(<<>>) = 0
    BY <<>> \in Seq({}) DEF IsSeq
<1>2. Counts([i \in {0} |-> n], <<>>, n, n)
    BY <1>1 DEF Counts
<1>. QED
    BY <1>1, <1>2 DEF Run

LEMMA OneToken ==
    ASSUME NEW token, NEW n \in Nat, Needs(token) \in Nat
    PROVE  Run(<<token>>, n + 1, n + Needs(token))
<1>. DEFINE s == <<token>>
            due == [i \in 0..1 |-> IF i = 0 THEN n + 1 ELSE n + Needs(token)]
<1>1. s \in Seq({token}) /\ Len(s) = 1 /\ s[1] = token
    OBVIOUS
<1>. HIDE DEF s
<1>2. due \in [0..1 -> Nat] /\ due[0] = n + 1 /\ due[1] = n + Needs(token)
    OBVIOUS
<1>. HIDE DEF due
<1>3. Counts(due, s, n + 1, n + Needs(token))
    BY <1>1, <1>2 DEF Counts
<1>. QED
    BY <1>1, <1>3 DEF Run, IsSeq, s

\* More may be due all the while.
LEMMA MoreDue ==
    ASSUME NEW tokens, NEW m, NEW n, Run(tokens, m, n), NEW k \in Nat
    PROVE  Run(tokens, m + k, n + k)
<1>1. PICK due : Counts(due, tokens, m, n)
    BY DEF Run
<1>2. Len(tokens) \in Nat
    BY DEF Run, IsSeq
<1>. DEFINE more == [i \in 0..Len(tokens) |-> due[i] + k]
<1>3. \A i \in 0..Len(tokens) : due[i] \in Nat /\ more[i] = due[i] + k
    BY <1>1 DEF Counts
<1>4. more \in [0..Len(tokens) -> Nat]
    BY <1>3
<1>5. 0 \in 0..Len(tokens) /\ Len(tokens) \in 0..Len(tokens)
    BY <1>2
<1>6. more[0] = m + k /\ more[Len(tokens)] = n + k
    BY <1>1, <1>3, <1>5 DEF Counts
<1>. HIDE DEF more
<1>7. ASSUME NEW i \in 1..Len(tokens)
      PROVE  Needs(tokens[i]) \in Nat /\ more[i - 1] > 0 /\ more[i] = more[i - 1] - 1 + Needs(tokens[i])
    <2>1. i \in 0..Len(tokens) /\ i - 1 \in 0..Len(tokens)
        BY <1>2
    <2>2. /\ Needs(tokens[i]) \in Nat /\ due[i - 1] > 0 /\ due[i] = due[i - 1] - 1 + Needs(tokens[i])
          /\ due[i - 1] \in Nat /\ due[i] \in Nat
        BY <1>1, <2>1 DEF Counts
    <2>3. more[i] = due[i] + k /\ more[i - 1] = due[i - 1] + k
        BY <1>3, <2>1
    <2>. QED
        BY <2>2, <2>3
<1>8. Counts(more, tokens, m + k, n + k)
    BY <1>4, <1>6, <1>7 DEF Counts
<1>. QED
    BY <1>8 DEF Run

\* One run after another.
LEMMA ConcatRuns ==
    ASSUME NEW a, NEW b, NEW m, NEW k, NEW n, Run(a, m, k), Run(b, k, n)
    PROVE  Run(a \o b, m, n)
<1>1. PICK A : a \in Seq(A)
    BY DEF Run, IsSeq
<1>2. PICK B : b \in Seq(B)
    BY DEF Run, IsSeq
<1>. DEFINE S == A \cup B
            s == a \o b
<1>3. a \in Seq(S) /\ b \in Seq(S) /\ Len(a) \in Nat /\ Len(b) \in Nat
    BY <1>1, <1>2, SeqMonotonic
<1>. HIDE DEF S
<1>4. /\ s \in Seq(S) /\ Len(s) = Len(a) + Len(b)
      /\ \A i \in 1..Len(s) : s[i] = IF i <= Len(a) THEN a[i] ELSE b[i - Len(a)]
    BY <1>3, ConcatProperties
<1>5. PICK da : Counts(da, a, m, k)
    BY DEF Run
<1>6. PICK db : Counts(db, b, k, n)
    BY DEF Run
<1>. DEFINE due == [i \in 0..(Len(a) + Len(b)) |-> IF i <= Len(a) THEN da[i] ELSE db[i - Len(a)]]
<1>7. ASSUME NEW i \in 0..Len(a)
      PROVE  due[i] = da[i] /\ due[i] \in Nat
    <2>1. da[i] \in Nat
        BY <1>5 DEF Counts
    <2>2. i \in 0..(Len(a) + Len(b)) /\ i <= Len(a)
        BY <1>3
    <2>. QED
        BY <2>1, <2>2
<1>8. ASSUME NEW j \in 0..Len(b)
      PROVE  due[Len(a) + j] = db[j] /\ due[Len(a) + j] \in Nat
    <2>1. db[j] \in Nat /\ da[Len(a)] = k /\ db[0] = k
        BY <1>5, <1>6 DEF Counts
    <2>2. CASE j = 0
        BY <1>3, <2>1, <2>2
    <2>3. CASE j # 0
        <3>1. Len(a) + j \in 0..(Len(a) + Len(b)) /\ ~(Len(a) + j <= Len(a)) /\ (Len(a) + j) - Len(a) = j
            BY <1>3, <2>3
        <3>. QED
            BY <2>1, <3>1
    <2>. QED
        BY <2>2, <2>3
<1>. HIDE DEF due
<1>9. /\ due \in [0..Len(s) -> Nat] /\ due[0] = m /\ due[Len(s)] = n
    <2>1. \A i \in 0..(Len(a) + Len(b)) : i \in 0..Len(a) \/ \E j \in 0..Len(b) : i = Len(a) + j
        <3>1. ASSUME NEW i \in 0..(Len(a) + Len(b)), i > Len(a)
              PROVE  \E j \in 0..Len(b) : i = Len(a) + j
            <4>1. i - Len(a) \in 0..Len(b) /\ i = Len(a) + (i - Len(a))
                BY <1>3, <3>1
            <4>. QED
                BY <4>1
        <3>. QED
            BY <1>3, <3>1
    <2>2. due \in [0..(Len(a) + Len(b)) -> Nat]
        <3>1. \A i \in 0..(Len(a) + Len(b)) : due[i] \in Nat
            BY <1>7, <1>8, <2>1
        <3>. QED
            BY <3>1 DEF due
    <2>3. 0 \in 0..Len(a) /\ Len(b) \in 0..Len(b)
        BY <1>3
    <2>. QED
        BY <1>4, <1>5, <1>6, <1>7, <1>8, <2>2, <2>3 DEF Counts
<1>. HIDE DEF s
<1>10. ASSUME NEW i \in 1..Len(s)
       PROVE  Needs(s[i]) \in Nat /\ due[i - 1] > 0 /\ due[i] = due[i - 1] - 1 + Needs(s[i])
    <2>1. CASE i <= Len(a)
        <3>1. i \in 1..Len(a) /\ i \in 0..Len(a) /\ i - 1 \in 0..Len(a)
            BY <1>3, <2>1
        <3>2. s[i] = a[i] /\ due[i] = da[i] /\ due[i - 1] = da[i - 1]
            BY <1>4, <1>7, <2>1, <3>1
        <3>. QED
            BY <1>5, <3>1, <3>2 DEF Counts
    <2>2. CASE i > Len(a)
        <3>. DEFINE j == i - Len(a)
        <3>1. /\ j \in 1..Len(b) /\ j \in 0..Len(b) /\ j - 1 \in 0..Len(b)
              /\ i = Len(a) + j /\ i - 1 = Len(a) + (j - 1)
            BY <1>3, <1>4, <2>2
        <3>2. s[i] = b[j]
            BY <1>3, <1>4, <2>2
        <3>. HIDE DEF j
        <3>3. due[Len(a) + j] = db[j] /\ due[Len(a) + (j - 1)] = db[j - 1]
            BY <1>8, <3>1
        <3>4. due[i] = db[j] /\ due[i - 1] = db[j - 1]
            BY <3>1, <3>3
        <3>. QED
            BY <1>6, <3>1, <3>2, <3>4 DEF Counts
    <2>. QED
        BY <1>3, <1>4, <2>1, <2>2
<1>11. Counts(due, s, m, n)
    BY <1>9, <1>10 DEF Counts
<1>. QED
    BY <1>4, <1>11 DEF Run, IsSeq, s

\* A map or an array with what it asks for is one value.
LEMMA HeadedRun ==
    ASSUME NEW token, Needs(token) \in Nat, NEW tokens, Run(tokens, Needs(token), 0)
    PROVE  Run(<<token>> \o tokens, 1, 0)
<1>1. Run(<<token>>, 0 + 1, 0 + Needs(token))
    BY OneToken
<1>2. Run(<<token>>, 1, Needs(token))
    BY <1>1
<1>. QED
    BY <1>2, ConcatRuns

LEMMA PairRun ==
    ASSUME NEW name, NEW tokens, Run(tokens, 1, 0)
    PROVE  Run(Pair(name, tokens), 2, 0)
<1>1. Needs(Key(name)) = 0
    BY DEF Needs, Key
<1>2. Run(<<Key(name)>>, 1 + 1, 1 + Needs(Key(name)))
    BY <1>1, OneToken
<1>3. Run(<<Key(name)>>, 2, 1)
    BY <1>1, <1>2
<1>. QED
    BY <1>3, ConcatRuns DEF Pair

-----------------------------------------------------------------------------------
(* Runs of runs. *)

\* The recursive function of FlattenSeq exists, so that it satisfies its equation.
LEMMA FlattenExists ==
    ASSUME NEW seqs, NEW n \in Nat
    PROVE  \E f : f = [i \in 1..n |-> IF i = 1 THEN seqs[i] ELSE f[i - 1] \o seqs[i]]
<1>. DEFINE F(f, m) == [i \in 1..m |-> IF i = 1 THEN seqs[i] ELSE f[i - 1] \o seqs[i]]
            S == {m \in Nat : ~\E f : f = F(f, m)}
<1>1. SUFFICES ASSUME S # {}
               PROVE  FALSE
    OBVIOUS
<1>2. PICK m \in S : \A i \in S : m <= i
    BY <1>1, LeastNumber
<1>3. m # 0
    <2>1. <<>> = F(<<>>, 0)
        OBVIOUS
    <2>. QED
        BY <2>1
<1>4. m - 1 \in Nat /\ m - 1 \notin S
    <2>1. m \in Nat
        OBVIOUS
    <2>. HIDE DEF S
    <2>. QED
        BY <1>2, <1>3, <2>1
<1>5. PICK f : f = F(f, m - 1)
    BY <1>4
<1>. DEFINE next == [i \in 1..m |-> IF i = 1 THEN seqs[i] ELSE f[i - 1] \o seqs[i]]
<1>6. \A i \in 1..(m - 1) : next[i] = f[i]
    <2>. SUFFICES ASSUME NEW i \in 1..(m - 1)
                  PROVE  next[i] = f[i]
        OBVIOUS
    <2>1. f[i] = IF i = 1 THEN seqs[i] ELSE f[i - 1] \o seqs[i]
        BY <1>5
    <2>2. i \in 1..m
        OBVIOUS
    <2>. QED
        BY <2>1, <2>2
<1>7. next = F(next, m)
    <2>1. \A i \in 1..m : i # 1 => i - 1 \in 1..(m - 1)
        OBVIOUS
    <2>2. \A i \in 1..m : i # 1 => next[i - 1] = f[i - 1]
        <3>. HIDE DEF next
        <3>. QED
            BY <1>6, <2>1
    <2>. QED
        BY <2>2
<1>. QED
    BY <1>7

\* A run in place of each of several tokens, or of each of several members.
LEMMA FlattenRuns ==
    ASSUME NEW seqs, IsSeq(seqs), NEW due \in [0..Len(seqs) -> Nat],
           \A i \in 1..Len(seqs) : Run(seqs[i], due[i - 1], due[i])
    PROVE  Run(FlattenSeq(seqs), due[0], due[Len(seqs)])
<1>. DEFINE N == Len(seqs)
            F(f) == [i \in 1..N |-> IF i = 1 THEN seqs[i] ELSE f[i - 1] \o seqs[i]]
<1>1. N \in Nat
    BY DEF IsSeq
<1>2. CASE N = 0
    <2>1. seqs = <<>>
        BY <1>2, EmptySeq DEF IsSeq
    <2>2. FlattenSeq(seqs) = <<>>
        BY <1>2, <2>1 DEF FlattenSeq
    <2>3. due[0] \in Nat
        BY <1>1
    <2>. QED
        BY <1>2, <2>2, <2>3, NoTokens
<1>3. CASE N # 0
    <2>. DEFINE flatten == CHOOSE f : f = F(f)
                S == {i \in 1..N : ~Run(flatten[i], due[0], due[i])}
    <2>1. FlattenSeq(seqs) = flatten[N]
        BY <1>3 DEF FlattenSeq
    <2>2. flatten = F(flatten)
        <3>1. \E f : f = F(f)
            BY <1>1, FlattenExists
        <3>. QED
            BY <3>1
    <2>. HIDE DEF flatten
    <2>3. \A i \in 1..N : flatten[i] = IF i = 1 THEN seqs[i] ELSE flatten[i - 1] \o seqs[i]
        BY <2>2
    <2>4. S = {}
        <3>1. SUFFICES ASSUME S # {}
                       PROVE  FALSE
            OBVIOUS
        <3>2. S \subseteq Nat
            BY <1>1
        <3>3. PICK i \in S : \A j \in S : i <= j
            BY <3>1, <3>2, LeastNumber
        <3>4. i \in 1..N /\ ~Run(flatten[i], due[0], due[i])
            OBVIOUS
        <3>5. CASE i = 1
            <4>1. flatten[1] = seqs[1] /\ Run(seqs[1], due[0], due[1])
                <5>1. 1 \in 1..N /\ 1 - 1 = 0
                    BY <1>1, <1>3
                <5>. QED
                    BY <2>3, <5>1
            <4>. QED
                BY <3>4, <3>5, <4>1
        <3>6. CASE i # 1
            <4>1. i - 1 \in 1..N /\ ~(i <= i - 1)
                BY <1>1, <3>4, <3>6
            <4>2. i - 1 \notin S
                <5>. HIDE DEF S
                <5>. QED
                    BY <3>3, <4>1
            <4>3. Run(flatten[i - 1], due[0], due[i - 1])
                BY <4>1, <4>2
            <4>4. Run(seqs[i], due[i - 1], due[i]) /\ flatten[i] = flatten[i - 1] \o seqs[i]
                BY <2>3, <3>4, <3>6
            <4>. QED
                BY <3>4, <4>3, <4>4, ConcatRuns
        <3>. QED
            BY <3>5, <3>6
    <2>5. N \in 1..N
        BY <1>1, <1>3
    <2>. QED
        BY <2>1, <2>4, <2>5
<1>. QED
    BY <1>2, <1>3

\* As many tokens as are due, each of them one value.
LEMMA Leaves ==
    ASSUME NEW tokens, IsSeq(tokens), \A i \in 1..Len(tokens) : Needs(tokens[i]) = 0
    PROVE  Run(tokens, Len(tokens), 0)
<1>. DEFINE due == [i \in 0..Len(tokens) |-> Len(tokens) - i]
<1>1. Len(tokens) \in Nat
    BY DEF IsSeq
<1>2. \A i \in 0..Len(tokens) : due[i] = Len(tokens) - i /\ due[i] \in Nat
    BY <1>1
<1>3. due \in [0..Len(tokens) -> Nat]
    BY <1>2
<1>. HIDE DEF due
<1>4. due[0] = Len(tokens) /\ due[Len(tokens)] = 0
    BY <1>1, <1>2
<1>5. ASSUME NEW i \in 1..Len(tokens)
      PROVE  Needs(tokens[i]) \in Nat /\ due[i - 1] > 0 /\ due[i] = due[i - 1] - 1 + Needs(tokens[i])
    <2>1. i \in 0..Len(tokens) /\ i - 1 \in 0..Len(tokens)
        BY <1>1
    <2>2. due[i] = Len(tokens) - i /\ due[i - 1] = Len(tokens) - (i - 1)
        BY <1>2, <2>1
    <2>. QED
        BY <1>1, <2>2
<1>. QED
    BY <1>3, <1>4, <1>5 DEF Run, Counts

\* A run of real tokens from one value to none is what OneValue looks for.
LEMMA RunIsOneValue ==
    ASSUME NEW tokens, Run(tokens, 1, 0),
           \A i \in 1..Len(tokens) : tokens[i].kind \in {"map", "array", "key", "scalar"}
    PROVE  OneValue(tokens)
<1>. DEFINE N == Len(tokens)
            F(f) == [i \in 0..N |-> IF i = 0 THEN 1
                                    ELSE IF f[i - 1] > 0 THEN f[i - 1] - 1 + Asks(tokens[i]) ELSE -1]
            f0 == CHOOSE f : f = F(f)
<1>1. N \in Nat
    BY DEF Run, IsSeq
<1>2. PICK due : Counts(due, tokens, 1, 0)
    BY DEF Run
<1>3. ASSUME NEW i \in 1..N
      PROVE  due[i - 1] > 0 /\ due[i] = due[i - 1] - 1 + Asks(tokens[i])
    <2>1. Asks(tokens[i]) = Needs(tokens[i])
        BY DEF Asks, Needs
    <2>. QED
        BY <1>2, <2>1 DEF Counts
<1>4. due = F(due)
    <2>1. due = [i \in 0..N |-> due[i]] /\ due[0] = 1
        BY <1>2 DEF Counts
    <2>2. \A i \in 0..N : i # 0 => i \in 1..N
        BY <1>1
    <2>3. \A i \in 0..N : due[i] = IF i = 0 THEN 1
                                   ELSE IF due[i - 1] > 0 THEN due[i - 1] - 1 + Asks(tokens[i]) ELSE -1
        BY <1>3, <2>1, <2>2
    <2>. QED
        BY <2>1, <2>3
<1>5. f0 = F(f0)
    BY <1>4
<1>6. OneValue(tokens) <=> f0[N] = 0
    BY DEF OneValue
<1>. HIDE DEF f0
<1>7. \A i \in 0..N : f0[i] = IF i = 0 THEN 1 ELSE IF f0[i - 1] > 0 THEN f0[i - 1] - 1 + Asks(tokens[i]) ELSE -1
    BY <1>5
<1>8. \A i \in 0..N : f0[i] = due[i]
    <2>. DEFINE S == {i \in 0..N : f0[i] # due[i]}
    <2>1. SUFFICES ASSUME S # {}
                   PROVE  FALSE
        OBVIOUS
    <2>2. S \subseteq Nat
        BY <1>1
    <2>3. PICK i \in S : \A j \in S : i <= j
        BY <2>1, <2>2, LeastNumber
    <2>4. i \in 0..N /\ f0[i] # due[i]
        OBVIOUS
    <2>5. i # 0
        BY <1>2, <1>7, <2>4 DEF Counts
    <2>6. i - 1 \in 0..N /\ ~(i <= i - 1) /\ i \in 1..N
        BY <1>1, <2>4, <2>5
    <2>7. i - 1 \notin S
        <3>. HIDE DEF S
        <3>. QED
            BY <2>3, <2>6
    <2>8. f0[i - 1] = due[i - 1]
        BY <2>6, <2>7
    <2>9. f0[i] = f0[i - 1] - 1 + Asks(tokens[i])
        BY <1>3, <1>7, <2>4, <2>5, <2>6, <2>8
    <2>. QED
        BY <1>3, <2>4, <2>6, <2>8, <2>9
<1>9. N \in 0..N /\ due[N] = 0
    BY <1>1, <1>2 DEF Counts
<1>. QED
    BY <1>6, <1>8, <1>9

\* How many of some indices are still to come goes down by one at each of them.
Ahead(W, i) == Cardinality({j \in W : j > i})

LEMMA StillToCome ==
    ASSUME NEW N \in Nat, NEW W, W \subseteq 1..N
    PROVE  /\ \A i \in 0..N : Ahead(W, i) \in Nat
           /\ Ahead(W, 0) = Cardinality(W) /\ Ahead(W, N) = 0
           /\ \A i \in 1..N : Ahead(W, i - 1) = IF i \in W THEN Ahead(W, i) + 1 ELSE Ahead(W, i)
<1>1. ASSUME NEW i \in 0..N
      PROVE  IsFiniteSet({j \in W : j > i}) /\ Ahead(W, i) \in Nat
    <2>1. IsFiniteSet(1..N)
        BY FS_Interval
    <2>2. IsFiniteSet({j \in W : j > i})
        BY <2>1, FS_Subset
    <2>. QED
        BY <2>2, FS_CardinalityType DEF Ahead
<1>2. Ahead(W, 0) = Cardinality(W)
    <2>1. {j \in W : j > 0} = W
        <3>1. \A j \in W : j > 0
            OBVIOUS
        <3>. QED
            BY <3>1
    <2>. QED
        BY <2>1 DEF Ahead
<1>3. Ahead(W, N) = 0
    <2>1. {j \in W : j > N} = {}
        <3>1. \A j \in W : ~(j > N)
            OBVIOUS
        <3>. QED
            BY <3>1
    <2>. QED
        BY <2>1, FS_EmptySet DEF Ahead
<1>4. ASSUME NEW i \in 1..N
      PROVE  Ahead(W, i - 1) = IF i \in W THEN Ahead(W, i) + 1 ELSE Ahead(W, i)
    <2>. DEFINE now == {j \in W : j > i - 1}
                after == {j \in W : j > i}
    <2>1. (\A j \in W : j > i - 1 <=> j > i \/ j = i) /\ ~(i > i)
        OBVIOUS
    <2>2. Ahead(W, i - 1) = Cardinality(now) /\ Ahead(W, i) = Cardinality(after) /\ IsFiniteSet(after)
        BY <1>1 DEF Ahead
    <2>3. CASE i \in W
        <3>1. now = after \cup {i} /\ i \notin after
            BY <2>1, <2>3
        <3>. HIDE DEF now, after
        <3>. QED
            BY <2>2, <2>3, <3>1, FS_AddElement
    <2>4. CASE i \notin W
        <3>1. now = after
            BY <2>1, <2>4
        <3>. QED
            BY <2>2, <2>4, <3>1
    <2>. QED
        BY <2>3, <2>4
<1>. QED
    BY <1>1, <1>2, <1>3, <1>4

\* The tokens of runs of runs are those of the runs.
LEMMA FlattenIn ==
    ASSUME NEW seqs, IsSeq(seqs), NEW S, \A i \in 1..Len(seqs) : seqs[i] \in Seq(S)
    PROVE  FlattenSeq(seqs) \in Seq(S)
<1>. DEFINE N == Len(seqs)
            F(f) == [i \in 1..N |-> IF i = 1 THEN seqs[i] ELSE f[i - 1] \o seqs[i]]
<1>1. N \in Nat
    BY DEF IsSeq
<1>2. CASE N = 0
    <2>1. seqs = <<>>
        BY <1>2, EmptySeq DEF IsSeq
    <2>2. FlattenSeq(seqs) = <<>>
        BY <1>2, <2>1 DEF FlattenSeq
    <2>. QED
        BY <2>2
<1>3. CASE N # 0
    <2>. DEFINE flatten == CHOOSE f : f = F(f)
                bad == {i \in 1..N : flatten[i] \notin Seq(S)}
    <2>1. FlattenSeq(seqs) = flatten[N]
        BY <1>3 DEF FlattenSeq
    <2>2. flatten = F(flatten)
        <3>1. \E f : f = F(f)
            BY <1>1, FlattenExists
        <3>. QED
            BY <3>1
    <2>. HIDE DEF flatten
    <2>3. \A i \in 1..N : flatten[i] = IF i = 1 THEN seqs[i] ELSE flatten[i - 1] \o seqs[i]
        BY <2>2
    <2>4. bad = {}
        <3>1. SUFFICES ASSUME bad # {}
                       PROVE  FALSE
            OBVIOUS
        <3>2. bad \subseteq Nat
            BY <1>1
        <3>3. PICK i \in bad : \A j \in bad : i <= j
            BY <3>1, <3>2, LeastNumber
        <3>4. i \in 1..N /\ flatten[i] \notin Seq(S) /\ seqs[i] \in Seq(S)
            OBVIOUS
        <3>5. i # 1
            BY <2>3, <3>4
        <3>6. i - 1 \in 1..N /\ ~(i <= i - 1)
            BY <1>1, <3>4, <3>5
        <3>7. i - 1 \notin bad
            <4>. HIDE DEF bad
            <4>. QED
                BY <3>3, <3>6
        <3>8. flatten[i - 1] \in Seq(S)
            BY <3>6, <3>7
        <3>9. flatten[i] = flatten[i - 1] \o seqs[i]
            BY <2>3, <3>4, <3>5
        <3>. QED
            BY <3>4, <3>8, <3>9, ConcatProperties
    <2>5. N \in 1..N
        BY <1>1, <1>3
    <2>. QED
        BY <2>1, <2>4, <2>5
<1>. QED
    BY <1>2, <1>3

\* A run in place of each token, as long as it leaves due what the token did.
LEMMA ReplacedRun ==
    ASSUME NEW tokens, NEW m, NEW n, Run(tokens, m, n), NEW parts, IsSeq(parts), Len(parts) = Len(tokens),
           \A i \in 1..Len(tokens) : Run(parts[i], 1, Needs(tokens[i]))
    PROVE  Run(FlattenSeq(parts), m, n)
<1>1. PICK due : Counts(due, tokens, m, n)
    BY DEF Run
<1>2. /\ due \in [0..Len(tokens) -> Nat] /\ due[0] = m /\ due[Len(tokens)] = n /\ Len(tokens) \in Nat
    <2>1. Len(tokens) \in Nat
        BY DEF Run, IsSeq
    <2>. QED
        BY <1>1, <2>1 DEF Counts
<1>3. ASSUME NEW i \in 1..Len(tokens)
      PROVE  Run(parts[i], due[i - 1], due[i])
    <2>1. i \in 0..Len(tokens) /\ i - 1 \in 0..Len(tokens)
        BY <1>2
    <2>2. due[i - 1] \in Nat /\ due[i] \in Nat
        BY <1>2, <2>1
    <2>3. Needs(tokens[i]) \in Nat /\ due[i - 1] > 0 /\ due[i] = due[i - 1] - 1 + Needs(tokens[i])
        BY <1>1 DEF Counts
    <2>4. due[i - 1] - 1 \in Nat /\ 1 + (due[i - 1] - 1) = due[i - 1] /\ Needs(tokens[i]) + (due[i - 1] - 1) = due[i]
        BY <2>2, <2>3
    <2>5. Run(parts[i], 1 + (due[i - 1] - 1), Needs(tokens[i]) + (due[i - 1] - 1))
        BY <2>4, MoreDue
    <2>. QED
        BY <2>4, <2>5
<1>. QED
    BY <1>2, <1>3, FlattenRuns
===================================================================================
