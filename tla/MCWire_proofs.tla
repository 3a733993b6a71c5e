---------------------------- MODULE MCWire_proofs ----------------------------
(***************************************************************************)
(* Proofs about the three programs of MCWire: the chunking server loses    *)
(* no byte, the walk-through of BOLT 8 agrees with NoiseState, and a       *)
(* message is written as it was read, or refused when its end is missing.  *)
(***************************************************************************)
EXTENDS MCWire, TLAPS, FiniteSetTheorems, SequenceTheorems,
        WellFoundedInduction

(***************************************************************************)
(* Induction, with a set for the predicate.                                *)
(***************************************************************************)
LEMMA AppendOne ==
  ASSUME NEW a
  PROVE  Append(<<>>, a) = <<a>>
OBVIOUS

LEMMA SmallestElement ==
  ASSUME NEW T \in SUBSET Nat, T # {}
  PROVE  \E n \in T : \A m \in T : n <= m
<1> DEFINE R == OpToRel(<, Nat)
<1>1. IsWellFoundedOn(R, Nat)
  BY NatLessThanWellFounded, Zenon
<1>2. \A m, n \in Nat : m < n => <<m, n>> \in R
  BY DEF OpToRel
<1> HIDE DEF R
<1>3. T \subseteq Nat
  OBVIOUS
<1>4. PICK n \in T : \A m \in T : ~ (<<m, n>> \in R)
  BY <1>1, <1>3, WFMin
<1>5. ASSUME NEW m \in T PROVE n <= m
  <2>1. m \in Nat /\ n \in Nat
    BY <1>3
  <2>2. ~ (m < n)
    BY <1>2, <1>4, <2>1
  <2> QED
    BY <2>1, <2>2
<1> QED
  BY <1>5

LEMMA Induct ==
  ASSUME NEW S, 0 \in S, \A n \in Nat : n \in S => n + 1 \in S
  PROVE  Nat \subseteq S
<1> DEFINE T == Nat \ S
<1> SUFFICES ASSUME T # {} PROVE FALSE
  OBVIOUS
<1>1. T \in SUBSET Nat
  OBVIOUS
<1>2. \A n : n \in T <=> n \in Nat /\ n \notin S
  OBVIOUS
<1> HIDE DEF T
<1>3. PICK n \in T : \A m \in T : n <= m
  BY <1>1, SmallestElement
<1>4. n # 0 /\ n - 1 \in Nat /\ ~(n <= n - 1) /\ n - 1 + 1 = n
  BY <1>2, <1>3
<1>5. n - 1 \in S
  BY <1>2, <1>3, <1>4
<1> QED
  BY <1>2, <1>4, <1>5

(***************************************************************************)
(* Sequences of sequences, one after the other.                            *)
(***************************************************************************)
IsFlattening(f, s) ==
  f = [j \in 1..Len(s) |-> IF j = 1 THEN s[j] ELSE f[j - 1] \o s[j]]

LEMMA FlatteningExists ==
  ASSUME NEW S, NEW s \in Seq(S)
  PROVE  \E f : IsFlattening(f, s)
<1> DEFINE Up(f, m) ==
      f = [j \in 1..m |-> IF j = 1 THEN s[j] ELSE f[j - 1] \o s[j]]
           T == {m \in Nat : \E f : Up(f, m)}
<1>1. 0 \in T
  <2>1. Up([j \in 1..0 |-> {}], 0)
    OBVIOUS
  <2> QED
    BY <2>1
<1>2. ASSUME NEW m \in Nat, m \in T PROVE m + 1 \in T
  <2>1. PICK f : Up(f, m)
    BY <1>2
  <2> DEFINE g == [j \in 1..m + 1 |->
                     IF j = 1 THEN s[j] ELSE f[j - 1] \o s[j]]
  <2>0. \A j \in 1..m : f[j] = IF j = 1 THEN s[j] ELSE f[j - 1] \o s[j]
    BY <2>1
  <2>2. \A j \in 1..m : g[j] = f[j]
    BY <2>0
  <2>3. \A j \in 1..m + 1 : j # 1 => j - 1 \in 1..m
    OBVIOUS
  <2>4. g = [j \in 1..m + 1 |-> IF j = 1 THEN s[j] ELSE g[j - 1] \o s[j]]
    BY <2>2, <2>3
  <2> HIDE DEF g
  <2>5. Up(g, m + 1)
    BY <2>4
  <2> HIDE DEF Up
  <2>6. (\E a : Up(a, m + 1)) /\ m + 1 \in Nat
    BY <2>5
  <2> QED
    BY <2>6
<1>3. Len(s) \in T
  <2> HIDE DEF T
  <2>1. Nat \subseteq T
    BY <1>1, <1>2, Induct
  <2> QED
    BY <2>1
<1> QED
  BY <1>3 DEF IsFlattening

LEMMA FlattenSeqIs ==
  ASSUME NEW S, NEW s \in Seq(S), s # <<>>
  PROVE  \E f : /\ FlattenSeq(s) = f[Len(s)]
                /\ f[1] = s[1]
                /\ \A j \in 1..Len(s) - 1 : f[j + 1] = f[j] \o s[j + 1]
<1> DEFINE f == CHOOSE f : IsFlattening(f, s)
<1>1. IsFlattening(f, s)
  BY FlatteningExists, Zenon
<1>2. Len(s) # 0
  OBVIOUS
<1>3. FlattenSeq(s) = f[Len(s)]
  BY <1>2, Zenon DEF FlattenSeq, IsFlattening
<1> DEFINE n == Len(s)
<1>4. \A j \in 1..n : f[j] = IF j = 1 THEN s[j] ELSE f[j - 1] \o s[j]
  <2> HIDE DEF f
  <2> QED
    BY <1>1 DEF IsFlattening
<1>5. n \in Nat /\ n # 0
  BY <1>2
<1> HIDE DEF f, n
<1>6. f[1] = s[1]
  BY <1>4, <1>5
<1>7. ASSUME NEW j \in 1..n - 1 PROVE f[j + 1] = f[j] \o s[j + 1]
  <2> DEFINE k == j + 1
  <2>1. k \in 1..n /\ k # 1 /\ k - 1 = j
    BY <1>5
  <2> HIDE DEF k
  <2>2. f[k] = f[j] \o s[k]
    BY <1>4, <2>1
  <2> QED
    BY <2>2 DEF k
<1> QED
  BY <1>3, <1>6, <1>7 DEF n

LEMMA FlattenEmpty == FlattenSeq(<<>>) = <<>>
BY DEF FlattenSeq

LEMMA FlattenType ==
  ASSUME NEW S, NEW s \in Seq(Seq(S))
  PROVE  FlattenSeq(s) \in Seq(S)
<1>1. CASE s = <<>>
  <2>1. FlattenSeq(s) = <<>>
    BY <1>1, FlattenEmpty
  <2> QED
    BY <2>1
<1>2. CASE s # <<>>
  <2>1. PICK f : /\ FlattenSeq(s) = f[Len(s)]
                 /\ f[1] = s[1]
                 /\ \A j \in 1..Len(s) - 1 : f[j + 1] = f[j] \o s[j + 1]
    BY <1>2, FlattenSeqIs
  <2> DEFINE n == Len(s)
             T == {m \in Nat : m \in 1..n => f[m] \in Seq(S)}
  <2>2. n \in Nat /\ n # 0
    BY <1>2
  <2>3. \A j \in 1..n : s[j] \in Seq(S)
    OBVIOUS
  <2>4. 0 \in T
    OBVIOUS
  <2>5. ASSUME NEW m \in Nat, m \in T PROVE m + 1 \in T
    <3> SUFFICES ASSUME m + 1 \in 1..n PROVE f[m + 1] \in Seq(S)
      OBVIOUS
    <3>1. CASE m = 0
      BY <2>1, <2>3, <3>1
    <3>2. CASE m # 0
      <4>1. m \in 1..n /\ m \in 1..n - 1
        BY <2>2, <3>2
      <4>2. f[m] \in Seq(S) /\ f[m + 1] = f[m] \o s[m + 1]
            /\ s[m + 1] \in Seq(S)
        BY <2>1, <2>3, <2>5, <4>1
      <4> QED
        BY <4>2
    <3> QED
      BY <3>1, <3>2
  <2>6. n \in T
    <3> HIDE DEF T
    <3>1. Nat \subseteq T
      BY <2>4, <2>5, Induct
    <3> QED
      BY <2>2, <3>1
  <2> QED
    BY <2>1, <2>2, <2>6
<1> QED
  BY <1>1, <1>2

LEMMA FlattenAppend ==
  ASSUME NEW S, NEW s \in Seq(Seq(S)), NEW x \in Seq(S)
  PROVE  FlattenSeq(Append(s, x)) = FlattenSeq(s) \o x
<1> DEFINE n == Len(s)  t == Append(s, x)
<1>1. /\ t \in Seq(Seq(S)) /\ Len(t) = n + 1 /\ t # <<>> /\ n \in Nat
      /\ t[n + 1] = x /\ \A j \in 1..n : t[j] = s[j]
  BY AppendProperties
<1> HIDE DEF t
<1>2. PICK g : /\ FlattenSeq(t) = g[Len(t)]
               /\ g[1] = t[1]
               /\ \A j \in 1..Len(t) - 1 : g[j + 1] = g[j] \o t[j + 1]
  BY <1>1, FlattenSeqIs
<1>3. /\ FlattenSeq(t) = g[n + 1]
      /\ \A j \in 1..n : g[j + 1] = g[j] \o t[j + 1]
  <2>1. Len(t) - 1 = n /\ Len(t) = n + 1
    BY <1>1
  <2> QED
    BY <1>2, <2>1
<1>4. CASE n = 0
  <2>1. s = <<>> /\ FlattenSeq(s) = <<>>
    BY <1>4, FlattenEmpty
  <2>2. g[1] = x
    BY <1>1, <1>2, <1>4
  <2>3. <<>> \o x = x
    BY ConcatEmptySeq
  <2> QED
    BY <1>3, <1>4, <2>1, <2>2, <2>3 DEF t
<1>5. CASE n # 0
  <2>0. s # <<>>
    BY <1>5
  <2>1. PICK f : /\ FlattenSeq(s) = f[Len(s)]
                 /\ f[1] = s[1]
                 /\ \A j \in 1..Len(s) - 1 : f[j + 1] = f[j] \o s[j + 1]
    BY <2>0, FlattenSeqIs
  <2> DEFINE T == {m \in Nat : m \in 1..n => g[m] = f[m]}
  <2>3. 0 \in T
    OBVIOUS
  <2>4. ASSUME NEW m \in Nat, m \in T PROVE m + 1 \in T
    <3> SUFFICES ASSUME m + 1 \in 1..n PROVE g[m + 1] = f[m + 1]
      OBVIOUS
    <3>1. CASE m = 0
      BY <1>1, <1>2, <2>1, <3>1
    <3>2. CASE m # 0
      <4>1. m \in 1..n /\ m \in 1..n - 1
        BY <1>1, <3>2
      <4>2. g[m + 1] = g[m] \o t[m + 1] /\ f[m + 1] = f[m] \o s[m + 1]
        BY <1>3, <2>1, <4>1
      <4>3. g[m] = f[m] /\ t[m + 1] = s[m + 1]
        BY <1>1, <2>4, <4>1
      <4> QED
        BY <4>2, <4>3
    <3> QED
      BY <3>1, <3>2
  <2>5. n \in T
    <3> HIDE DEF T
    <3>1. Nat \subseteq T
      BY <2>3, <2>4, Induct
    <3> QED
      BY <1>1, <3>1
  <2>6. g[n] = f[n]
    BY <1>1, <1>5, <2>5
  <2>7. g[n + 1] = g[n] \o x
    <3>1. n \in 1..n
      BY <1>1, <1>5
    <3>2. g[n + 1] = g[n] \o t[n + 1]
      BY <1>3, <3>1
    <3> QED
      BY <1>1, <3>2
  <2> QED
    BY <1>3, <2>1, <2>6, <2>7 DEF t
<1> QED
  BY <1>4, <1>5
(***************************************************************************)
(* readFromBuffers, one buffer after the other.                            *)
(***************************************************************************)
Nothing == [result |-> <<>>, rest |-> <<>>]
Taken(r, b, len) ==
  LET lacking == len - Len(r.result)
      n == IF Len(b) < lacking THEN Len(b) ELSE lacking
  IN  [result |-> r.result \o SubSeq(b, 1, n),
       rest |-> IF n < Len(b) THEN Append(r.rest, SubSeq(b, n + 1, Len(b)))
                ELSE r.rest]

IsReading(f, bs, len) ==
  f = [k \in 0..Len(bs) |->
         IF k = 0 THEN Nothing ELSE Taken(f[k - 1], bs[k], len)]

LEMMA ReadingExists ==
  ASSUME NEW S, NEW bs \in Seq(S), NEW len
  PROVE  \E f : IsReading(f, bs, len)
<1> DEFINE Up(f, m) ==
      f = [k \in 0..m |-> IF k = 0 THEN Nothing ELSE Taken(f[k - 1], bs[k], len)]
           T == {m \in Nat : \E f : Up(f, m)}
<1>1. 0 \in T
  <2> DEFINE f == [k \in 0..0 |-> Nothing]
  <2>1. f = [k \in 0..0 |->
               IF k = 0 THEN Nothing ELSE Taken(f[k - 1], bs[k], len)]
    OBVIOUS
  <2> HIDE DEF f
  <2>2. Up(f, 0)
    BY <2>1
  <2> QED
    BY <2>2
<1>2. ASSUME NEW m \in Nat, m \in T PROVE m + 1 \in T
  <2>1. PICK f : Up(f, m)
    BY <1>2
  <2> DEFINE g == [k \in 0..m + 1 |->
               IF k = 0 THEN Nothing ELSE Taken(f[k - 1], bs[k], len)]
  <2>2. \A k \in 0..m : f[k] =
               IF k = 0 THEN Nothing ELSE Taken(f[k - 1], bs[k], len)
    BY <2>1
  <2>3. \A k \in 0..m : g[k] = f[k]
    BY <2>2
  <2>4. \A k \in 0..m + 1 : k # 0 => k - 1 \in 0..m
    OBVIOUS
  <2>5. g = [k \in 0..m + 1 |->
               IF k = 0 THEN Nothing ELSE Taken(g[k - 1], bs[k], len)]
    BY <2>3, <2>4
  <2> HIDE DEF g
  <2>6. Up(g, m + 1)
    BY <2>5
  <2> HIDE DEF Up
  <2>7. (\E a : Up(a, m + 1)) /\ m + 1 \in Nat
    BY <2>6
  <2> QED
    BY <2>7
<1>3. Len(bs) \in T
  <2> HIDE DEF T
  <2>1. Nat \subseteq T
    BY <1>1, <1>2, Induct
  <2> QED
    BY <2>1
<1> QED
  BY <1>3 DEF IsReading

LEMMA ReadIs ==
  ASSUME NEW S, NEW bs \in Seq(S), NEW len
  PROVE  \E f : /\ ReadFromBuffers(bs, len) = f[Len(bs)]
                /\ f[0] = Nothing
                /\ \A k \in 0..Len(bs) - 1 :
                     f[k + 1] = Taken(f[k], bs[k + 1], len)
<1> DEFINE f == CHOOSE f : IsReading(f, bs, len)
<1>1. IsReading(f, bs, len)
  BY ReadingExists, Zenon
<1>2. ReadFromBuffers(bs, len) = f[Len(bs)]
  BY Zenon DEF ReadFromBuffers, IsReading, Taken, Nothing
<1> HIDE DEF f
<1>3. \A k \in 0..Len(bs) : f[k] =
        IF k = 0 THEN Nothing ELSE Taken(f[k - 1], bs[k], len)
  BY <1>1 DEF IsReading
<1>4. Len(bs) \in Nat
  OBVIOUS
<1>5. f[0] = Nothing
  BY <1>3, <1>4
<1>6. ASSUME NEW k \in 0..Len(bs) - 1
      PROVE  f[k + 1] = Taken(f[k], bs[k + 1], len)
  <2> DEFINE m == k + 1
  <2>1. m \in 0..Len(bs) /\ m # 0 /\ m - 1 = k
    BY <1>4
  <2> HIDE DEF m
  <2>2. f[m] = Taken(f[k], bs[m], len)
    BY <1>3, <2>1
  <2> QED
    BY <2>2 DEF m
<1> QED
  BY <1>2, <1>5, <1>6

(* What a read has made of the buffers up to one of them.                  *)
ReadSoFar(S, r, len, before) ==
  /\ r.result \in Seq(S) /\ r.rest \in Seq(Seq(S))
  /\ Len(r.result) <= len
  /\ Len(r.result) < len => r.rest = <<>>
  /\ \A j \in 1..Len(r.rest) : r.rest[j] # <<>>
  /\ r.result \o FlattenSeq(r.rest) = before

LEMMA TakenNext ==
  ASSUME NEW S, NEW r, NEW len \in Nat, NEW before \in Seq(S),
         ReadSoFar(S, r, len, before), NEW b \in Seq(S)
  PROVE  ReadSoFar(S, Taken(r, b, len), len, before \o b)
<1> DEFINE lacking == len - Len(r.result)
           n == IF Len(b) < lacking THEN Len(b) ELSE lacking
           left == SubSeq(b, n + 1, Len(b))
           u == Taken(r, b, len)
<1>1. /\ r.result \in Seq(S) /\ r.rest \in Seq(Seq(S))
      /\ Len(r.result) \in Nat /\ Len(b) \in Nat
      /\ Len(r.result) <= len
  BY DEF ReadSoFar
<1>2. n \in 0..Len(b) /\ n <= lacking /\ lacking \in Nat
      /\ (n < Len(b) => n = lacking)
      /\ (n < lacking => n = Len(b))
  <2>1. lacking \in Nat
    BY <1>1
  <2> HIDE DEF lacking
  <2>2. CASE Len(b) < lacking
    BY <1>1, <2>1, <2>2
  <2>3. CASE ~(Len(b) < lacking)
    BY <1>1, <2>1, <2>3
  <2> QED
    BY <2>2, <2>3
<1>3. u = [result |-> r.result \o SubSeq(b, 1, n),
           rest |-> IF n < Len(b) THEN Append(r.rest, left) ELSE r.rest]
  BY DEF Taken
<1> HIDE DEF u, left, n
<1>4. /\ SubSeq(b, 1, n) \in Seq(S) /\ Len(SubSeq(b, 1, n)) = n
      /\ left \in Seq(S) /\ Len(left) = Len(b) - n
  <2>1. /\ n \in Int /\ n + 1 \in Int /\ Len(b) \in Int /\ 1 \in Int
        /\ (\A j \in 1..n : b[j] \in S)
        /\ (\A j \in n + 1..Len(b) : b[j] \in S)
    BY <1>1, <1>2
  <2>2. SubSeq(b, 1, n) \in Seq(S)
        /\ Len(SubSeq(b, 1, n)) = IF 1 <= n THEN n - 1 + 1 ELSE 0
    BY <2>1, SubSeqProperties
  <2>3. left \in Seq(S)
        /\ Len(left) = IF n + 1 <= Len(b) THEN Len(b) - (n + 1) + 1 ELSE 0
    BY <2>1, SubSeqProperties DEF left
  <2> QED
    BY <1>1, <1>2, <2>2, <2>3
<1>5. SubSeq(b, 1, n) \o left = b
  <2>1. /\ 1 \in 1..Len(b) + 1 /\ n \in 1 - 1..Len(b) /\ Len(b) \in n..Len(b)
    BY <1>1, <1>2
  <2>2. SubSeq(b, 1, n) \o left = SubSeq(b, 1, Len(b))
    BY <2>1, ConcatAdjacentSubSeq DEF left
  <2> QED
    BY <2>2, SubSeqFull
<1>6. u.result \in Seq(S) /\ Len(u.result) = Len(r.result) + n
      /\ Len(u.result) <= len
  <2>1. u.result = r.result \o SubSeq(b, 1, n)
    BY <1>3
  <2>2. u.result \in Seq(S)
        /\ Len(u.result) = Len(r.result) + Len(SubSeq(b, 1, n))
    BY <1>1, <1>4, <2>1, ConcatProperties
  <2>3. Len(r.result) + n <= len
    BY <1>1, <1>2
  <2> QED
    BY <1>4, <2>2, <2>3
<1>7. CASE n < Len(b)
  <2>1. u.rest = Append(r.rest, left) /\ Len(u.result) = len
    <3>1. u.rest = Append(r.rest, left)
      BY <1>3, <1>7
    <3>2. n = lacking
      BY <1>2, <1>7
    <3> QED
      BY <1>1, <1>6, <3>1, <3>2
  <2>2. u.rest \in Seq(Seq(S))
    BY <1>1, <1>4, <2>1, AppendProperties
  <2>3. \A j \in 1..Len(u.rest) : u.rest[j] # <<>>
    <3>1. left # <<>>
      BY <1>1, <1>2, <1>4, <1>7
    <3>2. \A j \in 1..Len(r.rest) : r.rest[j] # <<>>
      BY DEF ReadSoFar
    <3> QED
      BY <1>1, <1>4, <2>1, <3>1, <3>2
  <2>4. FlattenSeq(u.rest) = FlattenSeq(r.rest) \o left
    BY <1>1, <1>4, <2>1, FlattenAppend
  <2>5. u.result \o FlattenSeq(u.rest) = before \o b
    <3> DEFINE A == r.result  B == SubSeq(b, 1, n)  F == FlattenSeq(r.rest)
    <3>1. A \in Seq(S) /\ B \in Seq(S) /\ F \in Seq(S) /\ A \o F = before
      BY <1>1, <1>4, FlattenType DEF ReadSoFar
    <3>2. u.result \o FlattenSeq(u.rest) = (A \o B) \o (F \o left)
      BY <1>3, <2>4
    <3>3. CASE n = 0
      <4>1. B = <<>> /\ left = b
        BY <1>4, <1>5, <3>1, <3>3, ConcatEmptySeq
      <4>2. A \o B = A
        BY <3>1, <4>1, ConcatEmptySeq
      <4> HIDE DEF A, B, F
      <4> QED
        <5>1. A \o (F \o left) = (A \o F) \o left
          <6>1. A \in Seq(S) /\ F \in Seq(S) /\ left \in Seq(S)
            BY <1>4, <3>1
          <6> QED
            BY <6>1, ConcatAssociative, SMTT(60)
        <5> QED
          BY <3>1, <3>2, <4>1, <4>2, <5>1
    <3>4. CASE n # 0
      <4>1. Len(r.result) < len
        BY <1>1, <1>2, <3>4
      <4>2. r.rest = <<>> /\ F = <<>>
        BY <4>1, FlattenEmpty DEF ReadSoFar
      <4>3. A = before /\ F \o left = left
        BY <1>4, <3>1, <4>2, ConcatEmptySeq
      <4> HIDE DEF A, B, F
      <4>4. A \o (B \o left) = (A \o B) \o left
        <5>1. A \in Seq(S) /\ B \in Seq(S) /\ left \in Seq(S)
          BY <1>4, <3>1
        <5> QED
          BY <5>1, ConcatAssociative, SMTT(60)
      <4> QED
        BY <1>5, <3>2, <4>3, <4>4 DEF B
    <3> QED
      BY <3>3, <3>4
  <2> QED
    BY <1>6, <2>1, <2>2, <2>3, <2>5 DEF u, ReadSoFar
<1>8. CASE n = Len(b)
  <2>1. u.rest = r.rest
    BY <1>1, <1>2, <1>3, <1>8
  <2>2. left = <<>> /\ SubSeq(b, 1, n) = b
    BY <1>1, <1>4, <1>5, <1>8, ConcatEmptySeq
  <2>3. u.result = r.result \o b
    BY <1>3, <2>2
  <2>4. Len(u.result) < len => r.rest = <<>>
    BY <1>1, <1>2, <1>6 DEF ReadSoFar
  <2>5. u.result \o FlattenSeq(u.rest) = before \o b
    <3>1. CASE b = <<>>
      <4>1. r.result \o b = r.result /\ before \o b = before
        BY <1>1, <3>1, ConcatEmptySeq
      <4> QED
        BY <2>1, <2>3, <4>1 DEF ReadSoFar
    <3>2. CASE b # <<>>
      <4>1. Len(r.result) < len
        BY <1>1, <1>2, <1>8, <3>2
      <4>2. r.rest = <<>> /\ FlattenSeq(r.rest) = <<>>
        BY <4>1, FlattenEmpty DEF ReadSoFar
      <4>3. r.result = before
        BY <1>1, <4>2, ConcatEmptySeq DEF ReadSoFar
      <4>4. u.result \o <<>> = u.result
        BY <1>6, ConcatEmptySeq
      <4> QED
        BY <2>1, <2>3, <4>2, <4>3, <4>4
    <3> QED
      BY <3>1, <3>2
  <2> QED
    BY <1>1, <1>6, <2>1, <2>4, <2>5 DEF u, ReadSoFar
<1> QED
  BY <1>2, <1>7, <1>8

LEMMA Prefix ==
  ASSUME NEW S, NEW s \in Seq(S), NEW k \in 0..Len(s) - 1
  PROVE  /\ SubSeq(s, 1, k) \in Seq(S)
         /\ SubSeq(s, 1, k + 1) = Append(SubSeq(s, 1, k), s[k + 1])
<1>1. k \in Nat /\ k + 1 \in 1..Len(s) /\ Len(s) \in Nat
  OBVIOUS
<1>2. SubSeq(s, 1, k) \in Seq(S)
  <2>1. \A j \in 1..k : s[j] \in S
    BY <1>1
  <2> QED
    BY <1>1, <2>1, SubSeqProperties
<1>3. SubSeq(s, 1, k + 1) = SubSeq(s, 1, k) \o <<s[k + 1]>>
  <2> DEFINE n == k + 1
  <2>1. 1 \in 1..Len(s) /\ n \in 1..Len(s) /\ n \in 1..n /\ n - 1 = k
    BY <1>1
  <2> HIDE DEF n
  <2>2. SubSeq(s, 1, n) = SubSeq(s, 1, n - 1) \o <<s[n]>>
    BY <2>1, SubSeqRecursiveSecond
  <2> QED
    BY <2>1, <2>2 DEF n
<1>4. s[k + 1] \in S
  BY <1>1
<1> QED
  BY <1>2, <1>3, <1>4, AppendIsConcat

(* What readFromBuffers returns: no more than it is asked for, and nothing *)
(* is left behind when it is less; the result and what is left are what    *)
(* the buffers held.                                                       *)
LEMMA ReadFacts ==
  ASSUME NEW S, NEW bs \in Seq(Seq(S)), NEW len \in Nat
  PROVE  ReadSoFar(S, ReadFromBuffers(bs, len), len, FlattenSeq(bs))
<1>1. PICK f : /\ ReadFromBuffers(bs, len) = f[Len(bs)]
               /\ f[0] = Nothing
               /\ \A k \in 0..Len(bs) - 1 :
                    f[k + 1] = Taken(f[k], bs[k + 1], len)
  BY ReadIs
<1> DEFINE n == Len(bs)
           Upto(k) == ReadSoFar(S, f[k], len, FlattenSeq(SubSeq(bs, 1, k)))
           T == {k \in Nat : k <= n => Upto(k)}
<1>2. n \in Nat
  OBVIOUS
<1>3. 0 \in T
  <2>1. SubSeq(bs, 1, 0) = <<>>
    BY SubSeqEmpty
  <2>2. FlattenSeq(SubSeq(bs, 1, 0)) = <<>>
    BY <2>1, FlattenEmpty
  <2>3. /\ f[0].result = <<>> /\ f[0].rest = <<>>
    BY <1>1 DEF Nothing
  <2>4. ReadSoFar(S, f[0], len, <<>>)
    BY <2>3, FlattenEmpty DEF ReadSoFar
  <2> QED
    BY <2>2, <2>4
<1>4. ASSUME NEW k \in Nat, k \in T PROVE k + 1 \in T
  <2> SUFFICES ASSUME k + 1 <= n PROVE Upto(k + 1)
    OBVIOUS
  <2>1. k \in 0..n - 1 /\ k + 1 \in 1..n /\ k <= n
    BY <1>2
  <2>2. Upto(k) /\ bs[k + 1] \in Seq(S)
    BY <1>4, <2>1
  <2>3. /\ SubSeq(bs, 1, k) \in Seq(Seq(S))
        /\ SubSeq(bs, 1, k + 1) = Append(SubSeq(bs, 1, k), bs[k + 1])
    BY <2>1, Prefix
  <2> DEFINE P == SubSeq(bs, 1, k)  b == bs[k + 1]
  <2>4. FlattenSeq(P) \in Seq(S) /\ FlattenSeq(Append(P, b)) = FlattenSeq(P) \o b
    <3> HIDE DEF P, b
    <3>1. P \in Seq(Seq(S)) /\ b \in Seq(S)
      BY <2>2, <2>3 DEF P, b
    <3> QED
      BY <3>1, FlattenType, FlattenAppend
  <2>5. f[k + 1] = Taken(f[k], b, len)
    BY <1>1, <2>1
  <2>6. ReadSoFar(S, Taken(f[k], b, len), len, FlattenSeq(P) \o b)
    <3> HIDE DEF P, b
    <3>1. ReadSoFar(S, f[k], len, FlattenSeq(P)) /\ b \in Seq(S)
      BY <2>2 DEF P, b
    <3> QED
      BY <2>4, <3>1, TakenNext
  <2> QED
    BY <2>3, <2>4, <2>5, <2>6
<1>5. Upto(n)
  <2> HIDE DEF T
  <2>1. Nat \subseteq T
    BY <1>3, <1>4, Induct
  <2>2. n \in T
    BY <1>2, <2>1
  <2> QED
    BY <1>2, <2>2 DEF T
<1>6. SubSeq(bs, 1, n) = bs
  BY SubSeqFull
<1> QED
  BY <1>1, <1>5, <1>6

(* Where the first buffer holds all that is asked for, no other is read.   *)
FirstOnly(S, r, bs, len) ==
  /\ r.result = SubSeq(bs[1], 1, len) /\ Len(r.result) = len
  /\ r.result \in Seq(S) /\ r.rest \in Seq(Seq(S))
  /\ \A j \in 1..Len(r.rest) :
       \/ r.rest[j] = SubSeq(bs[1], len + 1, Len(bs[1])) /\ len < Len(bs[1])
       \/ \E k \in 1..Len(bs) : r.rest[j] = bs[k]

LEMMA TakenFirst ==
  ASSUME NEW S, NEW bs \in Seq(Seq(S)), NEW len \in Nat,
         Len(bs) >= 1, Len(bs[1]) >= len
  PROVE  FirstOnly(S, Taken(Nothing, bs[1], len), bs, len)
<1> DEFINE b == bs[1]  u == Taken(Nothing, b, len)
           left == SubSeq(b, len + 1, Len(b))
<1>1. b \in Seq(S) /\ Len(b) \in Nat
  BY DEF b
<1>2. /\ SubSeq(b, 1, len) \in Seq(S) /\ Len(SubSeq(b, 1, len)) = len
      /\ left \in Seq(S)
  <2>1. /\ len \in Int /\ len + 1 \in Int /\ Len(b) \in Int /\ 1 \in Int
        /\ (\A j \in 1..len : b[j] \in S)
        /\ (\A j \in len + 1..Len(b) : b[j] \in S)
    BY <1>1
  <2>2. SubSeq(b, 1, len) \in Seq(S)
        /\ Len(SubSeq(b, 1, len)) = IF 1 <= len THEN len - 1 + 1 ELSE 0
    BY <2>1, SubSeqProperties
  <2>3. left \in Seq(S)
    BY <2>1, SubSeqProperties
  <2> QED
    BY <2>2, <2>3
<1>3. u = [result |-> <<>> \o SubSeq(b, 1, len),
           rest |-> IF len < Len(b) THEN Append(<<>>, left) ELSE <<>>]
  <2>1. Len(Nothing.result) = 0 /\ Nothing.result = <<>> /\ Nothing.rest = <<>>
    BY DEF Nothing
  <2> DEFINE m == IF Len(b) < len - Len(Nothing.result) THEN Len(b)
                  ELSE len - Len(Nothing.result)
  <2>2. m = len
    BY <1>1, <2>1
  <2>3. u = [result |-> Nothing.result \o SubSeq(b, 1, m),
             rest |-> IF m < Len(b)
                      THEN Append(Nothing.rest, SubSeq(b, m + 1, Len(b)))
                      ELSE Nothing.rest]
    BY DEF Taken
  <2> HIDE DEF m, u, b
  <2> QED
    BY <2>1, <2>2, <2>3
<1>4. u.result = SubSeq(b, 1, len)
  BY <1>2, <1>3, ConcatEmptySeq
<1>5. CASE len < Len(b)
  <2>1. u.rest = Append(<<>>, left)
    BY <1>3, <1>5
  <2> HIDE DEF u, b, left
  <2>2. u.rest = <<left>>
    BY <2>1, AppendOne
  <2>3. u.rest \in Seq(Seq(S)) /\ Len(u.rest) = 1 /\ u.rest[1] = left
    BY <1>2, <2>2
  <2>4. \A j \in 1..Len(u.rest) : u.rest[j] = left
    BY <2>3
  <2> QED
    BY <1>2, <1>4, <1>5, <2>3, <2>4 DEF u, b, left, FirstOnly
<1>6. CASE ~(len < Len(b))
  <2>1. u.rest = <<>>
    BY <1>3, <1>6
  <2> HIDE DEF u
  <2>2. FirstOnly(S, u, bs, len)
    BY <1>2, <1>4, <2>1 DEF FirstOnly
  <2> QED
    BY <2>2 DEF u
<1> QED
  BY <1>5, <1>6

LEMMA TakenLater ==
  ASSUME NEW S, NEW bs \in Seq(Seq(S)), NEW len \in Nat, NEW r,
         FirstOnly(S, r, bs, len), NEW k \in 1..Len(bs)
  PROVE  FirstOnly(S, Taken(r, bs[k], len), bs, len)
<1> DEFINE b == bs[k]  u == Taken(r, b, len)
<1>1. /\ b \in Seq(S) /\ Len(b) \in Nat
      /\ r.result \in Seq(S) /\ r.rest \in Seq(Seq(S)) /\ Len(r.result) = len
  BY DEF FirstOnly
<1>2. SubSeq(b, 1, 0) = <<>> /\ SubSeq(b, 1, Len(b)) = b
  <2> HIDE DEF b
  <2> QED
    BY <1>1, SubSeqEmpty, SubSeqFull
<1>3. u = [result |-> r.result \o <<>>,
           rest |-> IF 0 < Len(b) THEN Append(r.rest, b) ELSE r.rest]
  <2>1. len - Len(r.result) = 0 /\ ~(Len(b) < 0) /\ 0 + 1 = 1
    BY <1>1
  <2> HIDE DEF b
  <2>2. (IF Len(b) < 0 THEN Len(b) ELSE 0) = 0
    BY <2>1
  <2> QED
    BY <1>2, <2>1, <2>2 DEF Taken
<1>4. u.result = r.result
  BY <1>1, <1>3, ConcatEmptySeq
<1>5. CASE 0 < Len(b)
  <2>1. u.rest = Append(r.rest, b)
    BY <1>3, <1>5
  <2> HIDE DEF u, b
  <2>2. /\ u.rest \in Seq(Seq(S)) /\ Len(u.rest) = Len(r.rest) + 1
        /\ Len(r.rest) \in Nat
        /\ u.rest[Len(r.rest) + 1] = b
        /\ \A j \in 1..Len(r.rest) : u.rest[j] = r.rest[j]
    BY <1>1, <2>1, AppendProperties
  <2>3. \A j \in 1..Len(u.rest) : j \in 1..Len(r.rest) \/ j = Len(r.rest) + 1
    BY <2>2
  <2>4. \E m \in 1..Len(bs) : b = bs[m]
    BY DEF b
  <2>5. FirstOnly(S, u, bs, len)
    BY <1>4, <2>2, <2>3, <2>4 DEF FirstOnly
  <2> QED
    BY <2>5 DEF u, b
<1>6. CASE ~(0 < Len(b))
  <2>1. u.rest = r.rest
    BY <1>3, <1>6
  <2> HIDE DEF u
  <2>2. FirstOnly(S, u, bs, len)
    BY <1>4, <2>1 DEF FirstOnly
  <2> QED
    BY <2>2 DEF u
<1> QED
  BY <1>5, <1>6

LEMMA ReadFirst ==
  ASSUME NEW S, NEW bs \in Seq(Seq(S)), NEW len \in Nat,
         Len(bs) >= 1, Len(bs[1]) >= len
  PROVE  FirstOnly(S, ReadFromBuffers(bs, len), bs, len)
<1>1. PICK f : /\ ReadFromBuffers(bs, len) = f[Len(bs)]
               /\ f[0] = Nothing
               /\ \A k \in 0..Len(bs) - 1 :
                    f[k + 1] = Taken(f[k], bs[k + 1], len)
  BY ReadIs
<1> DEFINE n == Len(bs)
           T == {k \in Nat : k \in 1..n => FirstOnly(S, f[k], bs, len)}
<1>2. n \in Nat /\ n >= 1
  OBVIOUS
<1>3. 0 \in T
  OBVIOUS
<1>4. ASSUME NEW k \in Nat, k \in T PROVE k + 1 \in T
  <2> SUFFICES ASSUME k + 1 \in 1..n PROVE FirstOnly(S, f[k + 1], bs, len)
    OBVIOUS
  <2>1. k \in 0..n - 1
    BY <1>2
  <2>2. f[k + 1] = Taken(f[k], bs[k + 1], len)
    BY <1>1, <2>1
  <2>3. CASE k = 0
    <3>1. f[k] = Nothing /\ k + 1 = 1
      BY <1>1, <2>3
    <3> QED
      BY <2>2, <3>1, TakenFirst
  <2>4. CASE k # 0
    <3>1. k \in 1..n
      BY <2>1, <2>4
    <3>2. FirstOnly(S, f[k], bs, len)
      BY <1>4, <3>1
    <3> QED
      BY <2>2, <3>2, TakenLater
  <2> QED
    BY <2>3, <2>4
<1>5. n \in T
  <2> HIDE DEF T
  <2>1. Nat \subseteq T
    BY <1>3, <1>4, Induct
  <2> QED
    BY <1>2, <2>1
<1> QED
  BY <1>1, <1>2, <1>5

(***************************************************************************)
(* The server.  The two conditional properties of Streams are inductive    *)
(* together with the order of the bytes: what an event brings is added at  *)
(* the end, and a chunk is taken from the front.                           *)
(***************************************************************************)
LEMMA DivMod ==
  ASSUME NEW a \in Nat, NEW d \in Nat \ {0}
  PROVE  /\ a \div d \in Nat /\ a % d \in Nat /\ a % d < d
         /\ a = d * (a \div d) + (a % d)
OBVIOUS

LEMMA DivUnique ==
  ASSUME NEW a \in Nat, NEW d \in Nat \ {0}, NEW n \in Nat, NEW r \in Nat,
         r < d, a = d * n + r
  PROVE  a \div d = n /\ a % d = r
OBVIOUS

Pure(b) ==
  /\ Len(b) % Size = 0
  /\ \A j, k \in 1..Len(b) : b[j].conn = b[k].conn

WholeChunks ==
  (\A j \in 1..Len(pieces) : Len(pieces[j]) % Size = 0) =>
    /\ \A j \in 1..Len(buffers) : Pure(buffers[j])
    /\ \A n \in 1..Len(printed) : \A j, k \in 1..Size :
         printed[n][j].conn = printed[n][k].conn

StreamInv == TypeOK /\ ChunksInOrder /\ KeepsUp /\ WholeChunks

LEMMA ReceivedType ==
  ASSUME TypeOK, NEW c
  PROVE  Received(c) \in Nat
<1> DEFINE all == FlattenSeq(pieces)
           T == {j \in 1..Len(all) : all[j].conn = c}
<1>1. all \in Seq(Byte)
  BY FlattenType DEF TypeOK
<1>2. IsFiniteSet(1..Len(all))
  <2> HIDE DEF all
  <2>1. 1 \in Int /\ Len(all) \in Int
    BY <1>1
  <2> QED
    BY <2>1, FS_Interval
<1>3. IsFiniteSet(T)
  <2>1. T \subseteq 1..Len(all)
    OBVIOUS
  <2> HIDE DEF T, all
  <2> QED
    BY <1>2, <2>1, FS_Subset
<1>4. Cardinality(T) \in Nat
  <2> HIDE DEF T, all
  <2> QED
    BY <1>3, FS_CardinalityType
<1>5. Received(c) = Cardinality(T)
  BY Zenon DEF Received
<1> QED
  BY <1>4, <1>5

LEMMA StreamsInit == Init => StreamInv
<1> SUFFICES ASSUME Init PROVE StreamInv
  OBVIOUS
<1>1. pieces = <<>> /\ buffers = <<>> /\ printed = <<>>
  BY DEF Init
<1>2. FlattenSeq(pieces) = <<>> /\ FlattenSeq(buffers) = <<>>
      /\ FlattenSeq(printed) = <<>>
  BY <1>1, FlattenEmpty
<1>3. <<>> \o <<>> = <<>>
  OBVIOUS
<1>4. Size > 0
  BY StreamsAssumption
<1>5. TypeOK
  BY <1>1 DEF TypeOK
<1>6. ChunksInOrder
  <2>1. FlattenSeq(printed) \o FlattenSeq(buffers) = FlattenSeq(pieces)
    BY <1>2, <1>3
  <2>2. \A j \in 1..Len(buffers) : buffers[j] # <<>>
    BY <1>1
  <2> QED
    BY <2>1, <2>2 DEF ChunksInOrder
<1>7. KeepsUp
  <2>1. Len(FlattenSeq(buffers)) = 0
    BY <1>2
  <2> QED
    BY <1>4, <2>1 DEF KeepsUp
<1>8. WholeChunks
  BY <1>1 DEF WholeChunks
<1> QED
  BY <1>5, <1>6, <1>7, <1>8 DEF StreamInv

LEMMA Event ==
  ASSUME StreamInv, NEW c \in Conns, NEW n \in 1..MaxPiece,
         Received(c) + n <= MaxBytes,
         NEW d, d = [j \in 1..n |-> [conn |-> c, at |-> Received(c) + j]]
  PROVE  /\ d \in Seq(Byte) /\ d # <<>> /\ Len(d) = n /\ n \in Nat
         /\ \A j, k \in 1..n : d[j].conn = d[k].conn
<1>1. Received(c) \in Nat
  BY ReceivedType DEF StreamInv
<1>2. n \in Nat /\ n > 0 /\ MaxBytes \in Nat
  BY StreamsAssumption
<1>3. \A j \in 1..n : d[j] \in Byte /\ d[j].conn = c
  BY <1>1, <1>2 DEF Byte
<1>4. d \in [1..n -> Byte]
  BY <1>3
<1>5. d \in Seq(Byte) /\ Len(d) = n
  BY <1>2, <1>4
<1> QED
  BY <1>2, <1>3, <1>5

(* Either the event completes a chunk, or everything is kept.              *)
LEMMA OnDataStep ==
  ASSUME StreamInv, NEW c \in Conns, NEW n \in 1..MaxPiece, OnData(c, n)
  PROVE  StreamInv'
<1> DEFINE d == [j \in 1..n |-> [conn |-> c, at |-> Received(c) + j]]
           bs == Append(buffers, d)
           read == ReadFromBuffers(bs, Size)
<1>1. /\ Received(c) + n <= MaxBytes
      /\ pieces' = Append(pieces, d)
      /\ IF HasLength(bs, Size)
         THEN printed' = Append(printed, read.result) /\ buffers' = read.rest
         ELSE buffers' = bs /\ UNCHANGED printed
  BY DEF OnData
<1>2. /\ d \in Seq(Byte) /\ d # <<>> /\ Len(d) = n /\ n \in Nat
      /\ \A j, k \in 1..n : d[j].conn = d[k].conn
  BY <1>1, Event
<1> HIDE DEF d
<1>3. /\ pieces \in Seq(Seq(Byte)) /\ buffers \in Seq(Seq(Byte))
      /\ printed \in Seq([1..Size -> Byte])
      /\ Size \in Nat /\ Size > 0 /\ Len(buffers) \in Nat
      /\ Len(pieces) \in Nat /\ Len(printed) \in Nat
  BY StreamsAssumption DEF StreamInv, TypeOK
<1>4. printed \in Seq(Seq(Byte))
  <2>1. [1..Size -> Byte] \subseteq Seq(Byte)
    BY <1>3
  <2> QED
    BY <1>3, <2>1, SeqMonotonic
<1>5. /\ bs \in Seq(Seq(Byte)) /\ Len(bs) = Len(buffers) + 1
      /\ bs[Len(buffers) + 1] = d
      /\ \A j \in 1..Len(buffers) : bs[j] = buffers[j]
  BY <1>2, <1>3, AppendProperties
<1>6. /\ pieces' \in Seq(Seq(Byte)) /\ Len(pieces') = Len(pieces) + 1
      /\ pieces'[Len(pieces) + 1] = d
      /\ \A j \in 1..Len(pieces) : pieces'[j] = pieces[j]
  BY <1>1, <1>2, <1>3, AppendProperties
<1> DEFINE fp == FlattenSeq(pieces)  fb == FlattenSeq(buffers)
           fq == FlattenSeq(printed)
<1>7. /\ FlattenSeq(pieces') = fp \o d /\ FlattenSeq(bs) = fb \o d
      /\ fp \in Seq(Byte) /\ fb \in Seq(Byte) /\ fq \in Seq(Byte)
      /\ fq \o fb = fp
  <2>1. FlattenSeq(Append(pieces, d)) = fp \o d
    BY <1>2, <1>3, FlattenAppend
  <2>2. FlattenSeq(bs) = fb \o d
    BY <1>2, <1>3, FlattenAppend
  <2>3. fp \in Seq(Byte) /\ fb \in Seq(Byte) /\ fq \in Seq(Byte)
    BY <1>3, <1>4, FlattenType
  <2> QED
    BY <1>1, <2>1, <2>2, <2>3 DEF StreamInv, ChunksInOrder
<1>8. \A j \in 1..Len(bs) : bs[j] # <<>>
  <2>1. \A j \in 1..Len(buffers) : buffers[j] # <<>>
    BY DEF StreamInv, ChunksInOrder
  <2>2. \A j \in 1..Len(bs) : j \in 1..Len(buffers) \/ j = Len(buffers) + 1
    BY <1>3, <1>5
  <2> QED
    BY <1>2, <1>5, <2>1, <2>2
<1>9. /\ Len(fb \o d) = Len(fb) + n /\ Len(fb) \in Nat
      /\ fb \o d \in Seq(Byte)
  <2> HIDE DEF fb
  <2>1. fb \in Seq(Byte) /\ d \in Seq(Byte)
    BY <1>2, <1>7
  <2>2. Len(fb \o d) = Len(fb) + Len(d) /\ fb \o d \in Seq(Byte)
    BY <2>1, ConcatProperties
  <2> QED
    BY <1>2, <2>1, <2>2
<1>10. (\A j \in 1..Len(pieces') : Len(pieces'[j]) <= Size) =>
         Len(fb) < Size /\ n <= Size
  <2> SUFFICES ASSUME \A j \in 1..Len(pieces') : Len(pieces'[j]) <= Size
               PROVE  Len(fb) < Size /\ n <= Size
    OBVIOUS
  <2>1. \A j \in 1..Len(pieces) : Len(pieces[j]) <= Size
    BY <1>3, <1>6
  <2>2. Len(pieces) + 1 \in 1..Len(pieces')
    BY <1>3, <1>6
  <2> QED
    BY <1>2, <1>6, <2>1, <2>2 DEF StreamInv, KeepsUp
<1>11. (\A j \in 1..Len(pieces') : Len(pieces'[j]) % Size = 0) =>
         /\ \A j \in 1..Len(bs) : Pure(bs[j])
         /\ \A m \in 1..Len(printed) : \A j, k \in 1..Size :
              printed[m][j].conn = printed[m][k].conn
  <2> SUFFICES ASSUME \A j \in 1..Len(pieces') : Len(pieces'[j]) % Size = 0
               PROVE  /\ \A j \in 1..Len(bs) : Pure(bs[j])
                      /\ \A m \in 1..Len(printed) : \A j, k \in 1..Size :
                           printed[m][j].conn = printed[m][k].conn
    OBVIOUS
  <2>1. ASSUME NEW j \in 1..Len(pieces) PROVE Len(pieces[j]) % Size = 0
    <3>1. j \in 1..Len(pieces') /\ pieces'[j] = pieces[j]
      BY <1>3, <1>6
    <3> QED
      BY <3>1
  <2>2. Len(pieces) + 1 \in 1..Len(pieces')
    BY <1>3, <1>6
  <2>3. Pure(d)
    BY <1>2, <1>6, <2>2 DEF Pure
  <2>4. \A j \in 1..Len(bs) : j \in 1..Len(buffers) \/ j = Len(buffers) + 1
    BY <1>3, <1>5
  <2>5. /\ \A j \in 1..Len(buffers) : Pure(buffers[j])
        /\ \A m \in 1..Len(printed) : \A j, k \in 1..Size :
             printed[m][j].conn = printed[m][k].conn
    BY <2>1 DEF StreamInv, WholeChunks
  <2>6. \A j \in 1..Len(bs) : Pure(bs[j])
    BY <1>5, <2>3, <2>4, <2>5
  <2> QED
    BY <2>5, <2>6
<1>12. CASE ~HasLength(bs, Size)
  <2>1. buffers' = bs /\ printed' = printed
    BY <1>1, <1>12
  <2>2. TypeOK'
    BY <1>3, <1>5, <1>6, <2>1 DEF TypeOK, Byte
  <2>3. ChunksInOrder'
    <3>1. fq \o (fb \o d) = (fq \o fb) \o d
      <4>1. fq \in Seq(Byte) /\ fb \in Seq(Byte) /\ d \in Seq(Byte)
        BY <1>2, <1>7
      <4> HIDE DEF fq, fb
      <4> QED
        BY SMTT(30), <4>1, ConcatAssociative
    <3> HIDE DEF bs
    <3>2. FlattenSeq(printed') \o FlattenSeq(buffers') = FlattenSeq(pieces')
      BY <1>7, <2>1, <3>1
    <3> QED
      BY <1>8, <2>1, <3>2 DEF ChunksInOrder
  <2>4. Len(fb \o d) < Size
    BY <1>3, <1>7, <1>9, <1>12 DEF HasLength
  <2>5. KeepsUp'
    <3> HIDE DEF bs
    <3> QED
      BY <1>7, <2>1, <2>4 DEF KeepsUp
  <2>6. WholeChunks'
    <3> HIDE DEF bs
    <3> QED
      BY <1>11, <2>1 DEF WholeChunks, Pure
  <2> QED
    BY <2>2, <2>3, <2>5, <2>6 DEF StreamInv
<1>13. CASE HasLength(bs, Size)
  <2>1. printed' = Append(printed, read.result) /\ buffers' = read.rest
    BY <1>1, <1>13
  <2>2. ReadSoFar(Byte, read, Size, fb \o d)
    <3> HIDE DEF bs
    <3>1. ReadSoFar(Byte, read, Size, FlattenSeq(bs))
      BY <1>3, <1>5, ReadFacts
    <3> QED
      BY <1>7, <3>1
  <2>3. Len(fb \o d) >= Size
    BY <1>7, <1>13 DEF HasLength
  <2> DEFINE res == read.result  rest == read.rest  fr == FlattenSeq(rest)
  <2>4. /\ res \in Seq(Byte) /\ rest \in Seq(Seq(Byte)) /\ Len(res) <= Size
        /\ Len(res) < Size => rest = <<>>
        /\ \A j \in 1..Len(rest) : rest[j] # <<>>
        /\ res \o fr = fb \o d
    BY <2>2 DEF ReadSoFar
  <2> HIDE DEF read, bs
  <2>5. fr \in Seq(Byte) /\ Len(fb \o d) = Len(res) + Len(fr)
        /\ Len(res) \in Nat /\ Len(fr) \in Nat
    <3>1. fr \in Seq(Byte)
      BY <2>4, FlattenType
    <3> HIDE DEF res, fr
    <3>2. Len(res \o fr) = Len(res) + Len(fr)
      BY <2>4, <3>1, ConcatProperties
    <3> QED
      BY <2>4, <3>1, <3>2
  <2>6. Len(res) = Size
    <3>1. rest = <<>> => Len(fr) = 0
      BY FlattenEmpty
    <3> HIDE DEF res, rest, fr
    <3> QED
      BY <1>3, <2>3, <2>4, <2>5, <3>1
  <2>7. res \in [1..Size -> Byte]
    <3> HIDE DEF res
    <3> QED
      BY <2>4, <2>6
  <2>8. TypeOK'
    <3>1. printed' \in Seq([1..Size -> Byte])
      BY <1>3, <2>1, <2>7
    <3> QED
      BY <1>6, <2>1, <2>4, <3>1 DEF TypeOK, Byte
  <2>9. ChunksInOrder'
    <3>1. FlattenSeq(printed') = fq \o res
      BY <1>4, <2>1, <2>4, FlattenAppend
    <3>2. (fq \o res) \o fr = fq \o (res \o fr)
      <4>1. fq \in Seq(Byte) /\ res \in Seq(Byte) /\ fr \in Seq(Byte)
        BY <1>7, <2>4, <2>5
      <4> HIDE DEF fq, res, fr
      <4> QED
        BY <4>1, ConcatAssociative
    <3>3. fq \o (fb \o d) = (fq \o fb) \o d
      <4>1. fq \in Seq(Byte) /\ fb \in Seq(Byte) /\ d \in Seq(Byte)
        BY <1>2, <1>7
      <4> HIDE DEF fq, fb
      <4> QED
        BY SMTT(30), <4>1, ConcatAssociative
    <3>4. FlattenSeq(printed') \o FlattenSeq(buffers') = FlattenSeq(pieces')
      BY <1>7, <2>1, <2>4, <3>1, <3>2, <3>3
    <3> QED
      BY <2>1, <2>4, <3>4 DEF ChunksInOrder
  <2>10. KeepsUp'
    <3>1. (\A j \in 1..Len(pieces') : Len(pieces'[j]) <= Size) => Len(fr) < Size
      <4> HIDE DEF fb, fr, res
      <4> QED
        BY <1>3, <1>2, <1>9, <1>10, <2>5, <2>6
    <3> QED
      BY <2>1, <3>1 DEF KeepsUp
  <2>11. WholeChunks'
    <3> SUFFICES ASSUME \A j \in 1..Len(pieces') : Len(pieces'[j]) % Size = 0
                 PROVE  /\ \A j \in 1..Len(buffers') : Pure(buffers'[j])
                        /\ \A m \in 1..Len(printed') : \A j, k \in 1..Size :
                             printed'[m][j].conn = printed'[m][k].conn
      BY DEF WholeChunks, Pure
    <3>1. \A j \in 1..Len(bs) : Pure(bs[j])
      BY <1>11
    <3> DEFINE b == bs[1]
    <3>2. /\ b \in Seq(Byte) /\ b # <<>> /\ Pure(b) /\ Len(bs) >= 1
          /\ Len(bs) \in Nat
      BY <1>3, <1>5, <1>8, <3>1
    <3> HIDE DEF b
    <3>3. /\ Len(b) \in Nat /\ Len(b) # 0 /\ Len(b) % Size = 0
          /\ Size \in Nat \ {0}
      BY <1>3, <3>2 DEF Pure
    <3>4. PICK q \in Nat : Len(b) = Size * q /\ q >= 1
      <4>1. Len(b) = Size * (Len(b) \div Size) + 0 /\ Len(b) \div Size \in Nat
        BY <3>3, DivMod
      <4> DEFINE q == Len(b) \div Size
      <4> HIDE DEF q
      <4>2. Len(b) = Size * q /\ q \in Nat
        BY <3>3, <4>1 DEF q
      <4>3. q # 0
        BY <3>3, <4>2
      <4> QED
        BY <4>2, <4>3
    <3>5. Len(b) >= Size /\ Len(b) - Size = Size * (q - 1) /\ Len(b) - Size \in Nat
      BY <3>3, <3>4
    <3>6. FirstOnly(Byte, read, bs, Size)
      <4>1. Len(bs) >= 1 /\ Len(bs[1]) >= Size
        BY <3>2, <3>5 DEF b
      <4> QED
        BY <1>3, <1>5, <4>1, ReadFirst DEF read
    <3>7. \A j, k \in 1..Size : res[j].conn = res[k].conn
      <4>1. res = SubSeq(b, 1, Size)
        BY <3>6 DEF FirstOnly, b
      <4>2. \A j \in 1..Size : res[j] = b[j]
        <5>1. \A j \in 1..Size : b[j] \in Byte
          BY <3>2, <3>3, <3>5
        <5>2. \A j \in 1..Size - 1 + 1 : SubSeq(b, 1, Size)[j] = b[1 + j - 1]
          BY <1>3, <5>1, SubSeqProperties
        <5> QED
          BY <1>3, <4>1, <5>2
      <4>3. \A j \in 1..Size : j \in 1..Len(b)
        BY <3>3, <3>5
      <4> QED
        BY <3>2, <4>2, <4>3 DEF Pure
    <3>8. ASSUME NEW j \in 1..Len(rest) PROVE Pure(rest[j])
      <4>1. CASE \E k \in 1..Len(bs) : rest[j] = bs[k]
        BY <3>1, <4>1
      <4>2. CASE rest[j] = SubSeq(b, Size + 1, Len(b)) /\ Size < Len(b)
        <5> DEFINE left == SubSeq(b, Size + 1, Len(b))
        <5>1. \A k \in Size + 1..Len(b) : b[k] \in Byte
          BY <3>2, <3>3
        <5>2. /\ left \in Seq(Byte) /\ Len(left) = Len(b) - Size
              /\ \A k \in 1..Len(b) - Size : left[k] = b[k + Size]
          <6>1. Size + 1 \in Int /\ Len(b) \in Int
            BY <3>3
          <6>2. /\ left \in Seq(Byte)
                /\ Len(left) = IF Size + 1 <= Len(b)
                               THEN Len(b) - (Size + 1) + 1 ELSE 0
                /\ \A k \in 1..Len(b) - (Size + 1) + 1 :
                     left[k] = b[(Size + 1) + k - 1]
            BY <5>1, <6>1, SubSeqProperties
          <6>3. Len(b) - (Size + 1) + 1 = Len(b) - Size
                /\ \A k \in Nat : (Size + 1) + k - 1 = k + Size
            BY <3>3
          <6> HIDE DEF left
          <6>4. Len(left) = Len(b) - Size
            <7>1. Size \in Nat /\ Size < Len(b) /\ Len(b) \in Nat
              BY <3>3, <4>2
            <7>2. Size + 1 <= Len(b)
              BY <7>1
            <7>3. Len(left) = Len(b) - (Size + 1) + 1
              BY <6>2, <7>2
            <7> QED
              BY <6>3, <7>3
          <6>5. ASSUME NEW k \in 1..Len(b) - Size
                PROVE  left[k] = b[k + Size]
            <7>1. k \in Nat /\ k \in 1..Len(b) - (Size + 1) + 1
              BY <3>3, <6>3
            <7>2. left[k] = b[(Size + 1) + k - 1]
              BY <6>2, <7>1
            <7>3. (Size + 1) + k - 1 = k + Size
              BY <6>3, <7>1
            <7> QED
              BY <7>2, <7>3
          <6> QED
            BY <6>2, <6>4, <6>5
        <5>3. (Len(b) - Size) % Size = 0
          <6>1. Len(b) - Size = Size * (q - 1) + 0 /\ q - 1 \in Nat
                /\ 0 \in Nat /\ 0 < Size
            BY <3>3, <3>4, <3>5
          <6> QED
            BY <3>3, <3>5, <6>1, DivUnique
        <5>4. \A k \in 1..Len(b) - Size : k + Size \in 1..Len(b)
          BY <3>3, <3>5
        <5> HIDE DEF left
        <5>5. Pure(left)
          <6>1. Len(left) % Size = 0
            BY <5>2, <5>3
          <6>2. ASSUME NEW g \in 1..Len(left), NEW k \in 1..Len(left)
                PROVE  left[g].conn = left[k].conn
            <7>1. g \in 1..Len(b) - Size /\ k \in 1..Len(b) - Size
              BY <5>2
            <7>2. left[g] = b[g + Size] /\ left[k] = b[k + Size]
              BY <5>2, <7>1
            <7>3. b[g + Size].conn = b[k + Size].conn
              BY <3>2, <5>4, <7>1 DEF Pure
            <7> QED
              BY <7>2, <7>3
          <6> QED
            BY <6>1, <6>2 DEF Pure
        <5> QED
          BY <4>2, <5>5 DEF left
      <4> QED
        BY <3>6, <4>1, <4>2 DEF FirstOnly, b
    <3>9. \A j \in 1..Len(buffers') : Pure(buffers'[j])
      BY <2>1, <3>8
    <3>10. ASSUME NEW m \in 1..Len(printed'), NEW j \in 1..Size,
                  NEW k \in 1..Size
           PROVE  printed'[m][j].conn = printed'[m][k].conn
      <4>1. /\ Len(printed') = Len(printed) + 1
            /\ printed'[Len(printed) + 1] = res
            /\ \A x \in 1..Len(printed) : printed'[x] = printed[x]
        BY <1>4, <2>1, <2>4, AppendProperties
      <4>2. m \in 1..Len(printed) \/ m = Len(printed) + 1
        BY <1>3, <4>1
      <4> QED
        BY <1>11, <3>7, <4>1, <4>2
    <3> QED
      BY <3>9, <3>10
  <2> QED
    BY <2>8, <2>9, <2>10, <2>11 DEF StreamInv
<1> QED
  BY <1>12, <1>13

LEMMA StreamStep ==
  StreamInv /\ [NextAny]_<<vars, messagesVars, walkVars, program>> => StreamInv'
<1> SUFFICES ASSUME StreamInv, [NextAny]_<<vars, messagesVars, walkVars, program>>
             PROVE  StreamInv'
  OBVIOUS
<1>1. CASE Next
  BY <1>1, OnDataStep DEF Next
<1>2. CASE UNCHANGED vars
  BY <1>2 DEF vars, StreamInv, TypeOK, ChunksInOrder, KeepsUp, WholeChunks,
              Byte, Pure
<1> QED
  BY <1>1, <1>2 DEF NextAny

LEMMA StreamInvariant == SpecAny => []StreamInv
<1>1. InitAny => StreamInv
  BY StreamsInit DEF InitAny
<1> QED
  BY <1>1, StreamStep, PTL DEF SpecAny

(* No byte of the chunking server is lost, repeated or moved, and less     *)
(* than a chunk is left over as long as no event brings more than one.     *)
THEOREM NothingLost == SpecAny => []NoByteLost
<1>1. StreamInv => NoByteLost
  BY DEF StreamInv, NoByteLost
<1> QED
  BY <1>1, StreamInvariant, PTL

(* A chunk mixes two connections only if some event was not a number of    *)
(* whole chunks.                                                           *)
THEOREM MixingHasACause == SpecAny => []MixedMeansPartial
<1>1. StreamInv => MixedMeansPartial
  BY DEF StreamInv, WholeChunks, MixedMeansPartial
<1> QED
  BY <1>1, StreamInvariant, PTL

(***************************************************************************)
(* The walk-through of BOLT 8: the script computes with constants until    *)
(* message 0, so its state at each act can be written down.                *)
(***************************************************************************)
Chain1 == <<{"rs", "es"}>>
Chain2 == Append(Chain1, {"re", "es"})
Chain3 == Append(Chain2, {"re", "ls"})

Hash1 == <<"prologue", "rs">> \o <<"es", "tag">>
Hash2 == Hash1 \o <<"re", "tag">>
Hash3 == Append(Hash2, "static")

Secret(c) == [ck |-> c, half |-> "second"]
Seal1 == <<Secret(Chain1), 0>>
Seal2 == <<Secret(Chain2), 0>>
Seal3 == <<Secret(Chain2), 1>>
Seal4 == <<Secret(Chain3), 0>>

Started == st = Walk!T!InitCipher("client") /\ count = 0

AtAct1 ==
    /\ h = <<"prologue", "rs">> /\ ck = <<>>
    /\ ciphertexts = <<>>
AtAct2 ==
    /\ h = Hash1 /\ ck = Chain1
    /\ ciphertexts = <<Seal1>>
AtAct3 ==
    /\ h = Hash2 /\ ck = Chain2
    /\ ciphertexts = Append(<<Seal1>>, Seal2)
Done ==
    /\ h = Hash3 /\ ck = Chain3
    /\ sk = [ck |-> Chain3, half |-> "first"]
    /\ rk = [ck |-> Chain3, half |-> "second"]
    /\ handshakeMessage[2] = [k |-> Secret(Chain2), n |-> 1, ad |-> Hash2]
    /\ handshakeMessage[3] = [k |-> Secret(Chain3), n |-> 0, ad |-> Hash3]

(* The ciphertexts of the handshake, and after them those of the messages, *)
(* numbered within keys of Rotate nonces; the state s seals the next one.  *)
SealedUpTo(w, s) ==
    /\ \E S : w \in Seq(S)
    /\ Len(w) >= 4
    /\ w[1] = Seal1 /\ w[2] = Seal2 /\ w[3] = Seal3 /\ w[4] = Seal4
    /\ \A j \in 5..Len(w) : \E k \in Walk!T!Key :
         w[j] = <<k, (j - 5) % Rotate>> /\ k.gen = (j - 5) \div Rotate
    /\ s \in Walk!T!CipherState
    /\ s.sk.gen = (Len(w) - 4) \div Rotate
    /\ s.sn = (Len(w) - 4) % Rotate

WalkInv ==
    /\ pc \in {"act1", "act2", "act3", "msg0", "loop"}
    /\ pc \in {"act1", "act2", "act3"} =>
         Started /\ sk = Walk!NoKey /\ rk = Walk!NoKey
    /\ pc = "act1" => AtAct1
    /\ pc = "act2" => AtAct2
    /\ pc = "act3" => AtAct3
    /\ pc \in {"msg0", "loop"} => Done /\ SealedUpTo(ciphertexts, st)
    /\ pc = "msg0" => Started /\ Len(ciphertexts) = 4
    /\ count \in 0..LastMessage

LEMMA AppendTwo ==
  ASSUME NEW a, NEW b
  PROVE  Append(<<a>>, b) = <<a, b>>
<1> DEFINE S == {a, b}  s == Append(<<a>>, b)  t == <<a, b>>
<1>1. s \in Seq(S) /\ Len(s) = 2 /\ s[1] = a /\ s[2] = b
  OBVIOUS
<1>2. t \in Seq(S) /\ Len(t) = 2 /\ t[1] = a /\ t[2] = b
  OBVIOUS
<1> HIDE DEF S, s, t
<1>3. \A j \in 1..Len(s) : s[j] = t[j]
  BY <1>1, <1>2
<1>4. s = t
  BY <1>1, <1>2, <1>3, SeqEqual
<1> QED
  BY <1>4 DEF s, t

LEMMA ConcatTwo ==
  ASSUME NEW S, NEW s \in Seq(S), NEW a \in S, NEW b \in S
  PROVE  s \o <<a, b>> = Append(Append(s, a), b)
OBVIOUS

LEMMA InitCipherType ==
  /\ Walk!T!InitCipher("client") \in Walk!T!CipherState
  /\ Walk!T!InitCipher("client").sn = 0
  /\ Walk!T!InitCipher("client").sk.gen = 0
<1>1. /\ Walk!T!BaseKey("client") \in Walk!T!Key
      /\ Walk!T!BaseKey("server") \in Walk!T!Key
      /\ Walk!T!BaseKey("client").gen = 0
  BY DEF Walk!T!BaseKey, Walk!T!Key, Walk!T!Node
<1>2. Walk!T!Peer("client") = "server"
  BY DEF Walk!T!Peer
<1>3. <<>> \in Walk!T!ChainingKey
  BY DEF Walk!T!ChainingKey
<1> QED
  BY <1>1, <1>2, <1>3 DEF Walk!T!InitCipher, Walk!T!CipherState

LEMMA HkdfType ==
  ASSUME NEW c \in Walk!T!ChainingKey, NEW k \in Walk!T!Key
  PROVE  /\ Walk!T!Hkdf(c, k).key \in Walk!T!Key
         /\ Walk!T!Hkdf(c, k).ck \in Walk!T!ChainingKey
         /\ Walk!T!Hkdf(c, k).key.gen = k.gen + 1
<1>1. /\ k.dir \in Walk!T!Node /\ k.gen \in Nat
      /\ k.salts \in Seq(Walk!T!ChainingKey)
  BY DEF Walk!T!Key
<1>2. Append(k.salts, c) \in Seq(Walk!T!ChainingKey)
  BY <1>1
<1>3. Walk!T!HkdfKey(c, k) \in Walk!T!Key
      /\ Walk!T!HkdfKey(c, k).gen = k.gen + 1
  BY <1>1, <1>2 DEF Walk!T!HkdfKey, Walk!T!Key
<1>4. [dir |-> k.dir, gen |-> k.gen] \in Walk!T!KeyName
  BY <1>1 DEF Walk!T!KeyName
<1>5. Walk!T!HkdfChainingKey(c, k) \in Walk!T!ChainingKey
  BY <1>4 DEF Walk!T!HkdfChainingKey, Walk!T!ChainingKey
<1> QED
  BY <1>3, <1>5 DEF Walk!T!Hkdf

(* What one ciphertext makes of the script's state.                        *)
LEMMA AfterEncryptType ==
  ASSUME NEW s \in Walk!T!CipherState, s.sn < Rotate
  PROVE  LET s1 == Walk!AfterEncrypt(s)
         IN  /\ s1 \in Walk!T!CipherState
             /\ s.sn + 1 < Rotate =>
                  s1 = [s EXCEPT !.sn = @ + 1]
                  /\ s1.sk = s.sk /\ s1.sn = s.sn + 1
             /\ s.sn + 1 = Rotate => s1.sk.gen = s.sk.gen + 1 /\ s1.sn = 0
             /\ s1 = Walk!Encrypted(s)
<1>1. /\ s.sn \in Nat /\ s.rn \in Nat /\ s.ck \in Walk!T!ChainingKey
      /\ s.sk \in Walk!T!Key /\ s.rk \in Walk!T!Key
      /\ Rotate \in Nat
  BY WalkAssumption DEF Walk!T!CipherState
<1> DEFINE t == [s EXCEPT !.sn = @ + 1]
<1>2. /\ t \in Walk!T!CipherState /\ t.sn = s.sn + 1
      /\ t.sk = s.sk /\ t.ck = s.ck
  BY <1>1 DEF Walk!T!CipherState
<1> DEFINE d == Walk!T!Hkdf(t.ck, t.sk)
<1>3. /\ d.key \in Walk!T!Key /\ d.ck \in Walk!T!ChainingKey
      /\ d.key.gen = s.sk.gen + 1
  BY <1>1, <1>2, HkdfType
<1>4. Walk!AfterEncrypt(s) =
        IF t.sn >= Rotate
        THEN [t EXCEPT !.sk = d.key, !.ck = d.ck, !.sn = 0] ELSE t
  BY DEF Walk!AfterEncrypt, Walk!IncrementNonce, Walk!RotateKeys
<1>5. Walk!Encrypted(s) =
        IF t.sn >= Rotate
        THEN [t EXCEPT !.sk = d.key, !.ck = d.ck, !.sn = 0] ELSE t
  BY DEF Walk!Encrypted, Walk!T!IncrementSendingNonce,
         Walk!T!SendingExpired, Walk!T!RotateSendingKeys
<1> HIDE DEF d
<1>6. CASE s.sn + 1 < Rotate
  <2>1. Walk!AfterEncrypt(s) = t
    BY <1>1, <1>2, <1>4, <1>6
  <2> QED
    BY <1>1, <1>2, <1>4, <1>5, <1>6, <2>1
<1>7. CASE s.sn + 1 = Rotate
  <2> DEFINE u == [t EXCEPT !.sk = d.key, !.ck = d.ck, !.sn = 0]
  <2>1. Walk!AfterEncrypt(s) = u
    BY <1>1, <1>2, <1>4, <1>7
  <2>2. /\ u \in Walk!T!CipherState /\ u.sn = 0
        /\ u.sk.gen = s.sk.gen + 1
    BY <1>1, <1>2, <1>3 DEF Walk!T!CipherState
  <2> HIDE DEF u, t
  <2>3. Walk!AfterEncrypt(s) = Walk!Encrypted(s)
    BY <1>4, <1>5
  <2> QED
    BY <1>1, <1>7, <2>1, <2>2, <2>3
<1> QED
  BY <1>1, <1>6, <1>7

LEMMA DivStep ==
  ASSUME NEW a \in Nat, NEW d \in Nat \ {0}
  PROVE  /\ (a % d) + 1 < d =>
              (a + 1) \div d = a \div d /\ (a + 1) % d = (a % d) + 1
         /\ (a % d) + 1 = d =>
              (a + 1) \div d = (a \div d) + 1 /\ (a + 1) % d = 0
         /\ (a % d) + 1 < d \/ (a % d) + 1 = d
<1> DEFINE n == a \div d  r == a % d
<1>1. n \in Nat /\ r \in Nat /\ r < d /\ a = d * n + r
  BY DivMod
<1> HIDE DEF n, r
<1>2. d * (n + 1) = d * n + d
  BY <1>1
<1>3. d * n \in Nat
  BY <1>1
<1>4. ASSUME r + 1 < d PROVE (a + 1) \div d = n /\ (a + 1) % d = r + 1
  <2>1. a + 1 \in Nat /\ r + 1 \in Nat /\ a + 1 = d * n + (r + 1)
    BY <1>1, <1>3
  <2> QED
    BY <1>1, <1>4, <2>1, DivUnique
<1>5. ASSUME r + 1 = d PROVE (a + 1) \div d = n + 1 /\ (a + 1) % d = 0
  <2>1. a + 1 \in Nat /\ n + 1 \in Nat /\ a + 1 = d * (n + 1) + 0
    BY <1>1, <1>2, <1>3, <1>5
  <2> QED
    BY <1>1, <2>1, DivUnique
<1>6. r + 1 < d \/ r + 1 = d
  BY <1>1
<1> QED
  BY <1>4, <1>5, <1>6 DEF n, r

(* One more ciphertext, sealed with the state's key and nonce.             *)
LEMMA SealOne ==
  ASSUME NEW w, NEW s, SealedUpTo(w, s)
  PROVE  SealedUpTo(Append(w, <<s.sk, s.sn>>), Walk!AfterEncrypt(s))
<1> DEFINE x == <<s.sk, s.sn>>
           v == Append(w, x)
           s1 == Walk!AfterEncrypt(s)
           n == Len(w) - 4
<1>1. PICK S : w \in Seq(S)
  BY DEF SealedUpTo
<1>2. /\ v \in Seq(S \cup {x}) /\ Len(v) = Len(w) + 1 /\ Len(w) \in Nat
      /\ v[Len(w) + 1] = x
      /\ \A j \in 1..Len(w) : v[j] = w[j]
  <2>1. w \in Seq(S \cup {x})
    BY <1>1
  <2> HIDE DEF x
  <2> QED
    BY <2>1
<1>3. /\ Len(w) >= 4 /\ n \in Nat /\ Rotate \in Nat \ {0}
      /\ s \in Walk!T!CipherState /\ s.sk.gen = n \div Rotate
      /\ s.sn = n % Rotate /\ s.sn < Rotate /\ s.sk \in Walk!T!Key
      /\ s.sn \in Nat
  BY <1>2, WalkAssumption, DivMod DEF SealedUpTo, Walk!T!CipherState
<1>4. /\ s1 \in Walk!T!CipherState
      /\ s.sn + 1 < Rotate => s1.sk = s.sk /\ s1.sn = s.sn + 1
      /\ s.sn + 1 = Rotate => s1.sk.gen = s.sk.gen + 1 /\ s1.sn = 0
  BY <1>3, AfterEncryptType
<1> HIDE DEF s1
<1>5. s1.sk.gen = (n + 1) \div Rotate /\ s1.sn = (n + 1) % Rotate
  <2> HIDE DEF n
  <2>1. CASE s.sn + 1 < Rotate
    BY ZenonT(60), <1>3, <1>4, <2>1, DivStep
  <2>2. CASE s.sn + 1 = Rotate
    BY ZenonT(60), <1>3, <1>4, <2>2, DivStep
  <2> QED
    BY <1>3, <2>1, <2>2
<1>6. Len(v) - 4 = n + 1 /\ Len(v) >= 4
  BY <1>2, <1>3
<1>7. v[1] = Seal1 /\ v[2] = Seal2 /\ v[3] = Seal3 /\ v[4] = Seal4
  BY <1>2, <1>3 DEF SealedUpTo
<1>8. ASSUME NEW j \in 5..Len(v)
      PROVE  \E k \in Walk!T!Key :
               v[j] = <<k, (j - 5) % Rotate>> /\ k.gen = (j - 5) \div Rotate
  <2>1. CASE j = Len(w) + 1
    BY <1>2, <1>3, <2>1
  <2>2. CASE j # Len(w) + 1
    <3>1. j \in 5..Len(w) /\ j \in 1..Len(w)
      BY <1>2, <1>3, <2>2
    <3> QED
      BY <1>2, <3>1 DEF SealedUpTo
  <2> QED
    BY <2>1, <2>2
<1>9. SealedUpTo(v, s1)
  <2> HIDE DEF v, n
  <2> QED
    BY <1>2, <1>4, <1>5, <1>6, <1>7, <1>8 DEF SealedUpTo
<1> QED
  BY <1>9 DEF s1

(***************************************************************************)
(* The steps.                                                              *)
(***************************************************************************)
LEMMA WalkInit == Walk!Init => WalkInv
BY WalkAssumption
   DEF Walk!Init, WalkInv, AtAct1, Started

LEMMA Act1 == WalkInv /\ Walk!Act1Step => WalkInv'
<1> SUFFICES ASSUME WalkInv, Walk!Act1Step PROVE WalkInv'
  OBVIOUS
<1>1. /\ pc' = "act2" /\ ck' = Chain1 /\ h' = Hash1
      /\ ciphertexts' = <<Seal1>>
      /\ UNCHANGED <<sk, rk, st, count>>
  BY AppendOne
     DEF WalkInv, AtAct1, Walk!Act1Step, Walk!Mixed, Walk!Shared, Walk!Key,
         Walk!EncryptWithAD, Chain1, Hash1, Seal1, Secret
<1>2. Started' /\ (sk = Walk!NoKey)' /\ (rk = Walk!NoKey)'
  BY <1>1 DEF WalkInv, Walk!Act1Step, Started, Walk!NoKey,
              Walk!T!InitCipher, Walk!T!BaseKey, Walk!T!Peer
<1>3. AtAct2'
  BY <1>1 DEF AtAct2, Seal1, Secret, Chain1, Hash1
<1> QED
  BY <1>1, <1>2, <1>3 DEF WalkInv

LEMMA Act2 == WalkInv /\ Walk!Act2Step => WalkInv'
<1> SUFFICES ASSUME WalkInv, Walk!Act2Step PROVE WalkInv'
  OBVIOUS
<1>1. /\ pc' = "act3" /\ ck' = Chain2 /\ h' = Hash2
      /\ UNCHANGED <<sk, rk, st, count>>
  BY DEF WalkInv, AtAct2, Walk!Act2Step, Walk!Mixed, Walk!Shared,
         Walk!ReceivedAct2, Chain2, Hash1, Hash2
<1>2. Chain2 = <<{"rs", "es"}, {"re", "es"}>>
  BY AppendTwo DEF Chain1, Chain2
<1>3. ciphertexts' = Append(<<Seal1>>, Seal2)
  BY <1>2 DEF WalkInv, AtAct2, Walk!Act2Step, Walk!ReceivedAct2, Walk!Key,
         Walk!EncryptWithAD, Walk!ResponderAfterAct2, Walk!Ecdh, Seal2, Secret
<1>4. Started' /\ (sk = Walk!NoKey)' /\ (rk = Walk!NoKey)'
  BY <1>1 DEF WalkInv, Walk!Act2Step, Started, Walk!NoKey,
              Walk!T!InitCipher, Walk!T!BaseKey, Walk!T!Peer
<1>5. AtAct3'
  BY <1>1, <1>3 DEF AtAct3
<1> QED
  BY <1>1, <1>4, <1>5 DEF WalkInv

(* The four ciphertexts of the handshake, before any message.              *)
LEMMA HandshakeSealed ==
  ASSUME NEW w, w = Append(<<Seal1>>, Seal2) \o <<Seal3, Seal4>>
  PROVE  Len(w) = 4 /\ SealedUpTo(w, Walk!T!InitCipher("client"))
<1> DEFINE S == {Seal1, Seal2, Seal3, Seal4}
<1>1. /\ w \in Seq(S) /\ Len(w) = 4
      /\ w[1] = Seal1 /\ w[2] = Seal2 /\ w[3] = Seal3 /\ w[4] = Seal4
  <2> HIDE DEF Seal1, Seal2, Seal3, Seal4
  <2> QED
    OBVIOUS
<1>2. (Len(w) - 4) \div Rotate = 0 /\ (Len(w) - 4) % Rotate = 0
  BY <1>1, WalkAssumption
<1>3. \A j \in 5..Len(w) : FALSE
  BY <1>1
<1> HIDE DEF S
<1> QED
  BY <1>1, <1>2, <1>3, InitCipherType DEF SealedUpTo

LEMMA Act3 == WalkInv /\ Walk!Act3Step => WalkInv'
<1> SUFFICES ASSUME WalkInv, Walk!Act3Step PROVE WalkInv'
  OBVIOUS
<1>1. /\ pc = "act3" /\ pc' = "msg0"
      /\ h = Hash2 /\ ck = Chain2 /\ ciphertexts = Append(<<Seal1>>, Seal2)
      /\ ck' = Chain3 /\ h' = Hash3
      /\ st' = st /\ count' = count
  BY DEF WalkInv, AtAct3, Walk!Act3Step, Walk!Mixed, Walk!Shared,
         Walk!ReceivedAct2, Walk!HashedStatic, Chain3, Hash3
<1>2. Walk!SealedStatic = [k |-> Secret(Chain2), n |-> 1, ad |-> Hash2]
  BY <1>1 DEF Walk!SealedStatic, Walk!EncryptWithAD, Walk!Key, Secret
<1>3. Walk!EncryptWithAD(Walk!Key(ck', "second"), 0, h') =
        [k |-> Secret(Chain3), n |-> 0, ad |-> Hash3]
  BY <1>1 DEF Walk!EncryptWithAD, Walk!Key, Secret
<1>4. /\ handshakeMessage' =
           <<0, [k |-> Secret(Chain2), n |-> 1, ad |-> Hash2],
             [k |-> Secret(Chain3), n |-> 0, ad |-> Hash3]>>
      /\ ciphertexts' = ciphertexts \o <<Seal3, Seal4>>
  <2> DEFINE t == Walk!EncryptWithAD(Walk!Key(ck', "second"), 0, h')
             static == Walk!SealedStatic
  <2>1. /\ handshakeMessage' = <<0, static, t>>
        /\ ciphertexts' =
             ciphertexts \o <<<<static.k, static.n>>, <<t.k, t.n>>>>
    BY DEF Walk!Act3Step
  <2>2. /\ t.k = Secret(Chain3) /\ t.n = 0
        /\ static.k = Secret(Chain2) /\ static.n = 1
    BY <1>2, <1>3
  <2> HIDE DEF t, static
  <2>3. ciphertexts' = ciphertexts \o <<Seal3, Seal4>>
    BY <2>1, <2>2 DEF Seal3, Seal4
  <2> QED
    BY <1>2, <1>3, <2>1, <2>3 DEF t, static
<1>5. Done'
  BY <1>1, <1>4 DEF Walk!Act3Step, Walk!Key, Done
<1>6. Len(ciphertexts') = 4
      /\ SealedUpTo(ciphertexts', Walk!T!InitCipher("client"))
  BY <1>1, <1>4, HandshakeSealed
<1>7. st' = Walk!T!InitCipher("client") /\ count' = 0 /\ 0 \in 0..LastMessage
  BY <1>1, WalkAssumption DEF WalkInv, Started
<1>8. SealedUpTo(ciphertexts', st')
  BY <1>6, <1>7
<1>9. Started'
  BY <1>7 DEF Started, Walk!T!InitCipher, Walk!T!BaseKey, Walk!T!Peer
<1> QED
  BY <1>1, <1>5, <1>6, <1>7, <1>8, <1>9 DEF WalkInv

(* A message is two ciphertexts.                                           *)
LEMMA SealTwo ==
  ASSUME NEW w, NEW s, SealedUpTo(w, s)
  PROVE  LET s1 == Walk!AfterEncrypt(s)
         IN  SealedUpTo(w \o <<<<s.sk, s.sn>>, <<s1.sk, s1.sn>>>>,
                        Walk!AfterEncrypt(s1))
<1> DEFINE s1 == Walk!AfterEncrypt(s)
           a == <<s.sk, s.sn>>  b == <<s1.sk, s1.sn>>
<1>1. SealedUpTo(Append(w, a), s1)
  BY SealOne
<1>2. SealedUpTo(Append(Append(w, a), b), Walk!AfterEncrypt(s1))
  <2> HIDE DEF s1, a
  <2> QED
    BY <1>1, SealOne
<1>3. w \o <<a, b>> = Append(Append(w, a), b)
  <2>1. PICK S : w \in Seq(S)
    BY DEF SealedUpTo
  <2> HIDE DEF a, b
  <2>2. w \in Seq(S \cup {a, b})
    BY <2>1
  <2> QED
    BY <2>2, ConcatTwo
<1> HIDE DEF a, b, s1
<1>4. SealedUpTo(w \o <<a, b>>, Walk!AfterEncrypt(s1))
  BY <1>2, <1>3
<1> QED
  BY <1>4 DEF a, b, s1

(* Message 0 takes its two nonces without comparing them with ROTATE, of   *)
(* which there are more.                                                   *)
LEMMA FirstMessage ==
  ASSUME NEW s, s = Walk!T!InitCipher("client")
  PROVE  LET s1 == Walk!AfterEncrypt(s)
         IN  /\ s1.sk = s.sk /\ s1.sn = s.sn + 1
             /\ Walk!AfterEncrypt(s1) = [s EXCEPT !.sn = @ + 2]
<1> DEFINE s1 == Walk!AfterEncrypt(s)
<1>1. s \in Walk!T!CipherState /\ s.sn = 0
  BY InitCipherType
<1>2. /\ Rotate \in Nat /\ s.sn < Rotate
      /\ s.sn + 1 < Rotate /\ (s.sn + 1) + 1 < Rotate
  BY <1>1, WalkAssumption
<1>3. /\ s1 \in Walk!T!CipherState
      /\ s1 = [s EXCEPT !.sn = @ + 1]
      /\ s1.sk = s.sk /\ s1.sn = s.sn + 1
  BY <1>1, <1>2, AfterEncryptType
<1> HIDE DEF s1
<1>4. Walk!AfterEncrypt(s1) = [s1 EXCEPT !.sn = @ + 1]
  <2>1. s1.sn < Rotate /\ s1.sn + 1 < Rotate
    BY <1>2, <1>3
  <2> QED
    BY <1>3, <2>1, AfterEncryptType
<1>5. [s1 EXCEPT !.sn = @ + 1] = [s EXCEPT !.sn = @ + 2]
  <2> DEFINE R(n) == [ck |-> s.ck, sk |-> s.sk, rk |-> s.rk, sn |-> n,
                      rn |-> s.rn]
  <2>1. [s EXCEPT !.sn = @ + 1] = R(s.sn + 1)
        /\ [s EXCEPT !.sn = @ + 2] = R(s.sn + 2)
    BY <1>1 DEF Walk!T!CipherState
  <2>2. s1 = R(1)
    BY <1>1, <1>3, <2>1
  <2>3. [s1 EXCEPT !.sn = @ + 1] = R(1 + 1)
    BY <2>2
  <2> QED
    BY <1>1, <2>1, <2>3
<1> QED
  BY <1>3, <1>4, <1>5 DEF s1

LEMMA Message0 == WalkInv /\ Walk!SendMessage0 => WalkInv'
<1> SUFFICES ASSUME WalkInv, Walk!SendMessage0 PROVE WalkInv'
  OBVIOUS
<1> DEFINE s1 == Walk!AfterEncrypt(st)
<1>1. /\ pc = "msg0" /\ pc' = "loop"
      /\ UNCHANGED <<h, ck, sk, rk, handshakeMessage, count>>
      /\ st' = [st EXCEPT !.sn = @ + 2]
      /\ ciphertexts' =
           ciphertexts \o <<<<st.sk, st.sn>>, <<st.sk, st.sn + 1>>>>
  BY DEF Walk!SendMessage0
<1>2. /\ st = Walk!T!InitCipher("client")
      /\ Done /\ SealedUpTo(ciphertexts, st)
  BY <1>1 DEF WalkInv, Started
<1>3. /\ s1.sk = st.sk /\ s1.sn = st.sn + 1
      /\ Walk!AfterEncrypt(s1) = st'
  BY <1>1, <1>2, FirstMessage
<1>4. SealedUpTo(ciphertexts \o <<<<st.sk, st.sn>>, <<s1.sk, s1.sn>>>>,
                 Walk!AfterEncrypt(s1))
  BY <1>2, SealTwo
<1> HIDE DEF s1
<1>5. SealedUpTo(ciphertexts', st')
  BY <1>1, <1>3, <1>4
<1>6. Done'
  BY <1>1, <1>2 DEF Done
<1> QED
  BY <1>1, <1>5, <1>6 DEF WalkInv

LEMMA MessageN == WalkInv /\ Walk!SendMessage => WalkInv'
<1> SUFFICES ASSUME WalkInv, Walk!SendMessage PROVE WalkInv'
  OBVIOUS
<1> DEFINE s1 == Walk!AfterEncrypt(st)
<1>1. /\ pc = "loop" /\ pc' = "loop"
      /\ UNCHANGED <<h, ck, sk, rk, handshakeMessage>>
      /\ count < LastMessage /\ count' = count + 1
      /\ st' = Walk!AfterEncrypt(s1)
      /\ ciphertexts' =
           ciphertexts \o <<<<st.sk, st.sn>>, <<s1.sk, s1.sn>>>>
  BY DEF Walk!SendMessage
<1>2. Done /\ SealedUpTo(ciphertexts, st)
  BY <1>1 DEF WalkInv
<1>3. SealedUpTo(ciphertexts', st')
  <2>1. SealedUpTo(ciphertexts \o <<<<st.sk, st.sn>>, <<s1.sk, s1.sn>>>>,
                   Walk!AfterEncrypt(s1))
    BY <1>2, SealTwo
  <2> HIDE DEF s1
  <2> QED
    BY <1>1, <2>1
<1>4. Done'
  BY <1>1, <1>2 DEF Done
<1>5. count' \in 0..LastMessage
  BY <1>1, WalkAssumption DEF WalkInv
<1> QED
  BY <1>1, <1>3, <1>4, <1>5 DEF WalkInv

LEMMA WalkStep == WalkInv /\ [NextAny]_<<vars, messagesVars, walkVars, program>>
                    => WalkInv'
<1> SUFFICES ASSUME WalkInv, [NextAny]_<<vars, messagesVars, walkVars, program>>
             PROVE  WalkInv'
  OBVIOUS
<1>1. CASE Walk!Next
  BY <1>1, Act1, Act2, Act3, Message0, MessageN DEF Walk!Next
<1>2. CASE UNCHANGED walkVars
  <2>1. (Done => Done') /\ (Started => Started')
    BY <1>2 DEF walkVars, Done, Started, Walk!T!InitCipher, Walk!T!BaseKey,
                Walk!T!Peer
  <2>2. (AtAct1 => AtAct1') /\ (AtAct2 => AtAct2') /\ (AtAct3 => AtAct3')
    BY <1>2 DEF walkVars, AtAct1, AtAct2, AtAct3
  <2>3. SealedUpTo(ciphertexts, st) => SealedUpTo(ciphertexts', st')
    BY <1>2 DEF walkVars
  <2>4. UNCHANGED <<pc, sk, rk, count, ciphertexts>>
    BY <1>2 DEF walkVars
  <2>5. (sk = Walk!NoKey => sk' = Walk!NoKey) /\ (rk = Walk!NoKey => rk' = Walk!NoKey)
    BY <2>4
  <2> QED
    BY <2>1, <2>2, <2>3, <2>4, <2>5 DEF WalkInv, Walk!NoKey
<1> QED
  BY <1>1, <1>2 DEF NextAny

LEMMA WalkInvariant == SpecAny => []WalkInv
<1>1. InitAny => WalkInv
  BY WalkInit DEF InitAny
<1> QED
  BY <1>1, WalkStep, PTL DEF SpecAny

(***************************************************************************)
(* The properties.                                                         *)
(***************************************************************************)
LEMMA Literals ==
  /\ <<"prologue", "rs">> \in Walk!Hash
  /\ Hash1 \in Walk!Hash /\ Hash2 \in Walk!Hash /\ Hash3 \in Walk!Hash
  /\ <<>> \in Walk!Chain
  /\ Chain1 \in Walk!Chain /\ Chain2 \in Walk!Chain /\ Chain3 \in Walk!Chain
<1>1. {"prologue", "rs", "es", "tag", "re", "static"} \subseteq Walk!HashItem
  BY DEF Walk!HashItem, Walk!Pub
<1>2. {"rs", "es", "re", "ls"} \subseteq Walk!Pub
  BY DEF Walk!Pub
<1> DEFINE I == Walk!HashItem  P == SUBSET Walk!Pub
<1>3. /\ <<"prologue", "rs">> \in Seq(I) /\ <<"es", "tag">> \in Seq(I)
      /\ <<"re", "tag">> \in Seq(I) /\ "static" \in I
  BY <1>1
<1>4. {"rs", "es"} \in P /\ {"re", "es"} \in P /\ {"re", "ls"} \in P
  BY <1>2
<1> HIDE DEF I, P
<1>5. Hash1 \in Seq(I) /\ Hash2 \in Seq(I) /\ Hash3 \in Seq(I)
  BY <1>3 DEF Hash1, Hash2, Hash3
<1>6. Chain1 \in Seq(P) /\ Chain2 \in Seq(P) /\ Chain3 \in Seq(P)
  BY <1>4 DEF Chain1, Chain2, Chain3
<1> QED
  BY <1>3, <1>5, <1>6 DEF I, P, Walk!Hash, Walk!Chain

LEMMA InvTypes == WalkInv => Walk!TypeOK
<1> SUFFICES ASSUME WalkInv PROVE Walk!TypeOK
  OBVIOUS
<1>1. h \in Walk!Hash /\ ck \in Walk!Chain
  BY Literals DEF WalkInv, AtAct1, AtAct2, AtAct3, Done
<1>2. sk \in Walk!SessionKey /\ rk \in Walk!SessionKey
  BY Literals DEF WalkInv, Done, Walk!NoKey, Walk!SessionKey
<1>3. st \in Walk!T!CipherState /\ st.sn < Rotate
  <2>1. CASE Started
    BY <2>1, InitCipherType, WalkAssumption DEF Started
  <2>2. CASE SealedUpTo(ciphertexts, st)
    <3>1. PICK S : ciphertexts \in Seq(S)
      BY <2>2 DEF SealedUpTo
    <3>2. Len(ciphertexts) - 4 \in Nat /\ Rotate \in Nat \ {0}
      BY <2>2, <3>1, WalkAssumption DEF SealedUpTo
    <3> QED
      BY <2>2, <3>2, DivMod DEF SealedUpTo
  <2> QED
    BY <2>1, <2>2 DEF WalkInv
<1> QED
  BY <1>1, <1>2, <1>3 DEF WalkInv, Walk!TypeOK

LEMMA InvAgrees == WalkInv => Walk!HandshakeAgrees
<1> SUFFICES ASSUME WalkInv PROVE Walk!HandshakeAgrees
  OBVIOUS
<1> DEFINE start == Walk!Initialized(Walk!Blank)
           act1 == Walk!AfterAct1(start)
           act2 == [re |-> "re", version |-> 0,
                    tag |-> Walk!Tag8(Walk!ReceivedAct2.c)]
           mixed == Walk!MixedSecret(act1, act2)
<1>0. ASSUME NEW h0, NEW ck0, NEW h1, NEW ck1, NEW sk1, NEW rk1
      PROVE  [[h |-> h0, ck |-> ck0, sk |-> sk1, rk |-> rk1]
                EXCEPT !.h = h1, !.ck = ck1]
             = [h |-> h1, ck |-> ck1, sk |-> sk1, rk |-> rk1]
  <2> DEFINE r == [h |-> h0, ck |-> ck0, sk |-> sk1, rk |-> rk1]
             a == [r EXCEPT !.h = h1]
  <2>1. a = [h |-> h1, ck |-> ck0, sk |-> sk1, rk |-> rk1]
    OBVIOUS
  <2>2. [r EXCEPT !.h = h1, !.ck = ck1] = [a EXCEPT !.ck = ck1]
    OBVIOUS
  <2> HIDE DEF r, a
  <2>3. [a EXCEPT !.ck = ck1] =
          [h |-> h1, ck |-> ck1, sk |-> sk1, rk |-> rk1]
    BY <2>1
  <2> QED
    BY <2>2, <2>3 DEF r
<1>1. start = [h |-> <<"prologue", "rs">>, ck |-> <<>>,
               sk |-> Walk!NoKey, rk |-> Walk!NoKey]
  <2> DEFINE hello == <<"prologue", "rs">>
  <2>1. start = [[h |-> <<>>, ck |-> <<>>,
                  sk |-> Walk!NoKey, rk |-> Walk!NoKey]
                   EXCEPT !.h = hello, !.ck = <<>>]
    BY DEF Walk!Initialized, Walk!Blank
  <2> HIDE DEF start, hello
  <2>2. start = [h |-> hello, ck |-> <<>>,
                 sk |-> Walk!NoKey, rk |-> Walk!NoKey]
    BY <1>0, <2>1
  <2> QED
    BY <2>2 DEF hello
<1> HIDE DEF start
<1>2. act1 = [h |-> Hash1, ck |-> Chain1, sk |-> Walk!NoKey, rk |-> Walk!NoKey]
  <2>1. act1 = [start EXCEPT !.h = Hash1, !.ck = Chain1]
    BY <1>1, AppendOne DEF Walk!AfterAct1, Walk!Ecdh, Hash1, Chain1
  <2> QED
    BY <1>0, <1>1, <2>1
<1>3. act2.re = "re"
  OBVIOUS
<1> HIDE DEF act1, act2
<1>4. mixed.h = Append(Hash1, "re") /\ mixed.ck = Chain2
  BY <1>2, <1>3 DEF Walk!MixedSecret, Walk!HashedPoint, Walk!Ecdh, Chain2
<1>5. Append(Append(Hash1, "re"), "tag") = Hash2
  <2>1. Hash1 \in Seq(Walk!HashItem) /\ {"re", "tag"} \subseteq Walk!HashItem
    BY Literals DEF Walk!Hash, Walk!HashItem, Walk!Pub
  <2> QED
    BY <2>1, ConcatTwo DEF Hash2
<1>6. mixed.h \o <<"tag", "static">> = Hash3
  <2>1. Append(Hash1, "re") \in Seq(Walk!HashItem)
        /\ {"static", "tag"} \subseteq Walk!HashItem
    <3>1. Hash1 \in Seq(Walk!HashItem)
      BY Literals DEF Walk!Hash
    <3>2. {"re", "static", "tag"} \subseteq Walk!HashItem
      BY DEF Walk!HashItem, Walk!Pub
    <3> QED
      BY <3>1, <3>2
  <2> QED
    BY <1>4, <1>5, <2>1, ConcatTwo DEF Hash3
<1> HIDE DEF mixed
<1>7. Walk!AfterAct3(act1, act2) =
        [h |-> Hash3, ck |-> Chain3,
         sk |-> [ck |-> Chain3, half |-> "first"],
         rk |-> [ck |-> Chain3, half |-> "second"]]
  BY <1>3, <1>4, <1>6
     DEF mixed, Walk!AfterAct3, Walk!Ecdh, Walk!SplitKey, Chain3
<1>8. Walk!Act3Message(act1, act2) =
        [c |-> [ck |-> Chain2, h |-> Hash2], t |-> [ck |-> Chain3, h |-> Hash3]]
  BY <1>3, <1>4, <1>5
     DEF mixed, Walk!Act3Message, Walk!Ecdh, Chain3, Hash3
<1>9. Done => /\ Walk!Tag8(handshakeMessage[2]) = [ck |-> Chain2, h |-> Hash2]
              /\ Walk!Tag8(handshakeMessage[3]) = [ck |-> Chain3, h |-> Hash3]
  BY DEF Done, Walk!Tag8, Secret
<1>10. CASE pc = "act1"
  BY <1>1, <1>10 DEF start, WalkInv, AtAct1, Walk!HandshakeAgrees
<1>11. CASE pc = "act2"
  BY <1>2, <1>11 DEF start, act1, WalkInv, AtAct2, Walk!HandshakeAgrees
<1>12. CASE pc = "act3"
  <2>1. h = Append(mixed.h, "tag") /\ ck = mixed.ck
    BY <1>4, <1>5, <1>12 DEF WalkInv, AtAct3
  <2> QED
    BY <1>12, <2>1 DEF start, act1, act2, mixed, Walk!HandshakeAgrees
<1>13. CASE pc \in {"msg0", "loop"}
  <2>1. Done
    BY <1>13 DEF WalkInv
  <2>2. [h |-> h, ck |-> ck, sk |-> sk, rk |-> rk] =
          Walk!AfterAct3(act1, act2)
    BY <1>7, <2>1 DEF Done
  <2>3. [c |-> Walk!Tag8(handshakeMessage[2]),
         t |-> Walk!Tag8(handshakeMessage[3])] = Walk!Act3Message(act1, act2)
    BY <1>8, <1>9, <2>1
  <2> QED
    BY <1>13, <2>2, <2>3 DEF start, act1, act2, Walk!HandshakeAgrees
<1> QED
  BY <1>10, <1>11, <1>12, <1>13 DEF WalkInv

LEMMA InvOnTime == WalkInv => Walk!RotationsOnTime
<1> SUFFICES ASSUME WalkInv,
                    NEW j \in {Len(ciphertexts) - 1, Len(ciphertexts)}, j > 4
             PROVE  /\ ciphertexts[j][1].gen = (j - 5) \div Rotate
                    /\ ciphertexts[j][2] = (j - 5) % Rotate
  BY DEF Walk!RotationsOnTime
<1>1. pc \in {"msg0", "loop"}
  <2>1. pc = "act1" => Len(ciphertexts) = 0
    BY DEF WalkInv, AtAct1
  <2>2. pc = "act2" => Len(ciphertexts) = 1
    BY DEF WalkInv, AtAct2
  <2>3. pc = "act3" => Len(ciphertexts) = 2
    BY DEF WalkInv, AtAct3
  <2>4. ASSUME Len(ciphertexts) \in 0..2 PROVE FALSE
    <3>1. Len(ciphertexts) = 0 => FALSE
      OBVIOUS
    <3>2. Len(ciphertexts) = 1 => FALSE
      OBVIOUS
    <3>3. Len(ciphertexts) = 2 => FALSE
      OBVIOUS
    <3> QED
      BY <2>4, <3>1, <3>2, <3>3
  <2> QED
    BY <2>1, <2>2, <2>3, <2>4 DEF WalkInv
<1>2. SealedUpTo(ciphertexts, st)
  BY <1>1 DEF WalkInv
<1>3. j \in 5..Len(ciphertexts)
  <2>1. PICK S : ciphertexts \in Seq(S)
    BY <1>2 DEF SealedUpTo
  <2> QED
    BY <2>1
<1>4. PICK k \in Walk!T!Key : ciphertexts[j] = <<k, (j - 5) % Rotate>>
                              /\ k.gen = (j - 5) \div Rotate
  BY <1>2, <1>3 DEF SealedUpTo
<1> QED
  BY <1>4

(* The keys of the handshake are pairs of a chaining key and a half, those *)
(* of the messages have a generation; the first are told apart by the      *)
(* length of the chaining key.                                             *)
LEMMA HandshakeKeys ==
  /\ Secret(Chain1) # Secret(Chain2) /\ Secret(Chain1) # Secret(Chain3)
  /\ Secret(Chain2) # Secret(Chain3)
  /\ \A k \in Walk!T!Key : \A c : k # Secret(c)
<1>1. Len(Chain1) = 1 /\ Len(Chain2) = 2 /\ Len(Chain3) = 3
  <2>1. Len(Chain1) = 1 /\ Chain1 \in Walk!Chain
    BY Literals DEF Chain1
  <2>2. ASSUME NEW c \in Walk!Chain, NEW a PROVE Len(Append(c, a)) = Len(c) + 1
    <3>1. c \in Seq(SUBSET Walk!Pub \cup {a})
      BY DEF Walk!Chain
    <3> QED
      BY <3>1
  <2>3. Chain2 \in Walk!Chain
    BY Literals
  <2>4. Len(Chain2) = Len(Chain1) + 1 /\ Len(Chain3) = Len(Chain2) + 1
    BY <2>1, <2>2, <2>3 DEF Chain2, Chain3
  <2> QED
    BY <2>1, <2>4
<1>2. /\ Secret(Chain1).ck = Chain1 /\ Secret(Chain2).ck = Chain2
      /\ Secret(Chain3).ck = Chain3
  BY DEF Secret
<1>3. Chain1 # Chain2 /\ Chain1 # Chain3 /\ Chain2 # Chain3
  BY <1>1
<1>4. ASSUME NEW k \in Walk!T!Key, NEW c PROVE k # Secret(c)
  <2>1. "gen" \in DOMAIN k
    BY DEF Walk!T!Key
  <2>2. DOMAIN Secret(c) = {"ck", "half"}
    BY DEF Secret
  <2> QED
    BY <2>1, <2>2
<1> QED
  BY <1>2, <1>3, <1>4

(* No two ciphertexts share their key and nonce.                           *)
LEMMA AllDifferent ==
  ASSUME NEW w, NEW s, SealedUpTo(w, s),
         NEW a \in 1..Len(w), NEW b \in 1..Len(w), a < b
  PROVE  w[a] # w[b]
<1>1. PICK S : w \in Seq(S)
  BY DEF SealedUpTo
<1>2. Len(w) \in Nat /\ a \in Nat /\ b \in Nat
  BY <1>1
<1>3. w[1] = Seal1 /\ w[2] = Seal2 /\ w[3] = Seal3 /\ w[4] = Seal4
  BY DEF SealedUpTo
<1>4. CASE b <= 4
  <2>1. /\ Seal1 # Seal2 /\ Seal1 # Seal3 /\ Seal1 # Seal4
        /\ Seal2 # Seal3 /\ Seal2 # Seal4 /\ Seal3 # Seal4
    BY HandshakeKeys DEF Seal1, Seal2, Seal3, Seal4
  <2>2. \/ a = 1 /\ b \in {2, 3, 4}
        \/ a = 2 /\ b \in {3, 4}
        \/ a = 3 /\ b = 4
    BY <1>2, <1>4
  <2> QED
    BY <1>3, <2>1, <2>2
<1>5. CASE b > 4
  <2>1. b \in 5..Len(w)
    BY <1>2, <1>5
  <2>2. PICK k \in Walk!T!Key :
          w[b] = <<k, (b - 5) % Rotate>> /\ k.gen = (b - 5) \div Rotate
    BY <2>1 DEF SealedUpTo
  <2>3. CASE a <= 4
    <3>1. w[a] \in {Seal1, Seal2, Seal3, Seal4}
      <4>1. a = 1 \/ a = 2 \/ a = 3 \/ a = 4
        BY <1>2, <2>3
      <4> QED
        BY <1>3, <4>1
    <3>2. w[b][1] = k
      BY <2>2
    <3> QED
      BY <3>1, <3>2, HandshakeKeys DEF Seal1, Seal2, Seal3, Seal4
  <2>4. CASE a > 4
    <3>1. a \in 5..Len(w)
      BY <1>2, <2>4
    <3>2. PICK l \in Walk!T!Key :
            w[a] = <<l, (a - 5) % Rotate>> /\ l.gen = (a - 5) \div Rotate
      BY <3>1 DEF SealedUpTo
    <3> DEFINE x == a - 5  y == b - 5
    <3>3. x \in Nat /\ y \in Nat /\ x < y /\ Rotate \in Nat \ {0}
      BY <1>2, <1>5, <2>4, WalkAssumption
    <3> HIDE DEF x, y
    <3>4. ASSUME x \div Rotate = y \div Rotate, x % Rotate = y % Rotate
          PROVE  FALSE
      <4>1. x = Rotate * (x \div Rotate) + (x % Rotate)
            /\ y = Rotate * (y \div Rotate) + (y % Rotate)
        BY <3>3, DivMod
      <4> QED
        BY <3>3, <3>4, <4>1
    <3>5. w[a] = w[b] => l = k /\ x % Rotate = y % Rotate
      BY <2>2, <3>2 DEF x, y
    <3> QED
      BY <2>2, <3>2, <3>4, <3>5 DEF x, y
  <2> QED
    BY <1>2, <2>3, <2>4
<1> QED
  BY <1>2, <1>4, <1>5

LEMMA Counted ==
  ASSUME NEW w, NEW n \in Nat, Len(w) = n,
         \A a, b \in 1..n : a < b => w[a] # w[b]
  PROVE  Cardinality({w[j] : j \in 1..n}) = n
<1> DEFINE T == {w[j] : j \in 1..n}
           f == [j \in 1..n |-> w[j]]
<1>1. f \in Surjection(1..n, T)
  BY DEF Surjection
<1>2. \A a, b \in 1..n : f[a] = f[b] => a = b
  <2> SUFFICES ASSUME NEW a \in 1..n, NEW b \in 1..n, w[a] = w[b]
               PROVE  a = b
    OBVIOUS
  <2>1. ~(a < b) /\ ~(b < a)
    OBVIOUS
  <2> QED
    BY <2>1
<1>3. f \in Injection(1..n, T)
  BY <1>2 DEF Injection, IsInjective
<1>4. IsFiniteSet(1..n) /\ Cardinality(1..n) = n
  <2>1. 1 \in Int /\ n \in Int
    OBVIOUS
  <2> QED
    BY <2>1, FS_Interval
<1> HIDE DEF T, f
<1>5. Cardinality(T) = n
  BY <1>1, <1>3, <1>4, FS_Surjection
<1> QED
  BY <1>5 DEF T

LEMMA SameCardinality ==
  ASSUME NEW S
  PROVE  Walk!Cardinality(S) = Cardinality(S)
BY DEF Walk!Cardinality, Cardinality

LEMMA Distinct ==
  ASSUME NEW n \in Nat, Len(ciphertexts) = n,
         \A a, b \in 1..n : a < b => ciphertexts[a] # ciphertexts[b]
  PROVE  Walk!NonceOnce
<1> DEFINE w == ciphertexts
<1>1. Len(w) = n /\ \A a, b \in 1..n : a < b => w[a] # w[b]
  OBVIOUS
<1> HIDE DEF w
<1>2. Cardinality({w[j] : j \in 1..n}) = n
  BY <1>1, Counted, Zenon
<1>3. Walk!Cardinality({w[j] : j \in 1..n}) = n
  BY <1>2, SameCardinality, Zenon
<1>4. n = Len(w)
  BY <1>1
<1>5. Walk!Cardinality({w[j] : j \in 1..Len(w)}) = Len(w)
  BY <1>3, <1>4, Zenon
<1> QED
  BY <1>5, Zenon DEF w, Walk!NonceOnce

LEMMA InvOnce == WalkInv => Walk!NonceOnce
<1> SUFFICES ASSUME WalkInv PROVE Walk!NonceOnce
  OBVIOUS
<1>1. CASE pc \in {"msg0", "loop"}
  <2>1. SealedUpTo(ciphertexts, st)
    BY <1>1 DEF WalkInv
  <2>2. Len(ciphertexts) \in Nat
    BY <2>1 DEF SealedUpTo
  <2>3. \A a, b \in 1..Len(ciphertexts) :
          a < b => ciphertexts[a] # ciphertexts[b]
    BY <2>1, AllDifferent
  <2> QED
    BY <2>2, <2>3, Distinct
<1>2. CASE pc = "act1"
  <2>1. Len(ciphertexts) = 0
    BY <1>2 DEF WalkInv, AtAct1
  <2>2. \A a, b \in 1..0 : a < b => ciphertexts[a] # ciphertexts[b]
    OBVIOUS
  <2> QED
    BY <2>1, <2>2, Distinct
<1>3. CASE pc = "act2"
  <2>1. Len(ciphertexts) = 1
    BY <1>3 DEF WalkInv, AtAct2
  <2>2. \A a, b \in 1..1 : a < b => ciphertexts[a] # ciphertexts[b]
    OBVIOUS
  <2> QED
    BY <2>1, <2>2, Distinct
<1>4. CASE pc = "act3"
  <2>1. Len(ciphertexts) = 2 /\ ciphertexts[1] = Seal1
        /\ ciphertexts[2] = Seal2
    BY <1>4, AppendTwo DEF WalkInv, AtAct3
  <2>2. Seal1 # Seal2
    BY HandshakeKeys DEF Seal1, Seal2
  <2>3. \A a, b \in 1..2 : a < b => ciphertexts[a] # ciphertexts[b]
    <3>1. \A a, b \in 1..2 : a < b => a = 1 /\ b = 2
      OBVIOUS
    <3> QED
      BY <2>1, <2>2, <3>1
  <2> QED
    BY <2>1, <2>3, Distinct
<1> QED
  BY <1>1, <1>2, <1>3, <1>4 DEF WalkInv

(* At every act the walk-through has the hash and keys of NoiseState, no   *)
(* key seals twice with one nonce, and the keys change with every ROTATE   *)
(* ciphertexts, for every ROTATE above two and any number of messages.     *)
THEOREM HandshakeAgreement == SpecAny => []HandshakeAgrees
<1>1. WalkInv => HandshakeAgrees
  BY InvTypes, InvAgrees, InvOnTime, InvOnce DEF HandshakeAgrees
<1> QED
  BY <1>1, WalkInvariant, PTL

(* A message leaves the script with the key, chaining key and nonce that   *)
(* NoiseState.encryptMessage leaves, message 0 included.                   *)
LEMMA MessageStep ==
  ASSUME WalkInv, [NextAny]_<<vars, messagesVars, walkVars, program>>,
         st' # st
  PROVE  st' = Walk!Encrypted(Walk!Encrypted(st))
<1>1. CASE Walk!SendMessage0
  <2> DEFINE s1 == Walk!AfterEncrypt(st)
  <2>1. pc = "msg0" /\ st' = [st EXCEPT !.sn = @ + 2]
    BY <1>1 DEF Walk!SendMessage0
  <2>2. st = Walk!T!InitCipher("client")
    BY <2>1 DEF WalkInv, Started
  <2>3. Walk!AfterEncrypt(s1) = st' /\ s1.sn = 1
    BY <2>1, <2>2, FirstMessage, InitCipherType
  <2>4. /\ s1 \in Walk!T!CipherState /\ s1 = Walk!Encrypted(st)
    BY <2>2, InitCipherType, AfterEncryptType, WalkAssumption
  <2> HIDE DEF s1
  <2>5. st' = Walk!Encrypted(s1)
    BY <2>3, <2>4, AfterEncryptType, WalkAssumption
  <2> QED
    BY <2>4, <2>5
<1>2. CASE Walk!SendMessage
  <2> DEFINE s1 == Walk!AfterEncrypt(st)
  <2>1. pc = "loop" /\ st' = Walk!AfterEncrypt(s1)
    BY <1>2 DEF Walk!SendMessage
  <2>2. SealedUpTo(ciphertexts, st)
    BY <2>1 DEF WalkInv
  <2>3. st \in Walk!T!CipherState /\ st.sn < Rotate
    BY InvTypes DEF Walk!TypeOK
  <2>4. s1 = Walk!Encrypted(st)
    BY <2>3, AfterEncryptType
  <2>5. s1 \in Walk!T!CipherState /\ s1.sn < Rotate
    <3>1. SealedUpTo(Append(ciphertexts, <<st.sk, st.sn>>), s1)
      BY <2>2, SealOne
    <3> DEFINE w == Append(ciphertexts, <<st.sk, st.sn>>)
    <3> HIDE DEF s1, w
    <3>2. /\ s1 \in Walk!T!CipherState /\ s1.sn = (Len(w) - 4) % Rotate
          /\ Len(w) >= 4 /\ \E S : w \in Seq(S)
      BY <3>1 DEF SealedUpTo, w
    <3>3. Len(w) - 4 \in Nat /\ Rotate \in Nat \ {0}
      BY <3>2, WalkAssumption
    <3> QED
      BY <3>2, <3>3, DivMod
  <2> HIDE DEF s1
  <2>6. st' = Walk!Encrypted(s1)
    BY <2>1, <2>5, AfterEncryptType
  <2> QED
    BY <2>4, <2>6
<1>3. st' = st \/ Walk!SendMessage0 \/ Walk!SendMessage
  BY DEF NextAny, walkVars, Walk!Next, Walk!Act1Step, Walk!Act2Step,
         Walk!Act3Step
<1> QED
  BY <1>1, <1>2, <1>3

(* The same, of every step of a behaviour.                                 *)
THEOREM MessageAgreement == SpecAny => MessageAgrees
<1>1. WalkInv /\ [NextAny]_<<vars, messagesVars, walkVars, program>> =>
        [st' # st => st' = Walk!Encrypted(Walk!Encrypted(st))]_walkVars
  BY MessageStep
<1>2. SpecAny => [][NextAny]_<<vars, messagesVars, walkVars, program>>
  BY DEF SpecAny
<1>3. SpecAny =>
        [][st' # st => st' = Walk!Encrypted(Walk!Encrypted(st))]_walkVars
  BY <1>1, <1>2, WalkInvariant, PTL
<1> QED
  BY <1>3 DEF MessageAgrees, Walk!MessageAgrees, Walk!vars, walkVars

(***************************************************************************)
(* The messages: lists of bytes, with no set for their bytes.              *)
(***************************************************************************)
IsList(s) == Len(s) \in Nat /\ s = [j \in 1..Len(s) |-> s[j]]

LEMMA ListIsSeq ==
  ASSUME NEW s, IsList(s)
  PROVE  s \in Seq({s[j] : j \in 1..Len(s)})
<1> DEFINE n == Len(s)  S == {s[j] : j \in 1..n}
<1>1. n \in Nat /\ s = [j \in 1..n |-> s[j]]
  BY DEF IsList
<1>2. \A j \in 1..n : s[j] \in S
  OBVIOUS
<1> HIDE DEF n, S
<1>3. s \in [1..n -> S]
  BY <1>1, <1>2
<1>4. s \in Seq(S)
  BY <1>1, <1>3
<1> QED
  BY <1>4 DEF n, S

LEMMA SeqIsList ==
  ASSUME NEW S, NEW s \in Seq(S)
  PROVE  IsList(s)
BY DEF IsList

LEMMA Same ==
  ASSUME NEW a, IsList(a), NEW b, IsList(b), Len(a) = Len(b),
         \A j \in 1..Len(a) : a[j] = b[j]
  PROVE  a = b
BY DEF IsList

LEMMA Joined ==
  ASSUME NEW a, IsList(a), NEW b, IsList(b)
  PROVE  /\ IsList(a \o b) /\ Len(a \o b) = Len(a) + Len(b)
         /\ \A j \in 1..Len(a) : (a \o b)[j] = a[j]
         /\ \A j \in 1..Len(b) : (a \o b)[Len(a) + j] = b[j]
<1> DEFINE S == {a[j] : j \in 1..Len(a)} \cup {b[j] : j \in 1..Len(b)}
<1>1. a \in Seq(S) /\ b \in Seq(S)
  <2>1. a \in Seq({a[j] : j \in 1..Len(a)}) /\ b \in Seq({b[j] : j \in 1..Len(b)})
    BY ListIsSeq
  <2> QED
    BY <2>1
<1> HIDE DEF S
<1>2. a \o b \in Seq(S) /\ Len(a \o b) = Len(a) + Len(b)
  BY <1>1
<1>3. IsList(a \o b)
  BY <1>2, SeqIsList
<1>4. Len(a) \in Nat /\ Len(b) \in Nat
  BY <1>1
<1> QED
  BY <1>1, <1>2, <1>3, <1>4

LEMMA Cut ==
  ASSUME NEW s, IsList(s), NEW m \in Nat, NEW n \in Nat, m >= 1, m <= n + 1, n <= Len(s)
  PROVE  /\ IsList(SubSeq(s, m, n)) /\ Len(SubSeq(s, m, n)) = n - m + 1
         /\ \A j \in 1..n - m + 1 : SubSeq(s, m, n)[j] = s[m + j - 1]
<1> DEFINE S == {s[j] : j \in 1..Len(s)}
<1>1. s \in Seq(S)
  BY ListIsSeq
<1> HIDE DEF S
<1>2. SubSeq(s, m, n) \in Seq(S)
  BY <1>1
<1>3. IsList(SubSeq(s, m, n))
  BY <1>2, SeqIsList
<1> QED
  BY <1>1, <1>3

(* The parts of two lists joined.                                          *)

LEMMA JoinTwice ==
  \A a, b, c : IsList(a) /\ IsList(b) /\ IsList(c) => (a \o b) \o c = a \o (b \o c)
<1> SUFFICES ASSUME NEW a, IsList(a), NEW b, IsList(b), NEW c, IsList(c)
             PROVE  (a \o b) \o c = a \o (b \o c)
  OBVIOUS
<1> DEFINE S == {a[j] : j \in 1..Len(a)} \cup {b[j] : j \in 1..Len(b)}
                  \cup {c[j] : j \in 1..Len(c)}
<1>1. a \in Seq(S) /\ b \in Seq(S) /\ c \in Seq(S)
  <2>1. /\ a \in Seq({a[j] : j \in 1..Len(a)}) /\ b \in Seq({b[j] : j \in 1..Len(b)})
        /\ c \in Seq({c[j] : j \in 1..Len(c)})
    BY ListIsSeq
  <2> QED
    BY <2>1
<1> HIDE DEF S
<1> QED
  BY <1>1, ConcatAssociative

Grouped(a, b, c) == (a \o b) \o c = a \o (b \o c)

LEMMA Regroup ==
  ASSUME NEW a, IsList(a), NEW b, IsList(b), NEW c, IsList(c)
  PROVE  Grouped(a, b, c)
BY JoinTwice DEF Grouped

LEMMA Lengthened ==
  ASSUME NEW a, IsList(a), NEW u
  PROVE  /\ IsList(Append(a, u)) /\ Len(Append(a, u)) = Len(a) + 1
         /\ \A j \in 1..Len(a) : Append(a, u)[j] = a[j]
         /\ Append(a, u)[Len(a) + 1] = u
<1> DEFINE S == {a[j] : j \in 1..Len(a)} \cup {u}
<1>1. a \in Seq(S) /\ u \in S
  <2>1. a \in Seq({a[j] : j \in 1..Len(a)})
    BY ListIsSeq
  <2> QED
    BY <2>1
<1> HIDE DEF S
<1>2. Append(a, u) \in Seq(S)
  BY <1>1
<1>3. IsList(Append(a, u))
  BY <1>2, SeqIsList
<1> QED
  BY <1>1, <1>3

(* One list begins another.                                                *)
Begins(a, b) ==
  /\ IsList(a) /\ IsList(b) /\ Len(a) <= Len(b)
  /\ \A j \in 1..Len(a) : b[j] = a[j]

LEMMA BeginsSelf ==
  ASSUME NEW a, IsList(a)
  PROVE  Begins(a, a)
BY DEF Begins, IsList

LEMMA BeginsJoin ==
  ASSUME NEW a, IsList(a), NEW b, IsList(b)
  PROVE  Begins(a, a \o b)
<1>1. /\ IsList(a \o b) /\ Len(a \o b) = Len(a) + Len(b)
      /\ \A j \in 1..Len(a) : (a \o b)[j] = a[j]
  BY Joined
<1>2. Len(a) \in Nat /\ Len(b) \in Nat
  BY DEF IsList
<1> QED
  BY <1>1, <1>2 DEF Begins

LEMMA BeginsTwice ==
  ASSUME NEW a, NEW b, NEW c, Begins(a, b), Begins(b, c)
  PROVE  Begins(a, c)
<1>1. Len(a) \in Nat /\ Len(b) \in Nat /\ Len(c) \in Nat
  BY DEF Begins, IsList
<1>2. \A j \in 1..Len(a) : j \in 1..Len(b)
  BY <1>1 DEF Begins
<1> QED
  BY <1>1, <1>2 DEF Begins

(* The first n bytes of a list; all of them when n is its length.          *)
LEMMA FirstBegins ==
  ASSUME NEW s, IsList(s), NEW n \in Nat, n <= Len(s)
  PROVE  /\ Begins(SubSeq(s, 1, n), s) /\ Len(SubSeq(s, 1, n)) = n
<1> DEFINE t == SubSeq(s, 1, n)
<1>1. /\ IsList(t) /\ Len(t) = n - 1 + 1
      /\ \A j \in 1..n - 1 + 1 : t[j] = s[1 + j - 1]
  BY Cut
<1> HIDE DEF t
<1>2. Len(t) = n /\ \A j \in 1..n : t[j] = s[j]
  BY <1>1
<1>3. Begins(t, s) /\ Len(t) = n
  BY <1>1, <1>2 DEF Begins
<1> QED
  BY <1>3 DEF t

(***************************************************************************)
(* A list of lists, put together one after the other: what is there after  *)
(* each of them.                                                           *)
(***************************************************************************)
AllLists(U) == IsList(U) /\ \A k \in 1..Len(U) : IsList(U[k])

LEMMA ListOfLists ==
  ASSUME NEW U, AllLists(U)
  PROVE  \E S : U \in Seq(Seq(S))
<1> DEFINE S == UNION {{U[k][j] : j \in 1..Len(U[k])} : k \in 1..Len(U)}
<1>1. ASSUME NEW k \in 1..Len(U)
      PROVE  U[k] \in Seq(S)
  <2> DEFINE R == {U[k][j] : j \in 1..Len(U[k])}
  <2>1. U[k] \in Seq(R)
    BY ListIsSeq DEF AllLists
  <2>2. R \subseteq S
    OBVIOUS
  <2> HIDE DEF R, S
  <2> QED
    BY <2>1, <2>2
<1> HIDE DEF S
<1>2. Len(U) \in Nat /\ U = [k \in 1..Len(U) |-> U[k]]
  BY DEF AllLists, IsList
<1>3. U \in [1..Len(U) -> Seq(S)]
  BY <1>1, <1>2
<1>4. U \in Seq(Seq(S))
  BY <1>2, <1>3
<1> QED
  BY <1>4

LEMMA FlattenOne ==
  ASSUME NEW U, AllLists(U), NEW x, IsList(x)
  PROVE  /\ IsList(FlattenSeq(U))
         /\ FlattenSeq(Append(U, x)) = FlattenSeq(U) \o x
         /\ Len(FlattenSeq(Append(U, x))) = Len(FlattenSeq(U)) + Len(x)
         /\ AllLists(Append(U, x))
<1>1. PICK S : U \in Seq(Seq(S))
  BY ListOfLists
<1> DEFINE R == S \cup {x[j] : j \in 1..Len(x)}
<1>2. x \in Seq(R)
  <2>1. x \in Seq({x[j] : j \in 1..Len(x)})
    BY ListIsSeq
  <2> QED
    BY <2>1
<1>3. U \in Seq(Seq(R))
  <2>1. S \subseteq R
    OBVIOUS
  <2> HIDE DEF R
  <2>2. \A k \in 1..Len(U) : U[k] \in Seq(R)
    BY <1>1, <2>1
  <2> QED
    BY <1>1, <2>2
<1> HIDE DEF R
<1>4. FlattenSeq(U) \in Seq(R) /\ FlattenSeq(Append(U, x)) = FlattenSeq(U) \o x
  BY <1>2, <1>3, FlattenType, FlattenAppend
<1>5. IsList(FlattenSeq(U))
  BY <1>4, SeqIsList
<1>6. AllLists(Append(U, x))
  <2> DEFINE V == Append(U, x)
  <2>1. /\ IsList(V) /\ Len(V) = Len(U) + 1 /\ \A j \in 1..Len(U) : V[j] = U[j]
        /\ V[Len(U) + 1] = x
    BY Lengthened DEF AllLists
  <2>2. Len(U) \in Nat
    BY DEF AllLists, IsList
  <2> HIDE DEF V
  <2>3. \A k \in 1..Len(V) : k \in 1..Len(U) \/ k = Len(U) + 1
    BY <2>1, <2>2
  <2>4. AllLists(V)
    BY <2>1, <2>3 DEF AllLists
  <2> QED
    BY <2>4 DEF V
<1>7. Len(FlattenSeq(U) \o x) = Len(FlattenSeq(U)) + Len(x)
  BY <1>5, Joined
<1> QED
  BY <1>4, <1>5, <1>6, <1>7

IsFronts(front, U) ==
  /\ front[0] = <<>>
  /\ \A k \in 1..Len(U) : front[k] = front[k - 1] \o U[k]
  /\ front[Len(U)] = FlattenSeq(U)
  /\ \A k \in 0..Len(U) :
        /\ Begins(front[k], FlattenSeq(U))
        /\ IsList(front[k]) /\ Len(front[k]) \in Nat
  /\ \A k \in 1..Len(U) : Len(front[k]) = Len(front[k - 1]) + Len(U[k])
  /\ IsList(FlattenSeq(U)) /\ Len(FlattenSeq(U)) \in Nat

LEMMA Fronts ==
  ASSUME NEW U, AllLists(U)
  PROVE  \E front : IsFronts(front, U)
<1> DEFINE n == Len(U)
           front == [k \in 0..n |-> FlattenSeq(SubSeq(U, 1, k))]
<1>1. n \in Nat /\ IsList(U)
  BY DEF AllLists, IsList
<1>2. ASSUME NEW k \in 0..n
      PROVE  AllLists(SubSeq(U, 1, k)) /\ Len(SubSeq(U, 1, k)) = k
             /\ IsList(front[k]) /\ Len(front[k]) \in Nat
  <2> DEFINE V == SubSeq(U, 1, k)
  <2>1. Begins(V, U) /\ Len(V) = k
    BY <1>1, FirstBegins
  <2>0. front[k] = FlattenSeq(V)
    OBVIOUS
  <2> HIDE DEF V, front
  <2>2. AllLists(V)
    <3>1. \A j \in 1..Len(V) : j \in 1..Len(U)
      BY <1>1, <2>1
    <3> QED
      BY <2>1, <3>1 DEF AllLists, Begins
  <2>3. IsList(FlattenSeq(V))
    <3>1. IsList(<<>>)
      BY DEF IsList
    <3> QED
      BY <2>2, <3>1, FlattenOne
  <2> QED
    BY <2>0, <2>1, <2>2, <2>3 DEF V, IsList
<1>3. ASSUME NEW k \in 1..n
      PROVE  front[k] = front[k - 1] \o U[k]
             /\ Len(front[k]) = Len(front[k - 1]) + Len(U[k])
  <2> DEFINE V == SubSeq(U, 1, k - 1)  W == SubSeq(U, 1, k)  X == Append(V, U[k])
  <2>1. k - 1 \in 0..n /\ k \in 0..n
    BY <1>1
  <2>0. front[k] = FlattenSeq(W) /\ front[k - 1] = FlattenSeq(V)
    BY <2>1
  <2>2. /\ AllLists(V) /\ Len(V) = k - 1
        /\ AllLists(W) /\ Len(W) = k
    BY <1>2, <2>1
  <2>3. /\ \A j \in 1..Len(V) : V[j] = U[j]
        /\ \A j \in 1..Len(W) : W[j] = U[j]
    BY <1>1, <2>1, FirstBegins DEF Begins
  <2> HIDE DEF V, W, front
  <2>4. /\ IsList(X) /\ Len(X) = Len(V) + 1 /\ \A j \in 1..Len(V) : X[j] = V[j]
        /\ X[Len(V) + 1] = U[k]
    BY <2>2, Lengthened DEF AllLists
  <2>5. IsList(W)
    BY <2>2 DEF AllLists
  <2> HIDE DEF X
  <2>6. Len(X) = Len(W) /\ \A j \in 1..Len(X) : X[j] = W[j]
    <3>1. Len(X) = k /\ Len(V) + 1 = k
      BY <1>1, <2>2, <2>4
    <3>2. ASSUME NEW j \in 1..Len(X) PROVE X[j] = W[j]
      <4>1. CASE j = k
        BY <2>2, <2>3, <2>4, <3>1, <4>1
      <4>2. CASE j # k
        <5>1. j \in 1..Len(V) /\ j \in 1..Len(W)
          BY <1>1, <2>2, <3>1, <4>2
        <5> QED
          BY <2>3, <2>4, <5>1
      <4> QED
        BY <4>1, <4>2
    <3> QED
      BY <2>2, <3>1, <3>2
  <2>7. X = W
    BY <2>4, <2>5, <2>6, Same
  <2>8. IsList(U[k])
    BY DEF AllLists
  <2>9. FlattenSeq(X) = FlattenSeq(V) \o U[k]
        /\ Len(FlattenSeq(X)) = Len(FlattenSeq(V)) + Len(U[k])
    BY <2>2, <2>8, FlattenOne DEF X
  <2> QED
    BY <2>0, <2>7, <2>9
<1>4. front[0] = <<>>
  <2>1. SubSeq(U, 1, 0) = <<>>
    BY SubSeqEmpty
  <2>2. front[0] = FlattenSeq(SubSeq(U, 1, 0))
    BY <1>1
  <2> QED
    BY <2>1, <2>2, FlattenEmpty
<1>5. front[n] = FlattenSeq(U)
  <2>1. Begins(SubSeq(U, 1, n), U) /\ Len(SubSeq(U, 1, n)) = n
    BY <1>1, FirstBegins
  <2>2. SubSeq(U, 1, n) = U
    BY <1>1, <2>1, Same DEF Begins
  <2>3. front[n] = FlattenSeq(SubSeq(U, 1, n))
    BY <1>1
  <2> QED
    BY <2>2, <2>3
<1> HIDE DEF front
<1> DEFINE T == {i \in Nat : i <= n => Begins(front[n - i], front[n])}
<1>6. 0 \in T
  <2>1. n - 0 = n /\ n \in 0..n
    BY <1>1
  <2> QED
    BY <1>2, <2>1, BeginsSelf
<1>7. ASSUME NEW i \in Nat, i \in T PROVE i + 1 \in T
  <2> SUFFICES ASSUME i + 1 <= n PROVE Begins(front[n - (i + 1)], front[n])
    OBVIOUS
  <2> DEFINE k == n - i
  <2>1. k \in 1..n /\ k - 1 \in 0..n /\ n - (i + 1) = k - 1 /\ i <= n
    BY <1>1
  <2>2. Begins(front[k], front[n])
    BY <1>7, <2>1
  <2> HIDE DEF k
  <2>3. front[k] = front[k - 1] \o U[k] /\ IsList(U[k]) /\ IsList(front[k - 1])
    BY <1>2, <1>3, <2>1 DEF AllLists
  <2>4. Begins(front[k - 1], front[k])
    BY <2>3, BeginsJoin
  <2> QED
    BY <2>1, <2>2, <2>4, BeginsTwice
<1>8. \A k \in 0..n : Begins(front[k], front[n])
  <2> HIDE DEF T
  <2>1. Nat \subseteq T
    BY <1>6, <1>7, Induct
  <2>2. ASSUME NEW k \in 0..n PROVE Begins(front[k], front[n])
    <3> DEFINE i == n - k
    <3>1. i \in Nat /\ i <= n /\ n - i = k
      BY <1>1
    <3> HIDE DEF i
    <3>2. i \in T
      BY <2>1, <3>1
    <3> QED
      BY <3>1, <3>2 DEF T
  <2> QED
    BY <2>2
<1>9. IsList(front[n]) /\ Len(front[n]) \in Nat
  BY <1>1, <1>2
<1>10. IsFronts(front, U)
  BY <1>2, <1>3, <1>4, <1>5, <1>8, <1>9 DEF IsFronts
<1> QED
  BY <1>10

(***************************************************************************)
(* The reader, at a position of a payload that may lack its end.           *)
(***************************************************************************)
FieldSize(fs) == Len(FlattenSeq([j \in DOMAIN fs |-> fs[j][2]]))
GoodFields(fs) == IsList(fs) /\ \A j \in 1..Len(fs) : IsList(fs[j][2])
At(o, p, fs) == [ok |-> TRUE, pos |-> o, buffer |-> p, fields |-> fs]
Failed(r) == "ok" \in DOMAIN r /\ r.ok = FALSE

LEMMA NoFields == GoodFields(<<>>) /\ FieldSize(<<>>) = 0
<1>1. [j \in DOMAIN <<>> |-> <<>>[j][2]] = <<>>
  OBVIOUS
<1>2. IsList(<<>>) /\ Len(<<>>) = 0
  BY DEF IsList
<1>3. FieldSize(<<>>) = Len(FlattenSeq(<<>>))
  BY <1>1 DEF FieldSize
<1> QED
  BY <1>2, <1>3, FlattenEmpty DEF GoodFields

OneMore(fs, gs, name, b) ==
  /\ GoodFields(gs)
  /\ FieldSize(gs) = FieldSize(fs) + Len(b)
  /\ FieldSize(fs) \in Nat
  /\ Begins(fs, gs) /\ Len(gs) = Len(fs) + 1
  /\ gs[Len(gs)] = <<name, b>>

LEMMA OneField ==
  ASSUME NEW fs, GoodFields(fs), NEW name, NEW b, IsList(b)
  PROVE  OneMore(fs, Append(fs, <<name, b>>), name, b)
<1> DEFINE gs == Append(fs, <<name, b>>)  n == Len(fs)
           U == [j \in DOMAIN fs |-> fs[j][2]]
           V == [j \in DOMAIN gs |-> gs[j][2]]
<1>1. n \in Nat /\ IsList(fs) /\ DOMAIN fs = 1..n
  BY DEF GoodFields, IsList
<1>2. /\ IsList(gs) /\ Len(gs) = n + 1 /\ \A j \in 1..n : gs[j] = fs[j]
      /\ gs[n + 1] = <<name, b>>
  BY <1>1, Lengthened
<1> HIDE DEF gs
<1>3. DOMAIN gs = 1..n + 1
  BY <1>2 DEF IsList
<1>4. AllLists(U) /\ Len(U) = n
  <2>1. U = [j \in 1..n |-> fs[j][2]]
    BY <1>1
  <2>2. Len(U) = n
    BY <1>1, <2>1
  <2>3. IsList(U) /\ \A j \in 1..n : IsList(U[j])
    <3>1. \A j \in 1..n : U[j] = fs[j][2]
      BY <2>1
    <3>2. U = [j \in 1..n |-> U[j]]
      BY <2>1, <3>1
    <3> HIDE DEF U
    <3> QED
      BY <1>1, <2>2, <3>1, <3>2 DEF IsList, GoodFields
  <2> HIDE DEF U
  <2> QED
    BY <2>2, <2>3 DEF AllLists
<1>5. V = Append(U, b)
  <2>1. V = [j \in 1..n + 1 |-> gs[j][2]]
    BY <1>3
  <2>2. \A j \in 1..n : U[j] = fs[j][2]
    BY <1>1
  <2> HIDE DEF U
  <2>3. /\ IsList(Append(U, b)) /\ Len(Append(U, b)) = n + 1
        /\ \A j \in 1..n : Append(U, b)[j] = U[j]
        /\ Append(U, b)[n + 1] = b
    BY <1>4, Lengthened DEF AllLists
  <2> DEFINE W == Append(U, b)
  <2> HIDE DEF W
  <2>4. Len(V) = n + 1 /\ \A j \in 1..n + 1 : V[j] = gs[j][2]
    BY <1>1, <2>1
  <2>5. IsList(V)
    BY <1>1, <2>1, <2>4 DEF IsList
  <2> HIDE DEF V
  <2>6. gs[n + 1][2] = b
    BY <1>2
  <2>7. \A j \in 1..n + 1 : V[j] = W[j]
    <3> SUFFICES ASSUME NEW j \in 1..n + 1 PROVE V[j] = W[j]
      OBVIOUS
    <3>1. CASE j = n + 1
      BY <2>3, <2>4, <2>6, <3>1 DEF W
    <3>2. CASE j # n + 1
      <4>1. j \in 1..n
        BY <1>1, <3>2
      <4>2. V[j] = fs[j][2] /\ W[j] = fs[j][2]
        BY <1>2, <2>2, <2>3, <2>4, <4>1 DEF W
      <4> QED
        BY <4>2
    <3> QED
      BY <3>1, <3>2
  <2>8. V = W
    BY <2>3, <2>4, <2>5, <2>7, Same DEF W
  <2> QED
    BY <2>8 DEF W
<1>6. FieldSize(gs) = FieldSize(fs) + Len(b) /\ FieldSize(fs) \in Nat
  <2>1. FieldSize(gs) = Len(FlattenSeq(V)) /\ FieldSize(fs) = Len(FlattenSeq(U))
    BY DEF FieldSize
  <2> HIDE DEF U, V
  <2>2. IsList(FlattenSeq(U)) /\ Len(FlattenSeq(Append(U, b))) = Len(FlattenSeq(U)) + Len(b)
    BY <1>4, FlattenOne
  <2> QED
    BY <1>5, <2>1, <2>2 DEF IsList
<1>7. GoodFields(gs)
  <2>1. gs[n + 1][2] = b
    BY <1>2
  <2>2. \A j \in 1..n + 1 : j \in 1..n \/ j = n + 1
    BY <1>1
  <2> QED
    BY <1>2, <2>1, <2>2 DEF GoodFields
<1>8. Begins(fs, gs)
  BY <1>1, <1>2 DEF Begins
<1> QED
  BY <1>2, <1>6, <1>7, <1>8 DEF gs, OneMore

LEMMA ReadOne ==
  ASSUME NEW o \in Nat, NEW p, Len(p) \in Nat, NEW fs, NEW name, NEW b, NEW n \in Nat
  PROVE  LET r == Messages!Read(At(o, p, fs), name, b, n)
         IN  IF o + n <= Len(p) THEN r = At(o + n, p, Append(fs, <<name, b>>))
                                ELSE Failed(r)
BY DEF Messages!Read, At, Failed

IsPart(s, n, o, all) ==
  IsList(s) /\ Len(s) = n /\ \A j \in 1..n : s[j] = all[o + j]

LEMMA SliceRight ==
  ASSUME NEW p, NEW all, Begins(p, all), NEW o \in Nat, NEW n \in Nat, o + n <= Len(p)
  PROVE  IsPart(Messages!Slice(p, o, o + n), n, o, all)
<1> DEFINE m == o + 1  e == o + n  s == SubSeq(p, m, e)
<1>1. IsList(p) /\ Len(p) \in Nat
  BY DEF Begins, IsList
<1>2. Messages!Slice(p, o, o + n) = s
  <2>1. (IF e < Len(p) THEN e ELSE Len(p)) = e
    BY <1>1
  <2> QED
    BY <2>1 DEF Messages!Slice
<1>3. m \in Nat /\ e \in Nat /\ m >= 1 /\ m <= e + 1 /\ e <= Len(p) /\ e - m + 1 = n
  OBVIOUS
<1>4. \A j \in 1..n : m + j - 1 = o + j /\ o + j \in 1..Len(p)
  BY <1>1
<1> HIDE DEF m, e
<1>5. IsList(s) /\ Len(s) = n /\ \A j \in 1..n : s[j] = p[m + j - 1]
  <2>1. IsList(s) /\ Len(s) = e - m + 1 /\ \A j \in 1..e - m + 1 : s[j] = p[m + j - 1]
    BY <1>1, <1>3, Cut
  <2> QED
    BY <1>3, <2>1
<1> HIDE DEF s
<1>6. \A j \in 1..n : s[j] = all[o + j]
  BY <1>4, <1>5 DEF Begins
<1> QED
  BY <1>2, <1>5, <1>6 DEF IsPart

(* A slice ends where it is told to, and never holds more than that.       *)
LEMMA SliceShort ==
  ASSUME NEW p, IsList(p), NEW o \in Nat, NEW n \in Nat
  PROVE  IsList(Messages!Slice(p, o, n)) /\ Len(Messages!Slice(p, o, n)) <= n
<1> DEFINE m == o + 1  e == IF n < Len(p) THEN n ELSE Len(p)
           s == SubSeq(p, m, e)
<1>1. Len(p) \in Nat /\ e \in Nat /\ e <= Len(p) /\ e <= n /\ m \in Nat /\ m >= 1
      /\ m \in Int /\ e \in Int
  BY DEF IsList
<1>2. Messages!Slice(p, o, n) = s
  BY DEF Messages!Slice
<1> HIDE DEF m, e
<1>3. IsList(s) /\ Len(s) <= n
  <2>1. CASE e < m
    <3>1. s = <<>>
      BY <1>1, <2>1, SubSeqEmpty
    <3>2. IsList(<<>>) /\ Len(<<>>) = 0
      BY DEF IsList
    <3> QED
      BY <3>1, <3>2
  <2>2. CASE ~(e < m)
    <3>1. m <= e + 1
      BY <1>1, <2>2
    <3>2. IsList(s) /\ Len(s) = e - m + 1
      BY <1>1, <3>1, Cut
    <3> QED
      BY <1>1, <3>2
  <2> QED
    BY <2>1, <2>2
<1> QED
  BY <1>2, <1>3

(***************************************************************************)
(* The bytes of an item.                                                   *)
(***************************************************************************)
LEMMA FieldIs ==
  ASSUME NEW name, NEW n \in Nat
  PROVE  /\ IsList(Messages!Field(name, n)) /\ Len(Messages!Field(name, n)) = n
         /\ \A j \in 1..n : Messages!Field(name, n)[j] = <<name, n, j>>
BY DEF Messages!Field, IsList

LEMMA CountIs ==
  ASSUME NEW n
  PROVE  /\ IsList(Messages!Count(n)) /\ Len(Messages!Count(n)) = 2
         /\ Messages!Count(n)[1] = <<"count", n, 1>>
BY DEF Messages!Count, IsList

CountedBytes(name, n) == Messages!Count(n) \o Messages!Field(name, n)

LEMMA CountedIs ==
  ASSUME NEW name, NEW n \in Nat
  PROVE  /\ IsList(CountedBytes(name, n)) /\ Len(CountedBytes(name, n)) = 2 + n
         /\ CountedBytes(name, n)[1] = <<"count", n, 1>>
<1> DEFINE a == Messages!Count(n)  b == Messages!Field(name, n)
<1>1. IsList(a) /\ Len(a) = 2 /\ a[1] = <<"count", n, 1>>
  BY CountIs
<1>2. IsList(b) /\ Len(b) = n
  BY FieldIs
<1> HIDE DEF a, b
<1>3. /\ IsList(a \o b) /\ Len(a \o b) = Len(a) + Len(b)
      /\ \A j \in 1..Len(a) : (a \o b)[j] = a[j]
  <2>1. IsList(a) /\ IsList(b)
    BY <1>1, <1>2
  <2> QED
    BY <2>1, Joined
<1>4. 1 \in 1..Len(a)
  BY <1>1
<1>5. IsList(a \o b) /\ Len(a \o b) = 2 + n /\ (a \o b)[1] = <<"count", n, 1>>
  BY <1>1, <1>2, <1>3, <1>4
<1> QED
  BY <1>5 DEF CountedBytes, a, b

Plain(item) ==
  /\ item[1] \in {"uint", "bytes", "counted"}
  /\ item[2] # "num_pong_bytes"
  /\ item[3] \in Nat

(* What an item of a payload is, for each kind of item.                    *)
LEMMA ItemBytesIs ==
  ASSUME NEW m, m.size \in Nat, m.second \in Nat, NEW item, Plain(item)
  PROVE  /\ item[1] \in {"uint", "bytes"} =>
                Messages!ItemBytes(m, item) = Messages!Field(item[2], item[3])
         /\ item[1] = "counted" =>
                \E n \in Nat : Messages!ItemBytes(m, item) = CountedBytes(item[2], n)
         /\ IsList(Messages!ItemBytes(m, item))
<1>1. item[1] \in {"uint", "bytes"} =>
         Messages!ItemBytes(m, item) = Messages!Field(item[2], item[3])
  BY DEF Messages!ItemBytes, Plain
<1>2. Messages!SizeOf(m, item[2]) \in Nat
  BY DEF Messages!SizeOf
<1>3. item[1] = "counted" =>
         Messages!ItemBytes(m, item) = CountedBytes(item[2], Messages!SizeOf(m, item[2]))
  BY DEF Messages!ItemBytes, Plain, CountedBytes
<1>4. IsList(Messages!ItemBytes(m, item))
  BY <1>1, <1>2, <1>3, FieldIs, CountedIs DEF Plain
<1> QED
  BY <1>1, <1>2, <1>3, <1>4

(***************************************************************************)
(* One item read: all of its bytes are there, or the reader gives up.      *)
(***************************************************************************)
Holds(fs, item) ==
  \E j \in 1..Len(fs) : fs[j] = <<item[2], Messages!Field(item[2], item[3])>>

ItemRead(r, o, p, fs, u, item) ==
  IF o + Len(u) <= Len(p)
  THEN \E gs : /\ r = At(o + Len(u), p, gs) /\ GoodFields(gs)
               /\ FieldSize(gs) \in Nat
               /\ FieldSize(gs) <= FieldSize(fs) + Len(u)
               /\ Begins(fs, gs)
               /\ item[1] = "uint" => Holds(gs, item)
  ELSE Failed(r)

LEMMA ReadOn ==
  ASSUME NEW p, NEW all, Begins(p, all), NEW o \in Nat, NEW fs, GoodFields(fs),
         NEW m, m.size \in Nat, m.second \in Nat, NEW item, Plain(item),
         \A j \in 1..Len(Messages!ItemBytes(m, item)) :
            all[o + j] = Messages!ItemBytes(m, item)[j],
         o <= Len(p)
  PROVE  ItemRead(Messages!ReadItem(At(o, p, fs), item), o, p, fs,
                  Messages!ItemBytes(m, item), item)
<1> DEFINE u == Messages!ItemBytes(m, item)
           name == item[2]
           n == item[3]
<1>0. IsList(p) /\ Len(p) \in Nat /\ FieldSize(fs) \in Nat /\ IsList(fs) /\ n \in Nat
  <2>1. FieldSize(fs) \in Nat
    <3>1. IsList(<<>>)
      BY DEF IsList
    <3> QED
      BY <3>1, OneField DEF OneMore
  <2> QED
    BY <2>1 DEF Begins, IsList, GoodFields, Plain
<1>a. name = item[2] /\ n = item[3]
  OBVIOUS
<1> HIDE DEF name, n
<1>1. CASE item[1] = "uint"
  <2> DEFINE b == Messages!Slice(p, o, o + n)
             r == Messages!Read(At(o, p, fs), name, b, n)
  <2>1. u = Messages!Field(name, n) /\ IsList(u) /\ Len(u) = n
    BY <1>0, <1>a, <1>1, ItemBytesIs, FieldIs
  <2>2. Messages!ReadItem(At(o, p, fs), item) = r
    BY <1>a, <1>1 DEF Messages!ReadItem, Messages!ReadUint, At
  <2>3. CASE o + n <= Len(p)
    <3> DEFINE gs == Append(fs, <<name, b>>)
    <3>0. IsPart(b, n, o, all)
      BY <1>0, <2>3, SliceRight
    <3>1. IsList(b) /\ Len(b) = n /\ \A j \in 1..n : b[j] = all[o + j]
      BY <3>0 DEF IsPart
    <3>2. r = At(o + n, p, gs)
      BY <1>0, <2>3, ReadOne
    <3> HIDE DEF b, r, u
    <3>3. b = u
      <4>1. \A j \in 1..Len(b) : b[j] = u[j]
        BY <2>1, <3>1 DEF u
      <4> QED
        BY <2>1, <3>1, <4>1, Same
    <3>40. OneMore(fs, gs, name, b)
      BY <3>1, OneField
    <3> HIDE DEF gs
    <3>4. /\ GoodFields(gs) /\ FieldSize(gs) = FieldSize(fs) + Len(b)
          /\ Begins(fs, gs) /\ Len(gs) = Len(fs) + 1 /\ gs[Len(gs)] = <<name, b>>
      BY <3>40 DEF OneMore
    <3>5. Holds(gs, item)
      <4>1. Len(gs) \in 1..Len(gs)
        BY <1>0, <3>4 DEF IsList
      <4> QED
        BY <1>a, <2>1, <3>3, <3>4, <4>1 DEF Holds
    <3>6. /\ r = At(o + Len(u), p, gs) /\ FieldSize(gs) \in Nat
          /\ FieldSize(gs) <= FieldSize(fs) + Len(u)
      BY <1>0, <2>1, <3>1, <3>2, <3>4
    <3>7. o + Len(u) <= Len(p)
      BY <2>1, <2>3
    <3>8. ItemRead(r, o, p, fs, u, item)
      BY <3>4, <3>5, <3>6, <3>7 DEF ItemRead
    <3> QED
      BY <2>2, <3>8 DEF u
  <2>4. CASE ~(o + n <= Len(p))
    <3>1. Failed(r)
      BY <1>0, <2>4, ReadOne
    <3> HIDE DEF r, u
    <3>2. ItemRead(r, o, p, fs, u, item)
      BY <2>1, <2>4, <3>1 DEF ItemRead
    <3> QED
      BY <2>2, <3>2 DEF u
  <2> QED
    BY <2>3, <2>4
<1>2. CASE item[1] = "bytes"
  <2> DEFINE b == Messages!Slice(p, o, n)
             r == Messages!Read(At(o, p, fs), name, b, n)
  <2>1. u = Messages!Field(name, n) /\ IsList(u) /\ Len(u) = n
    BY <1>0, <1>a, <1>2, ItemBytesIs, FieldIs
  <2>2. Messages!ReadItem(At(o, p, fs), item) = r
    BY <1>a, <1>2 DEF Messages!ReadItem, Messages!ReadBytes, At
  <2>3. CASE o + n <= Len(p)
    <3> DEFINE gs == Append(fs, <<name, b>>)
    <3>1. IsList(b) /\ Len(b) <= n /\ Len(b) \in Nat
      BY <1>0, SliceShort DEF IsList
    <3>2. r = At(o + n, p, gs)
      BY <1>0, <2>3, ReadOne
    <3> HIDE DEF b, r, u
    <3>40. OneMore(fs, gs, name, b)
      BY <3>1, OneField
    <3> HIDE DEF gs
    <3>4. /\ GoodFields(gs) /\ FieldSize(gs) = FieldSize(fs) + Len(b)
          /\ Begins(fs, gs)
      BY <3>40 DEF OneMore
    <3>6. /\ r = At(o + Len(u), p, gs) /\ FieldSize(gs) \in Nat
          /\ FieldSize(gs) <= FieldSize(fs) + Len(u)
      BY <1>0, <2>1, <3>1, <3>2, <3>4
    <3>7. o + Len(u) <= Len(p)
      BY <2>1, <2>3
    <3>8. ItemRead(r, o, p, fs, u, item)
      BY <1>2, <3>4, <3>6, <3>7 DEF ItemRead
    <3> QED
      BY <2>2, <3>8 DEF u
  <2>4. CASE ~(o + n <= Len(p))
    <3>1. Failed(r)
      BY <1>0, <2>4, ReadOne
    <3> HIDE DEF r, u
    <3>2. ItemRead(r, o, p, fs, u, item)
      BY <2>1, <2>4, <3>1 DEF ItemRead
    <3> QED
      BY <2>2, <3>2 DEF u
  <2> QED
    BY <2>3, <2>4
<1>3. CASE item[1] = "counted"
  <2>1. PICK size \in Nat : u = CountedBytes(name, size)
    BY <1>0, <1>a, <1>3, ItemBytesIs
  <2>2. IsList(u) /\ Len(u) = 2 + size /\ u[1] = <<"count", size, 1>>
    BY <2>1, CountedIs
  <2> DEFINE c == Messages!Slice(p, o, o + 2)
             r == Messages!Read(At(o, p, fs), "count", c, 2)
             q == Messages!ReadItem(At(o, p, fs), item)
  <2>3. r = Messages!ReadUint(At(o, p, fs), "count", 2)
    BY DEF Messages!ReadUint, At
  <2>4. q = IF r.ok THEN Messages!ReadBytes(r, name, Messages!Last(r.fields)[2][1][2])
                    ELSE r
    <3>1. q = Messages!ReadCounted(At(o, p, fs), name)
      BY <1>a, <1>3 DEF Messages!ReadItem
    <3> HIDE DEF q, r
    <3> QED
      BY <2>3, <3>1 DEF Messages!ReadCounted
  <2>5. CASE ~(o + 2 <= Len(p))
    <3>1. Failed(r)
      BY <1>0, <2>5, ReadOne
    <3> HIDE DEF r, u
    <3>2. q = r
      BY <2>4, <3>1 DEF Failed
    <3> HIDE DEF q
    <3>3. ItemRead(q, o, p, fs, u, item)
      BY <1>0, <2>2, <2>5, <3>1, <3>2 DEF ItemRead
    <3> QED
      BY <3>3 DEF u, q
  <2>6. CASE o + 2 <= Len(p)
    <3> DEFINE gs == Append(fs, <<"count", c>>)
               e == o + 2
               b == Messages!Slice(p, e, size)
               hs == Append(gs, <<name, b>>)
    <3>0. IsPart(c, 2, o, all)
      BY <1>0, <2>6, SliceRight
    <3>1. IsList(c) /\ Len(c) = 2 /\ \A j \in 1..2 : c[j] = all[o + j]
      BY <3>0 DEF IsPart
    <3>2. r = At(e, p, gs)
      BY <1>0, <2>6, ReadOne
    <3>3. c[1] = <<"count", size, 1>>
      <4>1. 1 \in 1..2 /\ 1 \in 1..Len(u)
        BY <2>2
      <4>2. all[o + 1] = u[1]
        BY <4>1
      <4> HIDE DEF c, u
      <4> QED
        BY <2>2, <3>1, <4>1, <4>2
    <3> HIDE DEF c
    <3>40. OneMore(fs, gs, "count", c)
      BY <3>1, OneField
    <3> HIDE DEF gs, r
    <3>4. /\ GoodFields(gs) /\ FieldSize(gs) = FieldSize(fs) + Len(c)
          /\ Begins(fs, gs) /\ gs[Len(gs)] = <<"count", c>>
      BY <3>40 DEF OneMore
    <3>5. r.ok /\ Messages!Last(r.fields)[2][1][2] = size
      <4>1. r.ok = TRUE /\ r.fields = gs
        BY <3>2 DEF At
      <4>2. gs[Len(gs)][2] = c
        BY <3>4
      <4> QED
        BY <3>3, <4>1, <4>2 DEF Messages!Last
    <3>6. q = Messages!Read(At(e, p, gs), name, b, size)
      <4>1. q = Messages!ReadBytes(r, name, size)
        BY <2>4, <3>5
      <4> HIDE DEF q
      <4>2. Messages!ReadBytes(At(e, p, gs), name, size)
              = Messages!Read(At(e, p, gs), name, b, size)
        BY DEF Messages!ReadBytes, At
      <4> QED
        BY <3>2, <4>1, <4>2
    <3> HIDE DEF q
    <3>7. e \in Nat /\ e + size = o + Len(u)
      BY <2>2
    <3> HIDE DEF e
    <3>8. CASE e + size <= Len(p)
      <4>0. IsList(b) /\ Len(b) <= size
        BY <1>0, <3>7, SliceShort
      <4>1. IsList(b) /\ Len(b) <= size /\ Len(b) \in Nat
        <5> HIDE DEF b
        <5> QED
          BY <4>0 DEF IsList
      <4>2. q = At(e + size, p, hs)
        BY <1>0, <3>6, <3>7, <3>8, ReadOne
      <4> HIDE DEF b, e
      <4>30. OneMore(gs, hs, name, b)
        BY <3>4, <4>1, OneField
      <4> HIDE DEF hs, u
      <4>3. /\ GoodFields(hs) /\ FieldSize(hs) = FieldSize(gs) + Len(b)
            /\ Begins(gs, hs)
        BY <4>30 DEF OneMore
      <4>4. Begins(fs, hs)
        BY <3>4, <4>3, BeginsTwice
      <4>5. /\ q = At(o + Len(u), p, hs) /\ FieldSize(hs) \in Nat
            /\ FieldSize(hs) <= FieldSize(fs) + Len(u)
        <5>1. q = At(o + Len(u), p, hs)
          BY <3>7, <4>2
        <5>2. FieldSize(hs) = FieldSize(fs) + 2 + Len(b)
          BY <1>0, <3>1, <3>4, <4>3
        <5>3. FieldSize(hs) \in Nat /\ FieldSize(hs) <= FieldSize(fs) + Len(u)
          BY <1>0, <2>2, <4>1, <5>2
        <5> QED
          BY <5>1, <5>3
      <4>6. ItemRead(q, o, p, fs, u, item)
        BY <1>3, <3>7, <3>8, <4>3, <4>4, <4>5 DEF ItemRead
      <4> QED
        BY <4>6 DEF u, q
    <3>9. CASE ~(e + size <= Len(p))
      <4>1. Failed(q)
        BY <1>0, <3>6, <3>7, <3>9, ReadOne
      <4> HIDE DEF b, e, u
      <4>2. ItemRead(q, o, p, fs, u, item)
        BY <3>7, <3>9, <4>1 DEF ItemRead
      <4> QED
        BY <4>2 DEF u, q
    <3> QED
      BY <3>8, <3>9
  <2> QED
    BY <2>5, <2>6
<1> QED
  BY <1>1, <1>2, <1>3 DEF Plain

LEMMA StaysFailed ==
  ASSUME NEW r, Failed(r), NEW item, Plain(item)
  PROVE  Failed(Messages!ReadItem(r, item))
<1>1. ASSUME NEW name, NEW b, NEW n
      PROVE  Failed(Messages!Read(r, name, b, n))
  BY DEF Failed, Messages!Read
<1>2. ASSUME NEW name, NEW n
      PROVE  /\ Failed(Messages!ReadUint(r, name, n))
             /\ Failed(Messages!ReadBytes(r, name, n))
  BY <1>1 DEF Messages!ReadUint, Messages!ReadBytes
<1>3. ASSUME NEW name
      PROVE  Failed(Messages!ReadCounted(r, name))
  <2> DEFINE c == Messages!ReadUint(r, "count", 2)
  <2>1. Failed(c)
    BY <1>2
  <2>2. Messages!ReadCounted(r, name)
          = IF c.ok
            THEN Messages!ReadBytes(c, name, Messages!Last(c.fields)[2][1][2]) ELSE c
    BY DEF Messages!ReadCounted
  <2> HIDE DEF c
  <2> QED
    BY <2>1, <2>2 DEF Failed
<1> QED
  BY <1>2, <1>3 DEF Messages!ReadItem, Plain

(***************************************************************************)
(* The items of a layout read one after the other.                         *)
(***************************************************************************)
IsCursor(reader, layout, payload, n) ==
  reader = [k \in 0..n |->
              IF k = 0 THEN Messages!Reader(payload)
                       ELSE Messages!ReadItem(reader[k - 1], layout[k])]

LEMMA ReadersExist ==
  ASSUME NEW layout, NEW payload, NEW n \in Nat
  PROVE  \E reader : IsCursor(reader, layout, payload, n)
<1> DEFINE Up(f, m) == f = [k \in 0..m |->
              IF k = 0 THEN Messages!Reader(payload)
                       ELSE Messages!ReadItem(f[k - 1], layout[k])]
           T == {m \in Nat : \E f : Up(f, m)}
<1>1. 0 \in T
  <2> DEFINE g == [k \in 0..0 |-> Messages!Reader(payload)]
  <2>1. \A k \in 0..0 : k = 0
    OBVIOUS
  <2>2. g = [k \in 0..0 |->
              IF k = 0 THEN Messages!Reader(payload)
                       ELSE Messages!ReadItem(g[k - 1], layout[k])]
    BY <2>1
  <2> HIDE DEF g
  <2>3. Up(g, 0)
    BY <2>2
  <2> HIDE DEF Up
  <2> QED
    BY <2>3
<1>2. ASSUME NEW m \in Nat, m \in T PROVE m + 1 \in T
  <2>1. PICK f : Up(f, m)
    BY <1>2
  <2> DEFINE g == [k \in 0..m + 1 |->
              IF k = 0 THEN Messages!Reader(payload)
                       ELSE Messages!ReadItem(f[k - 1], layout[k])]
  <2>2. \A k \in 0..m : f[k] = IF k = 0 THEN Messages!Reader(payload)
                                ELSE Messages!ReadItem(f[k - 1], layout[k])
    BY <2>1
  <2>3. \A k \in 0..m : g[k] = f[k]
    BY <2>2
  <2>4. \A k \in 0..m + 1 : k # 0 => k - 1 \in 0..m
    OBVIOUS
  <2>5. g = [k \in 0..m + 1 |->
              IF k = 0 THEN Messages!Reader(payload)
                       ELSE Messages!ReadItem(g[k - 1], layout[k])]
    BY <2>3, <2>4
  <2> HIDE DEF g
  <2>6. Up(g, m + 1)
    BY <2>5
  <2> HIDE DEF Up
  <2>7. m + 1 \in Nat /\ \E a : Up(a, m + 1)
    BY <2>6
  <2> QED
    BY <2>7
<1>3. n \in T
  <2> HIDE DEF T
  <2>1. Nat \subseteq T
    BY <1>1, <1>2, Induct
  <2> QED
    BY <2>1
<1> QED
  BY <1>3 DEF IsCursor

PlainLayout(layout) == IsList(layout) /\ \A k \in 1..Len(layout) : Plain(layout[k])

ItemsOf(m, layout) == [k \in DOMAIN layout |-> Messages!ItemBytes(m, layout[k])]

LEMMA ItemsAreLists ==
  ASSUME NEW m, m.size \in Nat, m.second \in Nat, NEW layout, PlainLayout(layout)
  PROVE  /\ AllLists(ItemsOf(m, layout)) /\ Len(ItemsOf(m, layout)) = Len(layout)
         /\ Len(layout) \in Nat
         /\ \A k \in 1..Len(layout) :
               ItemsOf(m, layout)[k] = Messages!ItemBytes(m, layout[k])
<1> DEFINE n == Len(layout)  U == ItemsOf(m, layout)
<1>1. n \in Nat /\ DOMAIN layout = 1..n
  BY DEF PlainLayout, IsList
<1>2. U = [k \in 1..n |-> Messages!ItemBytes(m, layout[k])]
  BY <1>1 DEF ItemsOf
<1>3. Len(U) = n /\ \A k \in 1..n : U[k] = Messages!ItemBytes(m, layout[k])
  BY <1>1, <1>2
<1>4. U = [k \in 1..n |-> U[k]]
  BY <1>2
<1>5. \A k \in 1..n : IsList(U[k])
  BY <1>3, ItemBytesIs DEF PlainLayout
<1> HIDE DEF U, n
<1>6. AllLists(U)
  BY <1>1, <1>3, <1>4, <1>5 DEF AllLists, IsList
<1> QED
  BY <1>1, <1>3, <1>6 DEF U, n

Units(u, o, all) == \A j \in 1..Len(u) : all[o + j] = u[j]

LEMMA Within ==
  ASSUME NEW a, NEW b, IsList(a), IsList(b), NEW all, Begins(a \o b, all)
  PROVE  Units(b, Len(a), all)
<1>1. /\ Len(a \o b) = Len(a) + Len(b) /\ Len(a) \in Nat /\ Len(b) \in Nat
      /\ \A j \in 1..Len(b) : (a \o b)[Len(a) + j] = b[j]
  BY Joined DEF IsList
<1> DEFINE c == a \o b
<1>2. \A j \in 1..Len(c) : all[j] = c[j]
  BY DEF Begins
<1> HIDE DEF c
<1>3. \A j \in 1..Len(b) : Len(a) + j \in 1..Len(c)
  BY <1>1 DEF c
<1>4. \A j \in 1..Len(b) : all[Len(a) + j] = c[Len(a) + j]
  BY <1>2, <1>3
<1> QED
  BY <1>1, <1>4 DEF Units, c

(* What the classes that use the reader make of a payload: every byte is   *)
(* there or it is refused.                                                 *)
LEMMA AllRead ==
  ASSUME NEW m, m.size \in Nat, m.second \in Nat, NEW layout, PlainLayout(layout),
         NEW p, Begins(p, FlattenSeq(ItemsOf(m, layout)))
  PROVE  LET g == Messages!ReadAll(layout, p)
             whole == Len(p) = Len(FlattenSeq(ItemsOf(m, layout)))
         IN  /\ g.ok \in BOOLEAN
             /\ g.ok <=> whole
             /\ FieldSize(g.fields) <= Len(p)
             /\ g.ok => \A k \in 1..Len(layout) :
                           layout[k][1] = "uint" => Holds(g.fields, layout[k])
<1> DEFINE U == ItemsOf(m, layout)
           n == Len(layout)
           all == FlattenSeq(U)
           reader == CHOOSE reader : reader = [k \in 0..Len(layout) |->
              IF k = 0 THEN Messages!Reader(p)
                       ELSE Messages!ReadItem(reader[k - 1], layout[k])]
<1>1. /\ AllLists(U) /\ Len(U) = n /\ n \in Nat
      /\ \A k \in 1..n : U[k] = Messages!ItemBytes(m, layout[k])
  BY ItemsAreLists
<1>2. PICK front : IsFronts(front, U)
  BY <1>1, Fronts
<1>3. Messages!ReadAll(layout, p)
        = IF reader[n].ok THEN [ok |-> TRUE, fields |-> reader[n].fields]
                          ELSE [ok |-> FALSE, fields |-> <<>>]
  BY DEF Messages!ReadAll, Messages!Threw
<1>4. reader = [k \in 0..n |->
              IF k = 0 THEN Messages!Reader(p)
                       ELSE Messages!ReadItem(reader[k - 1], layout[k])]
  <2>0. n \in Nat
    BY <1>1
  <2>1. \E f : IsCursor(f, layout, p, n)
    BY <2>0, ReadersExist, Zenon
  <2> QED
    BY <2>1, Zenon DEF IsCursor
<1> HIDE DEF reader
<1>5. reader[0] = At(0, p, <<>>)
  BY <1>1, <1>4 DEF Messages!Reader, At
<1>6. ASSUME NEW k \in 1..n
      PROVE  reader[k] = Messages!ReadItem(reader[k - 1], layout[k])
  BY <1>1, <1>4
<1>7. /\ front[0] = <<>> /\ front[n] = all
      /\ \A k \in 1..n : /\ front[k] = front[k - 1] \o U[k]
                         /\ Len(front[k]) = Len(front[k - 1]) + Len(U[k])
                         /\ IsList(U[k])
      /\ \A k \in 0..n : Begins(front[k], all) /\ IsList(front[k]) /\ Len(front[k]) \in Nat
  BY <1>1, <1>2 DEF IsFronts, AllLists
<1>8. IsList(p) /\ Len(p) \in Nat /\ Len(p) <= Len(all) /\ Begins(p, all)
  BY DEF Begins, IsList
<1> HIDE DEF U, all
<1> DEFINE Ok(k) ==
      IF Len(front[k]) <= Len(p)
      THEN \E fs : /\ reader[k] = At(Len(front[k]), p, fs) /\ GoodFields(fs)
                   /\ FieldSize(fs) \in Nat /\ FieldSize(fs) <= Len(front[k])
                   /\ \A i \in 1..k : layout[i][1] = "uint" => Holds(fs, layout[i])
      ELSE Failed(reader[k])
           T == {k \in Nat : k <= n => Ok(k)}
<1>9. 0 \in T
  <2>1. Len(front[0]) = 0
    BY <1>7
  <2>2. /\ GoodFields(<<>>) /\ FieldSize(<<>>) = 0
    BY NoFields
  <2>3. reader[0] = At(Len(front[0]), p, <<>>)
    BY <1>5, <2>1
  <2>4. \A i \in 1..0 : layout[i][1] = "uint" => Holds(<<>>, layout[i])
    OBVIOUS
  <2>5. 0 <= Len(p)
    BY <1>8
  <2>6. Ok(0)
    BY <2>1, <2>2, <2>3, <2>4, <2>5
  <2> HIDE DEF Ok
  <2> QED
    BY <2>6
<1>10. ASSUME NEW i \in Nat, i \in T PROVE i + 1 \in T
  <2> SUFFICES ASSUME i + 1 <= n PROVE Ok(i + 1)
    OBVIOUS
  <2>0. PICK k : k = i + 1
    OBVIOUS
  <2>1. k \in 1..n /\ k - 1 = i /\ i \in 0..n /\ k \in 0..n
    BY <1>1, <2>0
  <2>2. Ok(i)
    BY <1>10, <2>1
  <2>30. front[k] = front[i] \o U[k]
    BY <1>7, <2>1
  <2>31. /\ Len(front[k]) = Len(front[i]) + Len(U[k]) /\ IsList(U[k])
         /\ IsList(front[i]) /\ Len(front[i]) \in Nat /\ Len(U[k]) \in Nat
         /\ Len(front[k]) \in Nat
    BY <1>7, <2>1 DEF IsList
  <2> DEFINE before == Len(front[i])  after == Len(front[k])  size == Len(U[k])
  <2>3. /\ after = before + size /\ before \in Nat /\ size \in Nat /\ after \in Nat
        /\ IsList(U[k]) /\ IsList(front[i])
    BY <2>31
  <2>4. reader[k] = Messages!ReadItem(reader[i], layout[k])
    BY <1>6, <2>1
  <2>5. Plain(layout[k]) /\ U[k] = Messages!ItemBytes(m, layout[k])
    BY <1>1, <2>1 DEF PlainLayout
  <2>6. \A j \in 1..Len(U[k]) : all[Len(front[i]) + j] = U[k][j]
    <3>1. Begins(front[k], all)
      BY <1>7, <2>1
    <3> QED
      <4>1. Begins(front[i] \o U[k], all)
        BY <2>30, <3>1
      <4>2. Units(U[k], Len(front[i]), all)
        BY <2>3, <4>1, Within
      <4> QED
        BY <4>2 DEF Units
  <2>7. CASE ~(Len(front[i]) <= Len(p))
    <3>1. Failed(reader[i])
      BY <2>2, <2>7
    <3>2. Failed(reader[k])
      BY <2>4, <2>5, <3>1, StaysFailed
    <3>3. ~(Len(front[k]) <= Len(p))
      <4>1. before > Len(p)
        BY <1>8, <2>3, <2>7
      <4> HIDE DEF before, after, size
      <4>2. ~(after <= Len(p))
        BY <1>8, <2>3, <4>1
      <4> QED
        BY <4>2 DEF after
    <3>4. Ok(k)
      BY <3>2, <3>3
    <3> QED
      BY <3>4, <2>0
  <2>8. CASE Len(front[i]) <= Len(p)
    <3>1. PICK fs : /\ reader[i] = At(Len(front[i]), p, fs) /\ GoodFields(fs)
                    /\ FieldSize(fs) \in Nat /\ FieldSize(fs) <= Len(front[i])
                    /\ \A a \in 1..i : layout[a][1] = "uint" => Holds(fs, layout[a])
      BY <2>2, <2>8
    <3> DEFINE o == Len(front[i])  r == Messages!ReadItem(At(o, p, fs), layout[k])
    <3>2. ItemRead(r, o, p, fs, U[k], layout[k])
      <4>1. \A j \in 1..Len(Messages!ItemBytes(m, layout[k])) :
               all[o + j] = Messages!ItemBytes(m, layout[k])[j]
        BY <2>5, <2>6
      <4>2. ItemRead(r, o, p, fs, Messages!ItemBytes(m, layout[k]), layout[k])
        BY <1>8, <2>3, <2>5, <2>8, <3>1, <4>1, ReadOn
      <4> QED
        BY <2>5, <4>2
    <3>3. reader[k] = r
      BY <2>4, <3>1
    <3> HIDE DEF r
    <3>4. CASE Len(front[k]) <= Len(p)
      <4>1. PICK gs : /\ r = At(o + Len(U[k]), p, gs) /\ GoodFields(gs)
                      /\ FieldSize(gs) \in Nat
                      /\ FieldSize(gs) <= FieldSize(fs) + Len(U[k])
                      /\ Begins(fs, gs)
                      /\ layout[k][1] = "uint" => Holds(gs, layout[k])
        BY <2>3, <3>2, <3>4 DEF ItemRead
      <4>2. reader[k] = At(Len(front[k]), p, gs) /\ FieldSize(gs) <= Len(front[k])
        <5>1. o + Len(U[k]) = after /\ FieldSize(fs) <= before
              /\ FieldSize(gs) <= FieldSize(fs) + size
          BY <2>3, <3>1, <4>1
        <5>2. reader[k] = At(after, p, gs)
          BY <3>3, <4>1, <5>1
        <5> HIDE DEF before, after, size
        <5>3. FieldSize(gs) <= after
          BY <2>3, <3>1, <4>1, <5>1
        <5> QED
          BY <5>2, <5>3 DEF after
      <4>3. ASSUME NEW a \in 1..k, layout[a][1] = "uint" PROVE Holds(gs, layout[a])
        <5>1. CASE a = k
          BY <4>1, <4>3, <5>1
        <5>2. CASE a # k
          <6>1. a \in 1..i
            BY <2>1, <5>2
          <6>2. Holds(fs, layout[a])
            BY <3>1, <4>3, <6>1
          <6>3. PICK j \in 1..Len(fs) :
                  fs[j] = <<layout[a][2], Messages!Field(layout[a][2], layout[a][3])>>
            BY <6>2 DEF Holds
          <6>4. j \in 1..Len(gs) /\ gs[j] = fs[j]
            <7>1. Begins(fs, gs) /\ j \in 1..Len(fs)
              BY <4>1, <6>3
            <7>2. IsList(fs) /\ IsList(gs)
              BY <3>1, <4>1 DEF GoodFields
            <7>3. Len(fs) \in Nat /\ Len(gs) \in Nat
              BY <7>2 DEF IsList
            <7> QED
              BY <7>1, <7>3 DEF Begins
          <6> QED
            BY <6>3, <6>4 DEF Holds
        <5> QED
          BY <5>1, <5>2
      <4>4. Ok(k)
        BY <3>4, <4>1, <4>2, <4>3
      <4> QED
        BY <4>4, <2>0
    <3>5. CASE ~(Len(front[k]) <= Len(p))
      <4>1. Failed(r)
        BY <2>3, <3>2, <3>5 DEF ItemRead
      <4>2. Ok(k)
        BY <3>3, <3>5, <4>1
      <4> QED
        BY <4>2, <2>0
    <3> QED
      BY <3>4, <3>5
  <2> QED
    BY <2>7, <2>8
<1>11. Ok(n)
  <2> HIDE DEF T
  <2>1. Nat \subseteq T
    BY <1>9, <1>10, Induct
  <2>2. n \in T
    BY <1>1, <2>1
  <2> HIDE DEF Ok
  <2>3. n <= n
    BY <1>1
  <2> QED
    BY <2>2, <2>3 DEF T
<1> DEFINE g == Messages!ReadAll(layout, p)
<1>12. CASE Len(all) <= Len(p)
  <2>1. PICK fs : /\ reader[n] = At(Len(front[n]), p, fs) /\ GoodFields(fs)
                  /\ FieldSize(fs) \in Nat /\ FieldSize(fs) <= Len(front[n])
                  /\ \A i \in 1..n : layout[i][1] = "uint" => Holds(fs, layout[i])
    BY <1>7, <1>11, <1>12
  <2>2. g = [ok |-> TRUE, fields |-> fs]
    <3>1. reader[n].ok = TRUE /\ reader[n].fields = fs
      BY <2>1 DEF At
    <3> QED
      BY <1>3, <3>1
  <2> HIDE DEF g
  <2>3. Len(p) = Len(all) /\ FieldSize(fs) <= Len(p)
    <3>1. Len(all) \in Nat
      BY <1>8 DEF Begins, IsList
    <3> QED
      BY <1>7, <1>8, <1>12, <2>1, <3>1
  <2>4. /\ g.ok = TRUE /\ g.fields = fs
    BY <2>2
  <2> QED
    BY <2>1, <2>3, <2>4 DEF g, all, U
<1>13. CASE ~(Len(all) <= Len(p))
  <2>1. Failed(reader[n])
    BY <1>7, <1>11, <1>13
  <2>2. g = [ok |-> FALSE, fields |-> <<>>]
    BY <1>3, <2>1 DEF Failed
  <2> HIDE DEF g
  <2>3. Len(p) # Len(all)
    BY <1>8, <1>13
  <2>4. g.ok = FALSE /\ g.fields = <<>> /\ FieldSize(<<>>) <= Len(p)
    BY <1>8, <2>2, NoFields
  <2> QED
    BY <2>3, <2>4 DEF g, all, U
<1> QED
  BY <1>12, <1>13

(***************************************************************************)
(* The writer: what has been written, and zeros up to the end.             *)
(***************************************************************************)
LEMMA ZeroesAre ==
  ASSUME NEW n \in Nat
  PROVE  /\ IsList(Messages!Zeroes(n)) /\ Len(Messages!Zeroes(n)) = n
         /\ \A j \in 1..n : Messages!Zeroes(n)[j] = <<"zero", 0, 0>>
BY DEF Messages!Zeroes, IsList

Padded(s, n) == s \o Messages!Zeroes(n - Len(s))
Filled(s, n) == [ok |-> TRUE, pos |-> Len(s), buffer |-> Padded(s, n)]

LEMMA PaddedIs ==
  ASSUME NEW s, IsList(s), NEW n \in Nat, Len(s) <= n
  PROVE  /\ IsList(Padded(s, n)) /\ Len(Padded(s, n)) = n
         /\ \A j \in 1..Len(s) : Padded(s, n)[j] = s[j]
         /\ \A j \in Len(s) + 1..n : Padded(s, n)[j] = <<"zero", 0, 0>>
<1> DEFINE z == Messages!Zeroes(n - Len(s))  t == s \o z
<1>1. Len(s) \in Nat /\ n - Len(s) \in Nat
  BY DEF IsList
<1>2. IsList(z) /\ Len(z) = n - Len(s) /\ \A j \in 1..n - Len(s) : z[j] = <<"zero", 0, 0>>
  BY <1>1, ZeroesAre
<1> HIDE DEF z
<1>3. /\ IsList(t) /\ Len(t) = Len(s) + Len(z)
      /\ \A j \in 1..Len(s) : t[j] = s[j]
      /\ \A j \in 1..Len(z) : t[Len(s) + j] = z[j]
  BY <1>2, Joined
<1> HIDE DEF t
<1>4. Len(t) = n
  BY <1>1, <1>2, <1>3
<1>5. ASSUME NEW j \in Len(s) + 1..n PROVE t[j] = <<"zero", 0, 0>>
  <2> DEFINE i == j - Len(s)
  <2>1. i \in 1..n - Len(s) /\ Len(s) + i = j
    BY <1>1
  <2> HIDE DEF i
  <2> QED
    BY <1>2, <1>3, <2>1
<1> QED
  BY <1>3, <1>4, <1>5 DEF Padded, t, z

LEMMA PaddedFull ==
  ASSUME NEW s, IsList(s)
  PROVE  Padded(s, Len(s)) = s
<1>1. Len(s) \in Nat /\ Len(s) <= Len(s)
  BY DEF IsList
<1>2. /\ IsList(Padded(s, Len(s))) /\ Len(Padded(s, Len(s))) = Len(s)
      /\ \A j \in 1..Len(s) : Padded(s, Len(s))[j] = s[j]
  BY <1>1, PaddedIs
<1> QED
  BY <1>2, Same

ZeroesFrom(p, k, n) ==
  IsList(p) /\ Len(p) = n /\ \A j \in k + 1..n : p[j] = <<"zero", 0, 0>>

LEMMA PaddedFrom ==
  ASSUME NEW s, IsList(s), NEW k, k = Len(s), NEW n \in Nat, k <= n
  PROVE  ZeroesFrom(Padded(s, n), k, n)
BY PaddedIs DEF ZeroesFrom

LEMMA PaddedEmpty ==
  ASSUME NEW n \in Nat
  PROVE  Messages!Zeroes(n) = Padded(<<>>, n)
<1>1. IsList(<<>>) /\ Len(<<>>) = 0 /\ 0 <= n
  BY DEF IsList
<1> DEFINE p == Padded(<<>>, n)  z == Messages!Zeroes(n)
<1>2. IsList(p) /\ Len(p) = n /\ \A j \in Len(<<>>) + 1..n : p[j] = <<"zero", 0, 0>>
  BY <1>1, PaddedIs
<1>3. IsList(z) /\ Len(z) = n /\ \A j \in 1..n : z[j] = <<"zero", 0, 0>>
  BY ZeroesAre
<1> HIDE DEF p, z
<1>4. \A j \in 1..n : p[j] = z[j]
  BY <1>1, <1>2, <1>3
<1>5. p = z
  BY <1>2, <1>3, <1>4, Same
<1> QED
  BY <1>5 DEF p, z

(* Bytes copied where the zeros begin.                                     *)
LEMMA CopyOn ==
  ASSUME NEW s, IsList(s), NEW b, IsList(b), NEW n \in Nat, Len(s) + Len(b) <= n
  PROVE  Messages!Copy(Padded(s, n), Len(s), b) = Padded(s \o b, n)
<1> DEFINE p == Padded(s, n)  t == s \o b  q == Padded(t, n)
           c == Messages!Copy(p, Len(s), b)
<1>1. Len(s) \in Nat /\ Len(b) \in Nat /\ Len(s) <= n
  BY DEF IsList
<1>2. /\ IsList(p) /\ Len(p) = n
      /\ \A j \in 1..Len(s) : p[j] = s[j]
      /\ \A j \in Len(s) + 1..n : p[j] = <<"zero", 0, 0>>
  BY <1>1, PaddedIs
<1>3. /\ IsList(t) /\ Len(t) = Len(s) + Len(b)
      /\ \A j \in 1..Len(s) : t[j] = s[j]
      /\ \A j \in 1..Len(b) : t[Len(s) + j] = b[j]
  BY Joined
<1> HIDE DEF t
<1>4. /\ IsList(q) /\ Len(q) = n
      /\ \A j \in 1..Len(t) : q[j] = t[j]
      /\ \A j \in Len(t) + 1..n : q[j] = <<"zero", 0, 0>>
  <2>1. Len(t) <= n
    BY <1>1, <1>3
  <2> QED
    BY <1>3, <2>1, PaddedIs
<1> HIDE DEF p, q
<1>5. c = [i \in 1..n |-> IF i \in Len(s) + 1..Len(s) + Len(b)
                          THEN b[i - Len(s)] ELSE p[i]]
  <2>1. DOMAIN p = 1..n
    BY <1>2 DEF IsList
  <2> QED
    BY <2>1 DEF Messages!Copy
<1>6. IsList(c) /\ Len(c) = n
      /\ \A i \in 1..n : c[i] = IF i \in Len(s) + 1..Len(s) + Len(b)
                                THEN b[i - Len(s)] ELSE p[i]
  BY <1>5 DEF IsList
<1> HIDE DEF c
<1>7. ASSUME NEW i \in 1..n PROVE c[i] = q[i]
  <2>1. CASE i <= Len(s)
    <3>1. i \in 1..Len(s) /\ i \in 1..Len(t) /\ i \notin Len(s) + 1..Len(s) + Len(b)
      BY <1>1, <1>3, <2>1
    <3>2. c[i] = p[i]
      BY <1>6, <3>1
    <3> QED
      BY <1>2, <1>3, <1>4, <3>1, <3>2
  <2>2. CASE i > Len(s) /\ i <= Len(s) + Len(b)
    <3> DEFINE j == i - Len(s)
    <3>1. i \in Len(s) + 1..Len(s) + Len(b) /\ j \in 1..Len(b) /\ Len(s) + j = i
          /\ i \in 1..Len(t)
      BY <1>1, <1>3, <2>2
    <3>2. c[i] = b[j]
      BY <1>6, <3>1
    <3> HIDE DEF j
    <3>3. t[i] = b[j]
      BY <1>3, <3>1
    <3> QED
      BY <1>4, <3>1, <3>2, <3>3
  <2>3. CASE i > Len(s) + Len(b)
    <3>1. i \in Len(s) + 1..n /\ i \in Len(t) + 1..n
          /\ i \notin Len(s) + 1..Len(s) + Len(b)
      BY <1>1, <1>3, <2>3
    <3>2. c[i] = p[i]
      BY <1>6, <3>1
    <3> QED
      BY <1>2, <1>4, <3>1, <3>2
  <2> QED
    BY <1>1, <2>1, <2>2, <2>3
<1>8. c = q
  BY <1>4, <1>6, <1>7, Same
<1> QED
  BY <1>8 DEF c, q, p, t

LEMMA WriteOn ==
  ASSUME NEW s, IsList(s), NEW b, IsList(b), NEW n \in Nat, Len(s) + Len(b) <= n
  PROVE  /\ Messages!WriteBytes(Filled(s, n), b) = Filled(s \o b, n)
         /\ Messages!WriteUint(Filled(s, n), b) = Filled(s \o b, n)
<1>1. Len(s) \in Nat /\ Len(b) \in Nat /\ Len(s) <= n
  BY DEF IsList
<1>2. Messages!Copy(Padded(s, n), Len(s), b) = Padded(s \o b, n)
  BY CopyOn
<1>3. Len(s \o b) = Len(s) + Len(b)
  BY Joined
<1>4. Len(Padded(s, n)) = n
  BY <1>1, PaddedIs
<1>5. Messages!WriteBytes(Filled(s, n), b)
        = [ok |-> TRUE, pos |-> Len(s) + Len(b),
           buffer |-> Messages!Copy(Padded(s, n), Len(s), b)]
  <2> DEFINE o == Len(s)  p == Padded(s, n)  c == Messages!Copy(p, o, b)  x == Len(b)
             w == Filled(s, n)
  <2>1. w = [ok |-> TRUE, pos |-> o, buffer |-> p]
    BY DEF Filled
  <2>2. Messages!WriteBytes(w, b)
          = [w EXCEPT !.pos = w.pos + x, !.buffer = Messages!Copy(w.buffer, w.pos, b)]
    BY DEF Messages!WriteBytes
  <2> HIDE DEF w, o, p, x
  <2>3. w.pos = o /\ w.buffer = p
    BY <2>1
  <2>4. Messages!WriteBytes(w, b) = [w EXCEPT !.pos = o + x, !.buffer = c]
    BY <2>2, <2>3
  <2> HIDE DEF c
  <2>5. Messages!WriteBytes(w, b) = [ok |-> TRUE, pos |-> o + x, buffer |-> c]
    BY <2>1, <2>4
  <2> QED
    BY <2>5 DEF w, o, p, x, c
<1>6. Messages!WriteBytes(Filled(s, n), b) = Filled(s \o b, n)
  BY <1>2, <1>3, <1>5 DEF Filled
<1>7. /\ Filled(s, n).pos = Len(s) /\ Filled(s, n).buffer = Padded(s, n)
  BY DEF Filled
<1>8. Messages!WriteUint(Filled(s, n), b) = Messages!WriteBytes(Filled(s, n), b)
  BY <1>1, <1>4, <1>7 DEF Messages!WriteUint
<1> QED
  BY <1>6, <1>8

LEMMA WriterIs ==
  ASSUME NEW n \in Nat
  PROVE  Messages!Writer(n) = Filled(<<>>, n)
<1>1. Len(<<>>) = 0
  OBVIOUS
<1> QED
  BY <1>1, PaddedEmpty DEF Messages!Writer, Filled

(* A list joined to the empty one.                                         *)
LEMMA EmptyJoin ==
  ASSUME NEW s, IsList(s)
  PROVE  <<>> \o s = s
<1>1. s \in Seq({s[j] : j \in 1..Len(s)})
  BY ListIsSeq
<1> QED
  BY <1>1, ConcatEmptySeq

LEMMA TypeIs ==
  ASSUME NEW kind
  PROVE  IsList(Messages!Type(kind)) /\ Len(Messages!Type(kind)) = 2
BY FieldIs DEF Messages!Type

LEMMA FlattenLists ==
  ASSUME NEW a, IsList(a), NEW b, IsList(b)
  PROVE  FlattenSeq(<<a>>) = a /\ FlattenSeq(<<a, b>>) = a \o b
<1>1. AllLists(<<>>)
  BY DEF AllLists, IsList
<1>2. AllLists(<<a>>)
  BY DEF AllLists, IsList
<1>3. Append(<<>>, a) = <<a>> /\ Append(<<a>>, b) = <<a, b>>
  BY AppendOne, AppendTwo
<1>4. FlattenSeq(Append(<<>>, a)) = FlattenSeq(<<>>) \o a
  BY <1>1, FlattenOne
<1>5. FlattenSeq(Append(<<a>>, b)) = FlattenSeq(<<a>>) \o b
  BY <1>2, FlattenOne
<1>6. FlattenSeq(<<>>) = <<>> /\ <<>> \o a = a
  BY FlattenEmpty, EmptyJoin
<1>7. FlattenSeq(<<a>>) = a
  BY <1>3, <1>4, <1>6
<1> QED
  BY <1>3, <1>5, <1>7

(***************************************************************************)
(* The layouts, and the payload a peer sends.                              *)
(***************************************************************************)
Sized(layout) == IsList(layout) /\ \A k \in 1..Len(layout) : layout[k][3] \in Nat

LEMMA PlainIsSized ==
  ASSUME NEW layout, PlainLayout(layout)
  PROVE  Sized(layout)
BY DEF PlainLayout, Plain, Sized

LEMMA ItemParts ==
  \A name, n :
     /\ Messages!Bytes(name, n)[1] = "bytes" /\ Messages!Bytes(name, n)[2] = name
     /\ Messages!Bytes(name, n)[3] = n
     /\ Messages!Uint(name, n)[1] = "uint" /\ Messages!Uint(name, n)[2] = name
     /\ Messages!Uint(name, n)[3] = n
     /\ Messages!Counted(name)[1] = "counted" /\ Messages!Counted(name)[2] = name
     /\ Messages!Counted(name)[3] = 0
BY DEF Messages!Uint, Messages!Bytes, Messages!Counted

LEMMA AnnouncementLayout == PlainLayout(Messages!ChannelAnnouncement)
<1> DEFINE A == Messages!ChannelAnnouncement
<1>1. /\ IsList(A) /\ Len(A) = 11
      /\ A[1] = Messages!Bytes("node_signature_1", 64)
      /\ A[2] = Messages!Bytes("node_signature_2", 64)
      /\ A[3] = Messages!Bytes("bitcoin_signature_1", 64)
      /\ A[4] = Messages!Bytes("bitcoin_signature_2", 64)
      /\ A[5] = Messages!Counted("features")
      /\ A[6] = Messages!Bytes("chain_hash", 4)
      /\ A[7] = Messages!Uint("short_channel_id", 1)
      /\ A[8] = Messages!Bytes("node_id_1", 33)
      /\ A[9] = Messages!Bytes("node_id_2", 33)
      /\ A[10] = Messages!Bytes("bitcoin_key_1", 33)
      /\ A[11] = Messages!Bytes("bitcoin_key_2", 33)
  BY DEF Messages!ChannelAnnouncement, IsList
<1> HIDE DEF A
<1>2. /\ Plain(A[1]) /\ Plain(A[2]) /\ Plain(A[3]) /\ Plain(A[4])
  BY <1>1, ItemParts DEF Plain
<1>3. /\ Plain(A[5]) /\ Plain(A[6]) /\ Plain(A[7])
  BY <1>1, ItemParts DEF Plain
<1>4. /\ Plain(A[8]) /\ Plain(A[9]) /\ Plain(A[10]) /\ Plain(A[11])
  BY <1>1, ItemParts DEF Plain
<1>5. \A k \in 1..11 : \/ k = 1 \/ k = 2 \/ k = 3 \/ k = 4 \/ k = 5 \/ k = 6
                       \/ k = 7 \/ k = 8 \/ k = 9 \/ k = 10 \/ k = 11
  OBVIOUS
<1>6. \A k \in 1..Len(A) : Plain(A[k])
  BY <1>1, <1>2, <1>3, <1>4, <1>5
<1>7. PlainLayout(A)
  BY <1>1, <1>6 DEF PlainLayout
<1> QED
  BY <1>7 DEF A

(* The layout of a channel update, with the place of every field.          *)
LEMMA UpdateLayout ==
  LET A == Messages!ChannelUpdate
  IN  /\ PlainLayout(A) /\ Len(A) = 9
      /\ \A k \in 1..9 : A[k][1] \in {"uint", "bytes"}
      /\ A[1][3] = 64 /\ A[2][3] = 32 /\ A[3][3] = 1 /\ A[4][3] = 4 /\ A[5][3] = 2
      /\ A[6][3] = 2 /\ A[7][3] = 8 /\ A[8][3] = 4 /\ A[9][3] = 4
<1> DEFINE A == Messages!ChannelUpdate
<1>1. /\ IsList(A) /\ Len(A) = 9
      /\ A[1] = Messages!Bytes("signature", 64)
      /\ A[2] = Messages!Bytes("chain_hash", 32)
      /\ A[3] = Messages!Uint("short_channel_id", 1)
      /\ A[4] = Messages!Uint("timestamp", 4)
      /\ A[5] = Messages!Uint("flags", 2)
      /\ A[6] = Messages!Uint("cltv_expiry_delta", 2)
      /\ A[7] = Messages!Bytes("htlc_minimum_msat", 8)
      /\ A[8] = Messages!Uint("fee_base_msat", 4)
      /\ A[9] = Messages!Uint("fee_proportional_millionths", 4)
  BY DEF Messages!ChannelUpdate, IsList
<1> HIDE DEF A
<1>2. /\ Plain(A[1]) /\ Plain(A[2]) /\ Plain(A[3]) /\ Plain(A[4]) /\ Plain(A[5])
  BY <1>1, ItemParts DEF Plain
<1>3. /\ Plain(A[6]) /\ Plain(A[7]) /\ Plain(A[8]) /\ Plain(A[9])
  BY <1>1, ItemParts DEF Plain
<1>4. \A k \in 1..9 : \/ k = 1 \/ k = 2 \/ k = 3 \/ k = 4 \/ k = 5 \/ k = 6
                      \/ k = 7 \/ k = 8 \/ k = 9
  OBVIOUS
<1>5. \A k \in 1..Len(A) : Plain(A[k])
  BY <1>1, <1>2, <1>3, <1>4
<1>6. PlainLayout(A)
  BY <1>1, <1>5 DEF PlainLayout
<1>8. /\ A[1][1] = "bytes" /\ A[2][1] = "bytes" /\ A[3][1] = "uint"
      /\ A[4][1] = "uint" /\ A[5][1] = "uint" /\ A[6][1] = "uint"
      /\ A[7][1] = "bytes" /\ A[8][1] = "uint" /\ A[9][1] = "uint"
  BY <1>1, ItemParts
<1>9. \A k \in 1..9 : A[k][1] \in {"uint", "bytes"}
  BY <1>4, <1>8
<1>10. /\ A[1][3] = 64 /\ A[2][3] = 32 /\ A[3][3] = 1 /\ A[4][3] = 4 /\ A[5][3] = 2
       /\ A[6][3] = 2 /\ A[7][3] = 8 /\ A[8][3] = 4 /\ A[9][3] = 4
  BY <1>1, ItemParts
<1> QED
  BY <1>1, <1>6, <1>9, <1>10 DEF A

LEMMA PongLayout == PlainLayout(Messages!Pong)
<1> DEFINE A == Messages!Pong
<1>1. IsList(A) /\ Len(A) = 1 /\ A[1] = Messages!Counted("ignored")
  BY DEF Messages!Pong, IsList
<1> HIDE DEF A
<1>2. Plain(A[1])
  BY <1>1, ItemParts DEF Plain
<1>3. \A k \in 1..Len(A) : k = 1
  BY <1>1
<1>4. PlainLayout(A)
  BY <1>1, <1>2, <1>3 DEF PlainLayout
<1> QED
  BY <1>4 DEF A

LEMMA OtherLayouts ==
  /\ Sized(Messages!NodeAnnouncement) /\ Sized(Messages!AnnouncementSignatures)
  /\ Sized(Messages!Ping) /\ Sized(Messages!Init16) /\ Sized(Messages!Error17)
<1>2. Sized(Messages!NodeAnnouncement)
  <2> DEFINE A == Messages!NodeAnnouncement
  <2>1. /\ IsList(A) /\ Len(A) = 7
        /\ A[1] = Messages!Bytes("signature", 8)
        /\ A[2] = Messages!Counted("features")
        /\ A[3] = Messages!Uint("timestamp", 4)
        /\ A[4] = Messages!Bytes("node_id", 33)
        /\ A[5] = Messages!Bytes("rgb_color", 3)
        /\ A[6] = Messages!Bytes("alias", 32)
        /\ A[7] = Messages!Counted("addresses")
    BY DEF Messages!NodeAnnouncement, IsList
  <2> HIDE DEF A
  <2>2. /\ A[1][3] = 8 /\ A[2][3] = 0 /\ A[3][3] = 4 /\ A[4][3] = 33 /\ A[5][3] = 3
        /\ A[6][3] = 32 /\ A[7][3] = 0
    BY <2>1, ItemParts
  <2>3. \A k \in 1..Len(A) : A[k][3] \in Nat
    <3>1. \A k \in 1..Len(A) : \/ k = 1 \/ k = 2 \/ k = 3 \/ k = 4 \/ k = 5 \/ k = 6
                               \/ k = 7
      BY <2>1
    <3> QED
      BY <2>2, <3>1
  <2> QED
    BY <2>1, <2>3 DEF Sized, A
<1>3. Sized(Messages!AnnouncementSignatures)
  <2> DEFINE A == Messages!AnnouncementSignatures
  <2>1. /\ IsList(A) /\ Len(A) = 4
        /\ A[1] = Messages!Uint("channel_id", 4)
        /\ A[2] = Messages!Uint("short_channel_id", 1)
        /\ A[3] = Messages!Bytes("node_signature", 8)
        /\ A[4] = Messages!Bytes("bitcoin_signature", 8)
    BY DEF Messages!AnnouncementSignatures, IsList
  <2> HIDE DEF A
  <2>2. A[1][3] = 4 /\ A[2][3] = 1 /\ A[3][3] = 8 /\ A[4][3] = 8
    BY <2>1, ItemParts
  <2>3. \A k \in 1..Len(A) : A[k][3] \in Nat
    <3>1. \A k \in 1..Len(A) : k = 1 \/ k = 2 \/ k = 3 \/ k = 4
      BY <2>1
    <3> QED
      BY <2>2, <3>1
  <2> QED
    BY <2>1, <2>3 DEF Sized, A
<1>4. ASSUME NEW u, NEW w, u[3] \in Nat, w[3] \in Nat
      PROVE  Sized(<<u, w>>)
  <2>1. IsList(<<u, w>>) /\ Len(<<u, w>>) = 2 /\ <<u, w>>[1] = u /\ <<u, w>>[2] = w
    BY DEF IsList
  <2> DEFINE A == <<u, w>>
  <2> HIDE DEF A
  <2>2. \A k \in 1..2 : k = 1 \/ k = 2
    OBVIOUS
  <2>3. \A k \in 1..2 : A[k][3] \in Nat
    BY <1>4, <2>1, <2>2 DEF A
  <2>4. Sized(A)
    BY <2>1, <2>3 DEF Sized, A
  <2> QED
    BY <2>4 DEF A
<1>5. /\ Sized(Messages!Ping) /\ Sized(Messages!Init16) /\ Sized(Messages!Error17)
  <2>1. /\ Messages!Uint("num_pong_bytes", 2)[3] \in Nat
        /\ Messages!Uint("globalFeatures", 2)[3] \in Nat
        /\ Messages!Uint("localFeatures", 2)[3] \in Nat
        /\ Messages!Uint("channel_id", 4)[3] \in Nat
        /\ Messages!Counted("ignored")[3] \in Nat
        /\ Messages!Counted("data")[3] \in Nat
    BY ItemParts
  <2> QED
    BY <1>4, <2>1, Zenon DEF Messages!Ping, Messages!Init16, Messages!Error17
<1> QED
  BY <1>2, <1>3, <1>5

ReaderLayouts == {"pong", "channel_announcement", "channel_update"}

LEMMA LayoutsSized ==
  ASSUME NEW kind \in Messages!Kinds
  PROVE  /\ Sized(Messages!Layout(kind))
         /\ kind \in ReaderLayouts => PlainLayout(Messages!Layout(kind))
<1>1. /\ kind = "init" => Messages!Layout(kind) = Messages!Init16
      /\ kind = "error" => Messages!Layout(kind) = Messages!Error17
      /\ kind = "ping" => Messages!Layout(kind) = Messages!Ping
      /\ kind = "pong" => Messages!Layout(kind) = Messages!Pong
      /\ kind = "channel_announcement" =>
            Messages!Layout(kind) = Messages!ChannelAnnouncement
      /\ kind = "node_announcement" => Messages!Layout(kind) = Messages!NodeAnnouncement
      /\ kind = "channel_update" => Messages!Layout(kind) = Messages!ChannelUpdate
      /\ kind = "announcement_signatures" =>
            Messages!Layout(kind) = Messages!AnnouncementSignatures
  BY DEF Messages!Layout
<1>2. kind \in {"init", "error", "ping", "pong", "channel_announcement",
                "node_announcement", "channel_update", "announcement_signatures"}
  BY DEF Messages!Kinds
<1>3. PlainLayout(Messages!ChannelUpdate)
  BY UpdateLayout
<1>4. kind \in ReaderLayouts => PlainLayout(Messages!Layout(kind))
  BY <1>1, <1>3, PongLayout, AnnouncementLayout DEF ReaderLayouts
<1>5. Sized(Messages!Layout(kind))
  <2>1. CASE kind \in ReaderLayouts
    BY <1>4, <2>1, PlainIsSized
  <2>2. CASE kind \notin ReaderLayouts
    BY <1>1, <1>2, <2>2, OtherLayouts DEF ReaderLayouts
  <2> QED
    BY <2>1, <2>2
<1> QED
  BY <1>4, <1>5

LEMMA ItemIsList ==
  ASSUME NEW m, m.size \in Nat, m.second \in Nat, NEW item, item[3] \in Nat
  PROVE  IsList(Messages!ItemBytes(m, item))
<1>1. Messages!SizeOf(m, item[2]) \in Nat
  BY DEF Messages!SizeOf
<1> DEFINE n == Messages!SizeOf(m, item[2])
<1> HIDE DEF n
<1>2. IsList(Messages!Count(m.second))
  BY CountIs
<1>3. IsList(Messages!Count(n) \o Messages!Field(item[2], n))
  BY <1>1, CountedIs DEF n, CountedBytes
<1>4. IsList(Messages!Field(item[2], item[3]))
  BY FieldIs
<1> QED
  BY <1>2, <1>3, <1>4 DEF Messages!ItemBytes, n

LEMMA PayloadIs ==
  ASSUME NEW m, m.kind \in Messages!Kinds, m.size \in Nat, m.second \in Nat
  PROVE  /\ AllLists(ItemsOf(m, Messages!Layout(m.kind)))
         /\ Messages!Payload(m) = FlattenSeq(ItemsOf(m, Messages!Layout(m.kind)))
         /\ IsList(Messages!Payload(m)) /\ Len(Messages!Payload(m)) \in Nat
<1> DEFINE layout == Messages!Layout(m.kind)  n == Len(layout)  U == ItemsOf(m, layout)
<1>1. Sized(layout)
  BY LayoutsSized
<1>2. U = [k \in DOMAIN layout |-> Messages!ItemBytes(m, layout[k])]
  BY DEF ItemsOf
<1>3. Messages!Payload(m) = FlattenSeq(U)
  BY <1>2 DEF Messages!Payload, Messages!FlattenSeq, FlattenSeq
<1> HIDE DEF layout, U
<1>4. n \in Nat /\ DOMAIN layout = 1..n
  BY <1>1 DEF Sized, IsList
<1>5. U = [k \in 1..n |-> Messages!ItemBytes(m, layout[k])]
  BY <1>2, <1>4
<1>6. \A k \in 1..n : U[k] = Messages!ItemBytes(m, layout[k]) /\ layout[k][3] \in Nat
  BY <1>1, <1>5 DEF Sized
<1>7. \A k \in 1..n : IsList(U[k])
  BY <1>6, ItemIsList
<1>8. Len(U) = n /\ U = [k \in 1..n |-> U[k]]
  BY <1>4, <1>5
<1> HIDE DEF n
<1>9. AllLists(U)
  BY <1>4, <1>7, <1>8 DEF AllLists, IsList
<1>10. IsList(FlattenSeq(U))
  <2>1. IsList(<<>>)
    BY DEF IsList
  <2> QED
    BY <1>9, <2>1, FlattenOne
<1> QED
  BY <1>3, <1>9, <1>10 DEF U, layout, IsList

(* A pong, a ping: the count of the bytes to ignore, then those bytes.     *)
LEMMA PongPayload ==
  ASSUME NEW m, m.kind = "pong", m.size \in Nat, m.second \in Nat
  PROVE  Messages!Payload(m) = CountedBytes("ignored", m.size)
<1> DEFINE item == Messages!Counted("ignored")  b == Messages!ItemBytes(m, item)
           layout == Messages!Layout(m.kind)
<1>1. layout = <<item>>
  BY DEF Messages!Layout, Messages!Pong
<1>2. item[1] = "counted" /\ item[2] = "ignored" /\ item[3] = 0
  BY DEF Messages!Counted
<1>3. b = CountedBytes("ignored", m.size)
  <2> HIDE DEF item
  <2> QED
    BY <1>2 DEF Messages!ItemBytes, Messages!SizeOf, CountedBytes
<1>4. ItemsOf(m, layout) = <<b>>
  <2> HIDE DEF item, layout, b
  <2>1. ItemsOf(m, layout) = [k \in 1..1 |-> Messages!ItemBytes(m, layout[k])]
    BY <1>1 DEF ItemsOf
  <2>2. layout[1] = item
    BY <1>1
  <2>3. \A k \in 1..1 : k = 1
    OBVIOUS
  <2>4. ItemsOf(m, layout) = [k \in 1..1 |-> b]
    BY <2>1, <2>2, <2>3 DEF b
  <2> QED
    BY <2>4
<1>5. Messages!Payload(m) = FlattenSeq(ItemsOf(m, layout))
  BY PayloadIs DEF Messages!Kinds
<1>6. IsList(b)
  BY <1>3, CountedIs
<1> HIDE DEF item, layout, b
<1>7. FlattenSeq(<<b>>) = b
  BY <1>6, FlattenLists
<1> QED
  BY <1>3, <1>4, <1>5, <1>7

LEMMA PingPayload ==
  ASSUME NEW m, m.kind = "ping", m.size \in Nat, m.second \in Nat
  PROVE  Messages!Payload(m) = Messages!Count(m.second) \o CountedBytes("ignored", m.size)
<1> DEFINE one == Messages!Uint("num_pong_bytes", 2)
           two == Messages!Counted("ignored")
           a == Messages!ItemBytes(m, one)  b == Messages!ItemBytes(m, two)
           layout == Messages!Layout(m.kind)
<1>1. layout = <<one, two>>
  BY DEF Messages!Layout, Messages!Ping
<1>2. /\ one[2] = "num_pong_bytes" /\ two[1] = "counted" /\ two[2] = "ignored"
      /\ one[1] = "uint"
  BY DEF Messages!Counted, Messages!Uint
<1>3. a = Messages!Count(m.second) /\ b = CountedBytes("ignored", m.size)
  <2> HIDE DEF one, two
  <2>1. a = Messages!Count(m.second)
    BY <1>2 DEF Messages!ItemBytes
  <2>2. b = CountedBytes("ignored", m.size)
    BY <1>2 DEF Messages!ItemBytes, Messages!SizeOf, CountedBytes
  <2> QED
    BY <2>1, <2>2
<1>4. ItemsOf(m, layout) = <<a, b>>
  <2> HIDE DEF one, two, layout, a, b
  <2>1. ItemsOf(m, layout) = [k \in 1..2 |-> Messages!ItemBytes(m, layout[k])]
    BY <1>1 DEF ItemsOf
  <2>2. layout[1] = one /\ layout[2] = two
    BY <1>1
  <2>3. \A k \in 1..2 : k = 1 \/ k = 2
    OBVIOUS
  <2>4. ItemsOf(m, layout) = [k \in 1..2 |-> IF k = 1 THEN a ELSE b]
    BY <2>1, <2>2, <2>3 DEF a, b
  <2>5. [k \in 1..2 |-> IF k = 1 THEN a ELSE b] = <<a, b>>
    OBVIOUS
  <2> QED
    BY <2>4, <2>5
<1>5. Messages!Payload(m) = FlattenSeq(ItemsOf(m, layout))
  BY PayloadIs DEF Messages!Kinds
<1>6. IsList(a) /\ IsList(b)
  BY <1>3, CountedIs, CountIs
<1> HIDE DEF one, two, layout, a, b
<1>7. FlattenSeq(<<a, b>>) = a \o b
  BY <1>6, FlattenLists
<1> QED
  BY <1>3, <1>4, <1>5, <1>7

(***************************************************************************)
(* The items of a layout written one after the other.                      *)
(***************************************************************************)
IsPen(writer, m, layout, start, n) ==
  writer = [k \in 0..n |->
              IF k = 0 THEN start ELSE Messages!WriteItem(m, writer[k - 1], layout[k])]

LEMMA PensExist ==
  ASSUME NEW m, NEW layout, NEW start, NEW n \in Nat
  PROVE  \E writer : IsPen(writer, m, layout, start, n)
<1> DEFINE Up(f, i) == f = [k \in 0..i |->
              IF k = 0 THEN start ELSE Messages!WriteItem(m, f[k - 1], layout[k])]
           T == {i \in Nat : \E f : Up(f, i)}
<1>1. 0 \in T
  <2> DEFINE g == [k \in 0..0 |-> start]
  <2>1. \A k \in 0..0 : k = 0
    OBVIOUS
  <2>2. g = [k \in 0..0 |->
              IF k = 0 THEN start ELSE Messages!WriteItem(m, g[k - 1], layout[k])]
    BY <2>1
  <2> HIDE DEF g
  <2>3. Up(g, 0)
    BY <2>2
  <2> HIDE DEF Up
  <2> QED
    BY <2>3
<1>2. ASSUME NEW i \in Nat, i \in T PROVE i + 1 \in T
  <2>1. PICK f : Up(f, i)
    BY <1>2
  <2> DEFINE g == [k \in 0..i + 1 |->
              IF k = 0 THEN start ELSE Messages!WriteItem(m, f[k - 1], layout[k])]
  <2>2. \A k \in 0..i : f[k] = IF k = 0 THEN start
                                ELSE Messages!WriteItem(m, f[k - 1], layout[k])
    BY <2>1
  <2>3. \A k \in 0..i : g[k] = f[k]
    BY <2>2
  <2>4. \A k \in 0..i + 1 : k # 0 => k - 1 \in 0..i
    OBVIOUS
  <2>5. g = [k \in 0..i + 1 |->
              IF k = 0 THEN start ELSE Messages!WriteItem(m, g[k - 1], layout[k])]
    BY <2>3, <2>4
  <2> HIDE DEF g
  <2>6. Up(g, i + 1)
    BY <2>5
  <2> HIDE DEF Up
  <2>7. i + 1 \in Nat /\ \E a : Up(a, i + 1)
    BY <2>6
  <2> QED
    BY <2>7
<1>3. n \in T
  <2> HIDE DEF T
  <2>1. Nat \subseteq T
    BY <1>1, <1>2, Induct
  <2> QED
    BY <2>1
<1> QED
  BY <1>3 DEF IsPen

Start(m, n) == Messages!WriteUint(Messages!Writer(n), Messages!Type(m.kind))

Writes(writer, m, n, last) ==
  /\ Messages!WriteAll(m, n) = Messages!Written(writer[last])
  /\ writer[0] = Start(m, n)
  /\ \A k \in 1..last :
        writer[k] = Messages!WriteItem(m, writer[k - 1], Messages!Layout(m.kind)[k])

LEMMA PenOf ==
  ASSUME NEW m, NEW n, NEW last, last = Len(Messages!Layout(m.kind)), last \in Nat
  PROVE  \E writer : Writes(writer, m, n, last)
<1> DEFINE layout == Messages!Layout(m.kind)
           writer == CHOOSE writer : writer = [k \in 0..Len(layout) |->
              IF k = 0 THEN Messages!WriteUint(Messages!Writer(n), Messages!Type(m.kind))
                       ELSE Messages!WriteItem(m, writer[k - 1], layout[k])]
<1>1. Messages!WriteAll(m, n) = Messages!Written(writer[Len(layout)])
  BY DEF Messages!WriteAll
<1>2. IsPen(writer, m, layout, Start(m, n), Len(layout))
  <2>1. \E f : IsPen(f, m, layout, Start(m, n), Len(layout))
    <3>1. Len(layout) \in Nat
      OBVIOUS
    <3> HIDE DEF layout
    <3> QED
      BY <3>1, PensExist, Zenon
  <2>2. \E f : f = [k \in 0..Len(layout) |->
              IF k = 0 THEN Messages!WriteUint(Messages!Writer(n), Messages!Type(m.kind))
                       ELSE Messages!WriteItem(m, f[k - 1], layout[k])]
    BY <2>1, Zenon DEF IsPen, Start
  <2>3. writer = [k \in 0..Len(layout) |->
              IF k = 0 THEN Messages!WriteUint(Messages!Writer(n), Messages!Type(m.kind))
                       ELSE Messages!WriteItem(m, writer[k - 1], layout[k])]
    BY <2>2, Zenon
  <2> HIDE DEF writer
  <2> QED
    BY <2>3, Zenon DEF IsPen, Start
<1> HIDE DEF writer
<1>3. writer[0] = Start(m, n)
  BY <1>2 DEF IsPen
<1>4. \A k \in 1..last : writer[k] = Messages!WriteItem(m, writer[k - 1], layout[k])
  BY <1>2 DEF IsPen
<1> QED
  BY <1>1, <1>3, <1>4 DEF Writes

(* Only numbers and bytes, and room for them: all of them are written.     *)
LEMMA AllWritten ==
  ASSUME NEW m, m.kind \in Messages!Kinds, m.size \in Nat, m.second \in Nat,
         m.kind # "channel_announcement",
         PlainLayout(Messages!Layout(m.kind)),
         \A k \in 1..Len(Messages!Layout(m.kind)) :
            Messages!Layout(m.kind)[k][1] \in {"uint", "bytes"},
         NEW n \in Nat, n = 2 + Len(Messages!Payload(m))
  PROVE  Messages!WriteAll(m, n)
           = [ok |-> TRUE, fields |-> Messages!Type(m.kind) \o Messages!Payload(m)]
<1> DEFINE layout == Messages!Layout(m.kind)  last == Len(layout)
           U == ItemsOf(m, layout)  all == Messages!Payload(m)
           type == Messages!Type(m.kind)
<1>1. /\ AllLists(U) /\ Len(U) = last /\ last \in Nat
      /\ \A k \in 1..last : U[k] = Messages!ItemBytes(m, layout[k])
  BY ItemsAreLists
<1>2. all = FlattenSeq(U) /\ Len(all) \in Nat
  BY PayloadIs
<1>3. PICK front : IsFronts(front, U)
  BY <1>1, Fronts
<1>4. /\ front[0] = <<>> /\ front[last] = all
      /\ \A k \in 1..last : front[k] = front[k - 1] \o U[k] /\ IsList(U[k])
      /\ \A k \in 0..last : IsList(front[k]) /\ Len(front[k]) <= Len(all)
  BY <1>1, <1>2, <1>3 DEF IsFronts, Begins, AllLists
<1>5. \A k \in 1..last : /\ Plain(layout[k]) /\ layout[k][1] \in {"uint", "bytes"}
                         /\ U[k] = Messages!Field(layout[k][2], layout[k][3])
  BY <1>1, ItemBytesIs DEF PlainLayout
<1>6. IsList(type) /\ Len(type) = 2
  BY TypeIs
<1>70. PICK writer : Writes(writer, m, n, last)
  BY <1>1, PenOf
<1>7. /\ Messages!WriteAll(m, n) = Messages!Written(writer[last])
            /\ writer[0] = Start(m, n)
            /\ \A k \in 1..last :
                  writer[k] = Messages!WriteItem(m, writer[k - 1], layout[k])
  BY <1>70 DEF Writes
<1>8. m.kind # "channel_announcement" /\ n \in Nat /\ n = 2 + Len(all)
  OBVIOUS
<1> HIDE DEF layout, last, U, all, type
<1> DEFINE Ok(k) == writer[k] = Filled(type \o front[k], n)
           T == {k \in Nat : k <= last => Ok(k)}
<1>9. 0 \in T
  <2>1. Messages!Writer(n) = Filled(<<>>, n)
    BY <1>8, WriterIs
  <2>2. IsList(<<>>) /\ Len(<<>>) = 0
    BY DEF IsList
  <2>3. 0 + Len(type) <= n
    BY <1>2, <1>6, <1>8
  <2>4. Messages!WriteUint(Filled(<<>>, n), type) = Filled(<<>> \o type, n)
    BY <1>6, <1>8, <2>2, <2>3, WriteOn
  <2>5. <<>> \o type = type /\ type \o <<>> = type
    <3>1. type \in Seq({type[j] : j \in 1..Len(type)})
      BY <1>6, ListIsSeq
    <3> QED
      BY <3>1, ConcatEmptySeq
  <2>6. writer[0] = Filled(type, n)
    BY <1>7, <2>1, <2>4, <2>5 DEF Start, type
  <2>7. Ok(0)
    BY <1>4, <2>5, <2>6
  <2> HIDE DEF Ok
  <2> QED
    BY <2>7
<1>10. ASSUME NEW i \in Nat, i \in T PROVE i + 1 \in T
  <2> SUFFICES ASSUME i + 1 <= last PROVE Ok(i + 1)
    OBVIOUS
  <2>0. PICK k : k = i + 1
    OBVIOUS
  <2>1. k \in 1..last /\ k - 1 = i /\ i \in 0..last /\ k \in 0..last /\ i <= last
    BY <1>1, <2>0
  <2>2. writer[i] = Filled(type \o front[i], n)
    BY <1>10, <2>1
  <2> DEFINE s == type \o front[i]  w == Filled(s, n)  b == U[k]  item == layout[k]
  <2>3. IsList(front[i]) /\ IsList(b) /\ IsList(front[k]) /\ front[k] = front[i] \o b
    BY <1>4, <2>1
  <2>4. IsList(s) /\ Len(s) = 2 + Len(front[i])
    <3>1. IsList(type \o front[i]) /\ Len(type \o front[i]) = Len(type) + Len(front[i])
      BY <1>6, <2>3, Joined
    <3> QED
      BY <1>6, <3>1
  <2>5. Len(s) + Len(b) <= n
    <3>1. Len(front[i] \o b) = Len(front[i]) + Len(b)
      BY <2>3, Joined
    <3>2. Len(front[k]) <= Len(all) /\ Len(front[k]) = Len(front[i]) + Len(b)
      BY <1>4, <2>1, <2>3, <3>1
    <3>3. Len(front[k]) \in Nat /\ Len(front[i]) \in Nat /\ Len(b) \in Nat
      BY <2>3 DEF IsList
    <3> DEFINE x == Len(front[k])  y == Len(front[i])  z == Len(b)  v == Len(s)
    <3>4. x <= Len(all) /\ x = y + z /\ v = 2 + y /\ x \in Nat /\ y \in Nat /\ z \in Nat
      BY <2>4, <3>2, <3>3
    <3> HIDE DEF x, y, z, v
    <3>5. v + z <= n
      BY <1>2, <1>8, <3>4
    <3> QED
      BY <3>5 DEF v, z
  <2> HIDE DEF s, b, item
  <2>6. /\ Messages!WriteBytes(w, b) = Filled(s \o b, n)
        /\ Messages!WriteUint(w, b) = Filled(s \o b, n)
    <3>1. IsList(s) /\ IsList(b) /\ Len(s) + Len(b) <= n
      BY <2>3, <2>4, <2>5
    <3> QED
      BY <1>8, <3>1, WriteOn
  <2>7. w.ok = TRUE
    BY DEF Filled
  <2> HIDE DEF w
  <2>8. b = Messages!Field(item[2], item[3]) /\ item[1] \in {"uint", "bytes"}
    BY <1>5, <2>1 DEF b, item
  <2>9. ~Messages!NumberCopied(m, item)
    BY <1>8 DEF Messages!NumberCopied
  <2>10. Messages!WriteItem(m, w, item) = Filled(s \o b, n)
    <3>1. CASE item[1] = "uint"
      BY <2>6, <2>7, <2>8, <2>9, <3>1 DEF Messages!WriteItem
    <3>2. CASE item[1] = "bytes"
      BY <2>6, <2>7, <2>8, <2>9, <3>2 DEF Messages!WriteItem
    <3> QED
      BY <2>8, <3>1, <3>2
  <2>11. s \o b = type \o front[k]
    <3>0. IsList(type) /\ IsList(front[i]) /\ IsList(b)
      BY <1>6, <2>3
    <3>1. (type \o front[i]) \o b = type \o (front[i] \o b)
      <4>1. Grouped(type, front[i], b)
        BY <3>0, Regroup
      <4> QED
        BY <4>1 DEF Grouped
    <3> QED
      BY <2>3, <3>1 DEF s
  <2>12. writer[k] = Messages!WriteItem(m, w, item)
    BY <1>7, <2>1, <2>2 DEF w, s, item
  <2>13. Ok(k)
    BY <2>10, <2>11, <2>12
  <2> QED
    BY <2>0, <2>13
<1>11. Ok(last)
  <2> HIDE DEF T
  <2>1. Nat \subseteq T
    BY <1>9, <1>10, Induct
  <2>2. last \in T /\ last <= last
    BY <1>1, <2>1
  <2> HIDE DEF Ok
  <2> QED
    BY <2>2 DEF T
<1>12. writer[last] = Filled(type \o all, n)
  BY <1>4, <1>11
<1>13. Padded(type \o all, n) = type \o all
  <2>1. IsList(all)
    BY <1>1, <1>4
  <2>2. IsList(type \o all) /\ Len(type \o all) = n
    <3>1. IsList(type \o all) /\ Len(type \o all) = Len(type) + Len(all)
      BY <1>6, <2>1, Joined
    <3> QED
      BY <1>6, <1>8, <3>1
  <2> QED
    BY <2>2, PaddedFull
<1>14. Messages!Written(Filled(type \o all, n)) = [ok |-> TRUE, fields |-> type \o all]
  BY <1>13 DEF Messages!Written, Filled
<1> QED
  BY <1>7, <1>12, <1>14 DEF all, type

LEMMA UpdateSize ==
  ASSUME NEW m, m.kind = "channel_update", m.size \in Nat, m.second \in Nat
  PROVE  Len(Messages!Payload(m)) = 121
<1> DEFINE layout == Messages!ChannelUpdate
           U == ItemsOf(m, layout)  all == Messages!Payload(m)
<1>0. Messages!Layout(m.kind) = layout /\ m.kind \in Messages!Kinds
  BY DEF Messages!Layout, Messages!Kinds
<1>1. /\ PlainLayout(layout) /\ Len(layout) = 9
      /\ \A k \in 1..9 : layout[k][1] \in {"uint", "bytes"}
      /\ layout[1][3] = 64 /\ layout[2][3] = 32 /\ layout[3][3] = 1 /\ layout[4][3] = 4
      /\ layout[5][3] = 2 /\ layout[6][3] = 2 /\ layout[7][3] = 8 /\ layout[8][3] = 4
      /\ layout[9][3] = 4
  BY UpdateLayout
<1> HIDE DEF layout
<1>2. /\ AllLists(U) /\ Len(U) = 9
      /\ \A k \in 1..9 : U[k] = Messages!ItemBytes(m, layout[k])
  <2>1. PlainLayout(layout) /\ Len(layout) = 9
    BY <1>1
  <2>2. \A k \in 1..Len(layout) : U[k] = Messages!ItemBytes(m, layout[k])
    BY <2>1, ItemsAreLists
  <2>3. AllLists(U) /\ Len(U) = Len(layout)
    BY <2>1, ItemsAreLists
  <2> QED
    BY <2>1, <2>2, <2>3
<1>3. all = FlattenSeq(U)
  BY <1>0, PayloadIs
<1> HIDE DEF U
<1>4. PICK front : IsFronts(front, U)
  BY <1>2, Fronts
<1>5. \A k \in 1..9 : Len(U[k]) = layout[k][3]
  <2>1. \A k \in 1..9 : Plain(layout[k]) /\ layout[k][3] \in Nat
    BY <1>1 DEF PlainLayout, Plain
  <2>2. \A k \in 1..9 : U[k] = Messages!Field(layout[k][2], layout[k][3])
    BY <1>1, <1>2, <2>1, ItemBytesIs
  <2> SUFFICES ASSUME NEW k \in 1..9 PROVE Len(U[k]) = layout[k][3]
    OBVIOUS
  <2>3. Len(Messages!Field(layout[k][2], layout[k][3])) = layout[k][3]
    BY <2>1, FieldIs
  <2> QED
    BY <2>2, <2>3
<1>6. /\ Len(front[0]) = 0 /\ front[9] = all
      /\ \A k \in 1..9 : Len(front[k]) = Len(front[k - 1]) + Len(U[k])
  <2>1. Len(<<>>) = 0
    OBVIOUS
  <2> QED
    BY <1>2, <1>3, <1>4, <2>1 DEF IsFronts
<1> DEFINE x(k) == Len(front[k])
<1>7. \A k \in 1..9 : x(k) = x(k - 1) + layout[k][3]
  BY <1>5, <1>6
<1>8. x(0) = 0
  BY <1>6
<1>9. /\ 1 \in 1..9 /\ 2 \in 1..9 /\ 3 \in 1..9 /\ 4 \in 1..9 /\ 5 \in 1..9 /\ 6 \in 1..9
      /\ 7 \in 1..9 /\ 8 \in 1..9 /\ 9 \in 1..9
      /\ 1 - 1 = 0 /\ 2 - 1 = 1 /\ 3 - 1 = 2 /\ 4 - 1 = 3 /\ 5 - 1 = 4 /\ 6 - 1 = 5
      /\ 7 - 1 = 6 /\ 8 - 1 = 7 /\ 9 - 1 = 8
  OBVIOUS
<1> HIDE DEF x
<1>10. x(1) = 64 /\ x(2) = 96 /\ x(3) = 97
  <2>1. x(1) = 64
    BY <1>1, <1>7, <1>8, <1>9
  <2>2. x(2) = 96
    BY <1>1, <1>7, <1>9, <2>1
  <2> QED
    BY <1>1, <1>7, <1>9, <2>1, <2>2
<1>11. x(4) = 101 /\ x(5) = 103 /\ x(6) = 105
  <2>1. x(4) = 101
    BY <1>1, <1>7, <1>9, <1>10
  <2>2. x(5) = 103
    BY <1>1, <1>7, <1>9, <2>1
  <2> QED
    BY <1>1, <1>7, <1>9, <2>1, <2>2
<1>12. x(7) = 113 /\ x(8) = 117 /\ x(9) = 121
  <2>1. x(7) = 113
    BY <1>1, <1>7, <1>9, <1>11
  <2>2. x(8) = 117
    BY <1>1, <1>7, <1>9, <2>1
  <2> QED
    BY <1>1, <1>7, <1>9, <2>1, <2>2
<1> QED
  BY <1>6, <1>12 DEF x

(***************************************************************************)
(* What is written keeps the size of its buffer; the seventh field of a    *)
(* channel announcement has no bytes to copy, and a writer that has failed *)
(* stays so.                                                               *)
(***************************************************************************)
IsWriter(w, n) ==
  /\ DOMAIN w = {"ok", "pos", "buffer"} /\ w.ok \in BOOLEAN
  /\ IsList(w.buffer) /\ Len(w.buffer) = n

LEMMA WritesKeep ==
  ASSUME NEW w, NEW n, IsWriter(w, n), NEW b
  PROVE  IsWriter(Messages!WriteBytes(w, b), n) /\ IsWriter(Messages!WriteUint(w, b), n)
<1> DEFINE v == Messages!WriteBytes(w, b)  c == Messages!Copy(w.buffer, w.pos, b)
<1>1. DOMAIN v = {"ok", "pos", "buffer"} /\ v.ok = w.ok /\ v.buffer = c
  <2> HIDE DEF c
  <2>1. v = [w EXCEPT !.pos = w.pos + Len(b), !.buffer = c]
    BY DEF Messages!WriteBytes, c
  <2> HIDE DEF v
  <2> QED
    BY <2>1 DEF IsWriter
<1>2. IsList(c) /\ Len(c) = n
  <2>1. n \in Nat /\ DOMAIN w.buffer = 1..n
    BY DEF IsWriter, IsList
  <2>2. c = [i \in 1..n |-> IF i \in w.pos + 1..w.pos + Len(b)
                            THEN b[i - w.pos] ELSE w.buffer[i]]
    BY <2>1 DEF Messages!Copy
  <2> QED
    BY <2>1, <2>2 DEF IsList
<1> HIDE DEF v, c
<1>3. IsWriter(v, n)
  BY <1>1, <1>2 DEF IsWriter
<1>4. IsWriter([w EXCEPT !.ok = FALSE], n)
  BY DEF IsWriter
<1> QED
  BY <1>3, <1>4 DEF v, Messages!WriteUint

LEMMA ItemsKeep ==
  ASSUME NEW w, NEW n, IsWriter(w, n), NEW m, NEW item, Plain(item)
  PROVE  IsWriter(Messages!WriteItem(m, w, item), n)
<1>1. IsWriter([w EXCEPT !.ok = FALSE], n)
  BY DEF IsWriter
<1>2. ASSUME NEW b
      PROVE  IsWriter(Messages!WriteBytes(w, b), n) /\ IsWriter(Messages!WriteUint(w, b), n)
  BY WritesKeep
<1>3. ASSUME NEW b, NEW c
      PROVE  IsWriter(Messages!WriteBytes(Messages!WriteUint(w, b), c), n)
  BY <1>2, WritesKeep
<1> QED
  BY <1>1, <1>2, <1>3 DEF Messages!WriteItem, Plain

LEMMA SeventhIs ==
  /\ IsList(Messages!ChannelAnnouncement) /\ Len(Messages!ChannelAnnouncement) = 11
  /\ Messages!ChannelAnnouncement[7] = Messages!Uint("short_channel_id", 1)
BY DEF Messages!ChannelAnnouncement, IsList

LEMMA AnnouncementThrows ==
  ASSUME NEW m, m.kind = "channel_announcement", NEW n \in Nat
  PROVE  Messages!WriteAll(m, n) = [ok |-> FALSE, fields |-> <<>>]
<1> DEFINE layout == Messages!Layout(m.kind)  last == Len(layout)
<1>1. /\ PlainLayout(layout) /\ last \in Nat /\ last = 11
      /\ layout[7] = Messages!Uint("short_channel_id", 1)
  <2>1. layout = Messages!ChannelAnnouncement
    BY DEF Messages!Layout
  <2> QED
    BY <2>1, AnnouncementLayout, SeventhIs
<1>2. PICK writer : Writes(writer, m, n, last)
  BY <1>1, PenOf
<1>3. /\ Messages!WriteAll(m, n) = Messages!Written(writer[last])
      /\ writer[0] = Start(m, n)
      /\ \A k \in 1..last :
            writer[k] = Messages!WriteItem(m, writer[k - 1], layout[k])
  BY <1>2 DEF Writes
<1> HIDE DEF layout, last
<1> DEFINE T == {k \in Nat : k <= last => IsWriter(writer[k], n)}
<1>4. 0 \in T
  <2>1. Messages!Writer(n) = [ok |-> TRUE, pos |-> 0, buffer |-> Messages!Zeroes(n)]
    BY DEF Messages!Writer
  <2>2. IsWriter(Messages!Writer(n), n)
    BY <2>1, ZeroesAre DEF IsWriter
  <2>3. IsWriter(Start(m, n), n)
    BY <2>2, WritesKeep DEF Start
  <2> QED
    BY <1>3, <2>3
<1>5. ASSUME NEW i \in Nat, i \in T PROVE i + 1 \in T
  <2> SUFFICES ASSUME i + 1 <= last PROVE IsWriter(writer[i + 1], n)
    OBVIOUS
  <2>0. PICK k : k = i + 1
    OBVIOUS
  <2>1. k \in 1..last /\ k - 1 = i /\ i <= last
    BY <1>1, <2>0
  <2>2. IsWriter(writer[i], n) /\ Plain(layout[k])
    BY <1>1, <1>5, <2>1 DEF PlainLayout, last
  <2>3. writer[k] = Messages!WriteItem(m, writer[i], layout[k])
    BY <1>3, <2>1
  <2> QED
    BY <2>0, <2>2, <2>3, ItemsKeep
<1>6. IsWriter(writer[6], n)
  <2> HIDE DEF T
  <2>1. Nat \subseteq T
    BY <1>4, <1>5, Induct
  <2>2. 6 \in T /\ 6 <= last
    BY <1>1, <2>1
  <2> QED
    BY <2>2 DEF T
<1> HIDE DEF T
<1>7. ~writer[7].ok
  <2>1. 7 \in 1..last /\ 7 - 1 = 6
    BY <1>1
  <2>2. writer[7] = Messages!WriteItem(m, writer[6], layout[7])
    BY <1>3, <2>1
  <2>3. Messages!NumberCopied(m, layout[7])
    BY <1>1 DEF Messages!NumberCopied
  <2>4. writer[7] = IF ~writer[6].ok THEN writer[6] ELSE [writer[6] EXCEPT !.ok = FALSE]
    BY <2>2, <2>3 DEF Messages!WriteItem
  <2> QED
    BY <1>6, <2>4 DEF IsWriter
<1>8. ASSUME NEW k \in 1..last, ~writer[k - 1].ok
      PROVE  ~writer[k].ok
  BY <1>3, <1>8 DEF Messages!WriteItem
<1>9. /\ 8 \in 1..last /\ 9 \in 1..last /\ 10 \in 1..last /\ 11 \in 1..last
      /\ 8 - 1 = 7 /\ 9 - 1 = 8 /\ 10 - 1 = 9 /\ 11 - 1 = 10
  BY <1>1
<1>10. ~writer[9].ok
  BY <1>7, <1>8, <1>9
<1>11. ~writer[11].ok
  BY <1>8, <1>9, <1>10
<1> QED
  BY <1>1, <1>3, <1>11 DEF Messages!Written, Messages!Threw

(***************************************************************************)
(* What every class serialises.                                            *)
(***************************************************************************)
SentRight(m, bytes, ok) ==
  /\ ok \in BOOLEAN
  /\ ok <=> Messages!Sendable(m)
  /\ ok /\ (m.kind = "ping" => m.stated = m.size) =>
        bytes = Messages!Type(m.kind) \o Messages!Spoken(m)

IsMessage(m) ==
  m.kind \in Messages!Kinds /\ m.size \in Nat /\ m.second \in Nat /\ m.stated \in Nat

(* A field copied to where the ones before it end.                         *)
Copied(s, b, pos, n, next) ==
  /\ Messages!Copy(Padded(s, n), pos, b) = Padded(s \o b, n)
  /\ IsList(s \o b) /\ Len(s \o b) = next

LEMMA CopyNext ==
  ASSUME NEW s, IsList(s), NEW b, IsList(b), NEW n \in Nat, NEW pos, pos = Len(s),
         NEW next, next = pos + Len(b), next <= n
  PROVE  Copied(s, b, pos, n, next)
<1>1. Messages!Copy(Padded(s, n), Len(s), b) = Padded(s \o b, n)
  BY CopyOn
<1>2. IsList(s \o b) /\ Len(s \o b) = Len(s) + Len(b)
  BY Joined
<1> QED
  BY <1>1, <1>2, Zenon DEF Copied

LEMMA PingSent ==
  ASSUME NEW m, IsMessage(m), m.kind = "ping", m.stated = m.size
  PROVE  Messages!SerializePing(m)
           = [ok |-> TRUE, fields |-> Messages!Type(m.kind) \o Messages!Payload(m)]
<1> DEFINE t == Messages!Type(m.kind)  a == Messages!Count(m.second)
           b == Messages!Count(m.size)  f == Messages!Field("ignored", m.size)
           n == 6 + m.size
<1>1. /\ IsList(t) /\ Len(t) = 2 /\ IsList(a) /\ Len(a) = 2 /\ IsList(b) /\ Len(b) = 2
      /\ IsList(f) /\ Len(f) = m.size /\ m.size \in Nat /\ n \in Nat
  BY TypeIs, CountIs, FieldIs DEF IsMessage
<1>2. Messages!SerializePing(m) = [ok |-> TRUE, fields |->
         Messages!Copy(Messages!Copy(Messages!Copy(Messages!Copy(
            Messages!Zeroes(n), 0, t), 2, a), 4, b), 6, f)]
  <2>1. ~(m.size > m.stated)
    BY DEF IsMessage
  <2>2. Messages!SerializePing(m) = [ok |-> TRUE, fields |->
           Messages!Copy(Messages!Copy(Messages!Copy(Messages!Copy(
              Messages!Zeroes(6 + m.stated), 0, Messages!Type("ping")),
              2, Messages!Count(m.second)), 4, Messages!Count(m.stated)),
              6, Messages!Field("ignored", m.size))]
    BY <2>1, Zenon DEF Messages!SerializePing
  <2> QED
    BY <2>2, Zenon
<1>3. Messages!Payload(m) = a \o (b \o f)
  BY PingPayload DEF IsMessage, CountedBytes
<1> HIDE DEF t, a, b, f
<1>4. IsList(<<>>) /\ Len(<<>>) = 0
  BY DEF IsList
<1>5. Messages!Zeroes(n) = Padded(<<>>, n)
  BY <1>1, PaddedEmpty
<1>6. <<>> \o t = t
  BY <1>1, EmptyJoin
<1>7. Messages!Copy(Padded(<<>>, n), 0, t) = Padded(t, n)
  <2>1. Len(<<>>) + Len(t) <= n
    BY <1>1, <1>4
  <2>2. Messages!Copy(Padded(<<>>, n), Len(<<>>), t) = Padded(<<>> \o t, n)
    BY <1>1, <1>4, <2>1, CopyOn
  <2> QED
    BY <1>4, <1>6, <2>2
<1> DEFINE u == t \o a  v == u \o b  w == v \o f
<1>8. Messages!Copy(Padded(t, n), 2, a) = Padded(u, n) /\ IsList(u) /\ Len(u) = 4
  <2>1. Len(t) + Len(a) <= n
    BY <1>1
  <2>2. Messages!Copy(Padded(t, n), Len(t), a) = Padded(u, n)
    BY <1>1, <2>1, CopyOn
  <2>3. IsList(u) /\ Len(u) = Len(t) + Len(a)
    BY <1>1, Joined
  <2> QED
    BY <1>1, <2>2, <2>3
<1> HIDE DEF u
<1>9. Messages!Copy(Padded(u, n), 4, b) = Padded(v, n) /\ IsList(v) /\ Len(v) = 6
  <2>1. Len(u) + Len(b) <= n
    BY <1>1, <1>8
  <2>2. Messages!Copy(Padded(u, n), Len(u), b) = Padded(v, n)
    BY <1>1, <1>8, <2>1, CopyOn
  <2>3. IsList(v) /\ Len(v) = Len(u) + Len(b)
    BY <1>1, <1>8, Joined
  <2> QED
    BY <1>1, <1>8, <2>2, <2>3
<1> HIDE DEF v
<1>10. Messages!Copy(Padded(v, n), 6, f) = w
  <2>1. Len(v) + Len(f) <= n
    BY <1>1, <1>9
  <2>2. Messages!Copy(Padded(v, n), Len(v), f) = Padded(w, n)
    BY <1>1, <1>9, <2>1, CopyOn
  <2>3. IsList(w) /\ Len(w) = Len(v) + Len(f)
    BY <1>1, <1>9, Joined
  <2>4. Len(w) = n
    BY <1>1, <1>9, <2>3
  <2> HIDE DEF w
  <2> QED
    BY <1>9, <2>2, <2>3, <2>4, PaddedFull
<1>11. w = t \o (a \o (b \o f))
  <2>1. IsList(b \o f) /\ IsList(t) /\ IsList(a) /\ IsList(b) /\ IsList(f) /\ IsList(u)
    BY <1>1, <1>8, Joined
  <2>2. (u \o b) \o f = u \o (b \o f)
    <3>1. Grouped(u, b, f)
      BY <2>1, Regroup
    <3> QED
      BY <3>1 DEF Grouped
  <2>3. (t \o a) \o (b \o f) = t \o (a \o (b \o f))
    <3>1. Grouped(t, a, b \o f)
      BY <2>1, Regroup
    <3> QED
      BY <3>1 DEF Grouped
  <2> QED
    BY <2>2, <2>3 DEF u, v
<1> HIDE DEF w, n
<1> QED
  BY <1>2, <1>3, <1>5, <1>7, <1>8, <1>9, <1>10, <1>11 DEF t

(* Five fields, each at the offset where the one before it ends.           *)
LEMMA SignaturesSent ==
  ASSUME NEW m, IsMessage(m), m.kind = "announcement_signatures"
  PROVE  Messages!SerializeAnnouncementSignatures
           = [ok |-> TRUE, fields |-> Messages!Type(m.kind) \o Messages!Payload(m)]
<1> DEFINE layout == Messages!AnnouncementSignatures
           U == ItemsOf(m, layout)  all == Messages!Payload(m)
           t == Messages!Type(m.kind)
           a == Messages!Field("channel_id", 4)
           b == Messages!Field("short_channel_id", 1)
           c == Messages!Field("node_signature", 8)
           d == Messages!Field("bitcoin_signature", 8)
<1>0. Messages!Layout(m.kind) = layout /\ m.kind \in Messages!Kinds
  BY DEF Messages!Layout, Messages!Kinds
<1>1. /\ IsList(layout) /\ Len(layout) = 4
      /\ layout[1] = Messages!Uint("channel_id", 4)
      /\ layout[2] = Messages!Uint("short_channel_id", 1)
      /\ layout[3] = Messages!Bytes("node_signature", 8)
      /\ layout[4] = Messages!Bytes("bitcoin_signature", 8)
  BY DEF Messages!AnnouncementSignatures, IsList
<1>2. Messages!SerializeAnnouncementSignatures = [ok |-> TRUE, fields |->
         Messages!Copy(Messages!Copy(Messages!Copy(Messages!Copy(Messages!Copy(
            Messages!Zeroes(23), 0, t), 2, a), 6, b), 7, c), 15, d)]
  BY DEF Messages!SerializeAnnouncementSignatures
<1>3. /\ IsList(t) /\ Len(t) = 2 /\ IsList(a) /\ Len(a) = 4 /\ IsList(b) /\ Len(b) = 1
      /\ IsList(c) /\ Len(c) = 8 /\ IsList(d) /\ Len(d) = 8
  BY TypeIs, FieldIs
<1>4. AllLists(U) /\ all = FlattenSeq(U)
  BY <1>0, PayloadIs DEF IsMessage
<1>5. Len(U) = 4 /\ \A k \in 1..4 : U[k] = Messages!ItemBytes(m, layout[k])
  <2> HIDE DEF layout
  <2>1. DOMAIN layout = 1..4
    BY <1>1 DEF IsList
  <2>2. U = [k \in 1..4 |-> Messages!ItemBytes(m, layout[k])]
    BY <2>1 DEF ItemsOf
  <2> HIDE DEF U
  <2> QED
    BY <2>2
<1> HIDE DEF layout, U, t, a, b, c, d
<1>6. U[1] = a /\ U[2] = b /\ U[3] = c /\ U[4] = d
  <2>1. ASSUME NEW item, Plain(item), item[1] \in {"uint", "bytes"}
        PROVE  Messages!ItemBytes(m, item) = Messages!Field(item[2], item[3])
    BY <2>1, ItemBytesIs DEF IsMessage
  <2>2. /\ Plain(layout[1]) /\ Plain(layout[2]) /\ Plain(layout[3]) /\ Plain(layout[4])
    BY <1>1, ItemParts DEF Plain
  <2>3. /\ U[1] = Messages!Field(layout[1][2], layout[1][3])
        /\ U[2] = Messages!Field(layout[2][2], layout[2][3])
        /\ U[3] = Messages!Field(layout[3][2], layout[3][3])
        /\ U[4] = Messages!Field(layout[4][2], layout[4][3])
    BY <1>1, <1>5, <2>1, <2>2, ItemParts
  <2> QED
    BY <1>1, <2>3, ItemParts DEF a, b, c, d
<1>7. PICK front : IsFronts(front, U)
  BY <1>4, Fronts
<1>8. /\ front[0] = <<>> /\ front[4] = all
      /\ \A k \in 1..4 : front[k] = front[k - 1] \o U[k]
      /\ \A k \in 0..4 : IsList(front[k])
  BY <1>4, <1>5, <1>7 DEF IsFronts
<1>9. all = ((a \o b) \o c) \o d
  <2>1. front[1] = front[0] \o U[1]
    <3>1. 1 \in 1..4 /\ 1 - 1 = 0
      OBVIOUS
    <3> QED
      BY <1>8, <3>1
  <2>2. front[2] = front[1] \o U[2]
    <3>1. 2 \in 1..4 /\ 2 - 1 = 1
      OBVIOUS
    <3> QED
      BY <1>8, <3>1
  <2>3. front[3] = front[2] \o U[3]
    <3>1. 3 \in 1..4 /\ 3 - 1 = 2
      OBVIOUS
    <3> QED
      BY <1>8, <3>1
  <2>4. front[4] = front[3] \o U[4]
    <3>1. 4 \in 1..4 /\ 4 - 1 = 3
      OBVIOUS
    <3> QED
      BY <1>8, <3>1
  <2>5. <<>> \o a = a
    BY <1>3, EmptyJoin
  <2> QED
    BY <1>6, <1>8, <2>1, <2>2, <2>3, <2>4, <2>5, Zenon
<1> DEFINE u == t \o a  v == u \o b  w == v \o c  x == w \o d
<1>10. IsList(<<>>) /\ Len(<<>>) = 0 /\ 23 \in Nat
  BY DEF IsList
<1>11. Messages!Copy(Messages!Zeroes(23), 0, t) = Padded(t, 23)
  <2>1. 0 = Len(<<>>) /\ 2 = 0 + Len(t) /\ 2 <= 23
    BY <1>3, <1>10
  <2>0. Copied(<<>>, t, 0, 23, 2)
    BY <1>3, <1>10, <2>1, CopyNext
  <2>2. Messages!Copy(Padded(<<>>, 23), 0, t) = Padded(<<>> \o t, 23)
    BY <2>0, Zenon DEF Copied
  <2>3. <<>> \o t = t /\ Messages!Zeroes(23) = Padded(<<>>, 23)
    BY <1>3, <1>10, EmptyJoin, PaddedEmpty
  <2> QED
    BY <2>2, <2>3
<1>12. Messages!Copy(Padded(t, 23), 2, a) = Padded(u, 23) /\ IsList(u) /\ Len(u) = 6
  <2>1. 2 = Len(t) /\ 6 = 2 + Len(a) /\ 6 <= 23
    BY <1>3
  <2>2. IsList(t) /\ IsList(a) /\ 23 \in Nat
    BY <1>3, <1>10, Zenon
  <2> HIDE DEF u
  <2>3. Copied(t, a, 2, 23, 6)
    BY <2>1, <2>2, CopyNext
  <2> QED
    BY <2>3, Zenon DEF Copied, u
<1> HIDE DEF u
<1>13. Messages!Copy(Padded(u, 23), 6, b) = Padded(v, 23) /\ IsList(v) /\ Len(v) = 7
  <2>1. 6 = Len(u) /\ 7 = 6 + Len(b) /\ 7 <= 23
    BY <1>3, <1>12
  <2>2. IsList(u) /\ IsList(b) /\ 23 \in Nat
    BY <1>3, <1>10, <1>12, Zenon
  <2> HIDE DEF v
  <2>3. Copied(u, b, 6, 23, 7)
    BY <2>1, <2>2, CopyNext
  <2> QED
    BY <2>3, Zenon DEF Copied, v
<1> HIDE DEF v
<1>14. Messages!Copy(Padded(v, 23), 7, c) = Padded(w, 23) /\ IsList(w) /\ Len(w) = 15
  <2>1. 7 = Len(v) /\ 15 = 7 + Len(c) /\ 15 <= 23
    BY <1>3, <1>13
  <2>2. IsList(v) /\ IsList(c) /\ 23 \in Nat
    BY <1>3, <1>10, <1>13, Zenon
  <2> HIDE DEF w
  <2>3. Copied(v, c, 7, 23, 15)
    BY <2>1, <2>2, CopyNext
  <2> QED
    BY <2>3, Zenon DEF Copied, w
<1> HIDE DEF w
<1>15. Messages!Copy(Padded(w, 23), 15, d) = Padded(x, 23) /\ IsList(x) /\ Len(x) = 23
  <2>1. 15 = Len(w) /\ 23 = 15 + Len(d) /\ 23 <= 23
    BY <1>3, <1>14
  <2>2. IsList(w) /\ IsList(d) /\ 23 \in Nat
    BY <1>3, <1>10, <1>14, Zenon
  <2> HIDE DEF x
  <2>3. Copied(w, d, 15, 23, 23)
    BY <2>1, <2>2, CopyNext
  <2> QED
    BY <2>3, Zenon DEF Copied, x
<1>16. Padded(x, 23) = x
  <2> HIDE DEF x
  <2> QED
    BY <1>15, PaddedFull
<1>17. x = t \o all
  <2>1. IsList(a \o b) /\ IsList((a \o b) \o c)
    BY <1>3, Joined
  <2>2. Grouped(t, a, b) /\ Grouped(t, a \o b, c) /\ Grouped(t, (a \o b) \o c, d)
    BY <1>3, <2>1, Regroup
  <2> QED
    BY <1>9, <2>2, Zenon DEF Grouped, u, v, w
<1> HIDE DEF x, all
<1>18. Messages!SerializeAnnouncementSignatures = [ok |-> TRUE, fields |-> x]
  BY <1>2, <1>11, <1>12, <1>13, <1>14, <1>15, <1>16, Zenon
<1> QED
  BY <1>17, <1>18 DEF all, t

LEMMA InitSent ==
  Messages!SerializeInit
     = [ok |-> TRUE, fields |-> Messages!Type("init") \o Messages!Zeroes(4)]
<1> DEFINE t == Messages!Type("init")  z == Messages!Zeroes(2)
           p == Padded(t, 6)
<1>1. Messages!SerializeInit = [ok |-> TRUE, fields |->
         Messages!Copy(Messages!Copy(Messages!Copy(Messages!Zeroes(6), 0, t), 2, z), 2, z)]
  BY DEF Messages!SerializeInit
<1> HIDE DEF t, z
<1>2. /\ IsList(t) /\ Len(t) = 2 /\ IsList(<<>>) /\ Len(<<>>) = 0
      /\ IsList(z) /\ Len(z) = 2 /\ \A j \in 1..2 : z[j] = <<"zero", 0, 0>>
  <2>1. IsList(t) /\ Len(t) = 2
    BY TypeIs DEF t
  <2>2. IsList(<<>>) /\ Len(<<>>) = 0
    BY DEF IsList
  <2>3. IsList(z) /\ Len(z) = 2 /\ \A j \in 1..2 : z[j] = <<"zero", 0, 0>>
    <3>1. 2 \in Nat
      OBVIOUS
    <3> QED
      BY <3>1, ZeroesAre, Zenon DEF z
  <2> QED
    BY <2>1, <2>2, <2>3, Zenon
<1>3. p = t \o Messages!Zeroes(4)
  <2>1. 6 - Len(t) = 4
    BY <1>2
  <2> QED
    BY <2>1 DEF Padded
<1>4. Messages!Copy(Messages!Zeroes(6), 0, t) = p
  <2>1. 0 = Len(<<>>) /\ 2 = 0 + Len(t) /\ 2 <= 6 /\ 6 \in Nat
    BY <1>2
  <2>0. Copied(<<>>, t, 0, 6, 2)
    BY <1>2, <2>1, CopyNext
  <2>2. Messages!Copy(Padded(<<>>, 6), 0, t) = Padded(<<>> \o t, 6)
    BY <2>0, Zenon DEF Copied
  <2>3. <<>> \o t = t /\ Messages!Zeroes(6) = Padded(<<>>, 6)
    BY <1>2, <2>1, EmptyJoin, PaddedEmpty
  <2> QED
    BY <2>2, <2>3
<1>5. Messages!Copy(p, 2, z) = p
  <2>1. 6 \in Nat /\ Len(t) <= 6
    BY <1>2
  <2>2. /\ IsList(p) /\ Len(p) = 6
        /\ \A j \in Len(t) + 1..6 : p[j] = <<"zero", 0, 0>>
    <3>1. IsList(t) /\ 2 = Len(t) /\ 2 <= 6
      BY <1>2
    <3>2. ZeroesFrom(p, 2, 6)
      BY <2>1, <3>1, PaddedFrom
    <3> HIDE DEF p
    <3> QED
      BY <3>1, <3>2 DEF ZeroesFrom
  <2> DEFINE q == Messages!Copy(p, 2, z)
  <2> HIDE DEF p
  <2>3. DOMAIN p = 1..6
    BY <2>2 DEF IsList
  <2>4. q = [j \in 1..6 |-> IF j \in 2 + 1..2 + Len(z) THEN z[j - 2] ELSE p[j]]
    BY <2>3 DEF Messages!Copy
  <2>5. \A j \in 1..6 : j \in 2 + 1..2 + Len(z) =>
           j - 2 \in 1..2 /\ j \in Len(t) + 1..6
    BY <1>2
  <2>6. \A j \in 1..6 : (IF j \in 2 + 1..2 + Len(z) THEN z[j - 2] ELSE p[j]) = p[j]
    BY <1>2, <2>2, <2>5
  <2> HIDE DEF q
  <2>7. IsList(q) /\ Len(q) = 6 /\ \A j \in 1..6 : q[j] = p[j]
    BY <2>4, <2>6 DEF IsList
  <2>8. q = p
    BY <2>2, <2>7, Same
  <2> QED
    BY <2>8 DEF q
<1> HIDE DEF p
<1> QED
  BY <1>1, <1>3, <1>4, <1>5 DEF t

LEMMA PongSent ==
  ASSUME NEW m, IsMessage(m), m.kind = "pong"
  PROVE  Messages!SerializePong(m)
           = [ok |-> TRUE, fields |-> Messages!Type(m.kind) \o Messages!Payload(m)]
<1> DEFINE t == Messages!Type(m.kind)  b == Messages!Count(m.size)
           f == Messages!Field("ignored", m.size)  n == 4 + m.size
<1>1. /\ IsList(t) /\ Len(t) = 2 /\ IsList(b) /\ Len(b) = 2
      /\ IsList(f) /\ Len(f) = m.size /\ m.size \in Nat /\ n \in Nat
  BY TypeIs, CountIs, FieldIs DEF IsMessage
<1>2. Messages!SerializePong(m) = Messages!Written(Messages!WriteBytes(
         Messages!WriteUint(Messages!WriteUint(Messages!Writer(n), t), b), f))
  BY DEF Messages!SerializePong
<1>3. Messages!Payload(m) = b \o f
  BY PongPayload DEF IsMessage, CountedBytes
<1> HIDE DEF t, b, f
<1>4. IsList(<<>>) /\ Len(<<>>) = 0
  BY DEF IsList
<1>5. Messages!Writer(n) = Filled(<<>>, n)
  BY <1>1, WriterIs
<1>6. <<>> \o t = t
  BY <1>1, EmptyJoin
<1>7. Messages!WriteUint(Filled(<<>>, n), t) = Filled(t, n)
  <2>1. Len(<<>>) + Len(t) <= n
    BY <1>1, <1>4
  <2>2. Messages!WriteUint(Filled(<<>>, n), t) = Filled(<<>> \o t, n)
    BY <1>1, <1>4, <2>1, WriteOn
  <2> QED
    BY <1>6, <2>2
<1> DEFINE v == t \o b  w == v \o f
<1>8. Messages!WriteUint(Filled(t, n), b) = Filled(v, n) /\ IsList(v) /\ Len(v) = 4
  <2>1. Len(t) + Len(b) <= n
    BY <1>1
  <2>2. Messages!WriteUint(Filled(t, n), b) = Filled(v, n)
    BY <1>1, <2>1, WriteOn
  <2>3. IsList(v) /\ Len(v) = Len(t) + Len(b)
    BY <1>1, Joined
  <2> QED
    BY <1>1, <2>2, <2>3
<1> HIDE DEF v
<1>9. Messages!WriteBytes(Filled(v, n), f) = Filled(w, n) /\ IsList(w) /\ Len(w) = n
  <2>1. Len(v) + Len(f) <= n
    BY <1>1, <1>8
  <2>2. Messages!WriteBytes(Filled(v, n), f) = Filled(w, n)
    BY <1>1, <1>8, <2>1, WriteOn
  <2>3. IsList(w) /\ Len(w) = Len(v) + Len(f)
    BY <1>1, <1>8, Joined
  <2> QED
    BY <1>1, <1>8, <2>2, <2>3
<1>10. w = t \o (b \o f)
  <2>1. IsList(t) /\ IsList(b) /\ IsList(f)
    BY <1>1
  <2>2. (t \o b) \o f = t \o (b \o f)
    <3>1. Grouped(t, b, f)
      BY <2>1, Regroup
    <3> QED
      BY <3>1 DEF Grouped
  <2> QED
    BY <2>2 DEF v
<1> HIDE DEF w, n
<1>11. Padded(w, n) = w
  BY <1>9, PaddedFull
<1>12. Messages!Written(Filled(w, n)) = [ok |-> TRUE, fields |-> w]
  BY <1>11 DEF Messages!Written, Filled
<1> QED
  BY <1>2, <1>3, <1>5, <1>7, <1>8, <1>9, <1>10, <1>12 DEF t

LEMMA Serialized ==
  ASSUME NEW m, IsMessage(m)
  PROVE  SentRight(m, Messages!Serialize(m).fields, Messages!Serialize(m).ok)
<1> DEFINE s == Messages!Serialize(m)
           right == [ok |-> TRUE, fields |-> Messages!Type(m.kind) \o Messages!Spoken(m)]
<1>0. m.kind # "init" => Messages!Spoken(m) = Messages!Payload(m)
  BY DEF Messages!Spoken
<1>1. ASSUME s = right, Messages!Sendable(m) PROVE SentRight(m, s.fields, s.ok)
  <2>1. /\ s.ok = TRUE
        /\ s.fields = Messages!Type(m.kind) \o Messages!Spoken(m)
    BY <1>1
  <2> HIDE DEF s
  <2> QED
    BY <1>1, <2>1 DEF SentRight
<1>2. ASSUME s = [ok |-> FALSE, fields |-> <<>>], ~Messages!Sendable(m)
      PROVE  SentRight(m, s.fields, s.ok)
  <2>1. s.ok = FALSE
    BY <1>2
  <2> HIDE DEF s
  <2> QED
    BY <1>2, <2>1 DEF SentRight
<1>3. CASE m.kind = "ping"
  <2>1. s = Messages!SerializePing(m)
    BY <1>3 DEF Messages!Serialize
  <2>2. CASE m.size > m.stated
    <3>1. ~Messages!Sendable(m)
      BY <1>3, <2>2 DEF Messages!Sendable, IsMessage
    <3>2. s = [ok |-> FALSE, fields |-> <<>>]
      BY <2>1, <2>2 DEF Messages!SerializePing, Messages!Threw
    <3> QED
      BY <1>2, <3>1, <3>2
  <2>3. CASE m.size <= m.stated /\ m.stated # m.size
    <3>1. Messages!Sendable(m)
      BY <1>3, <2>3 DEF Messages!Sendable
    <3>2. ~(m.size > m.stated)
      BY <2>3 DEF IsMessage
    <3>3. s.ok = TRUE
      BY <2>1, <3>2 DEF Messages!SerializePing
    <3> HIDE DEF s
    <3>4. SentRight(m, s.fields, s.ok)
      BY <1>3, <2>3, <3>1, <3>3 DEF SentRight
    <3> QED
      BY <3>4 DEF s
  <2>4. CASE m.stated = m.size
    <3>1. Messages!Sendable(m)
      BY <1>3, <2>4 DEF Messages!Sendable, IsMessage
    <3>2. s = right
      BY <1>0, <1>3, <2>1, <2>4, PingSent
    <3> QED
      BY <1>1, <3>1, <3>2
  <2> QED
    BY <2>2, <2>3, <2>4 DEF IsMessage
<1>4. CASE m.kind = "pong"
  <2>1. s = right
    BY <1>0, <1>4, PongSent DEF Messages!Serialize
  <2>2. Messages!Sendable(m)
    BY <1>4 DEF Messages!Sendable
  <2> QED
    BY <1>1, <2>1, <2>2
<1>5. CASE m.kind = "announcement_signatures"
  <2>1. s = right
    BY <1>0, <1>5, SignaturesSent DEF Messages!Serialize
  <2>2. Messages!Sendable(m)
    BY <1>5 DEF Messages!Sendable
  <2> QED
    BY <1>1, <2>1, <2>2
<1>6. CASE m.kind = "channel_update"
  <2>1. Messages!Layout(m.kind) = Messages!ChannelUpdate
    BY <1>6 DEF Messages!Layout
  <2>2. PlainLayout(Messages!Layout(m.kind)) /\ Len(Messages!Layout(m.kind)) = 9
        /\ \A k \in 1..9 : Messages!Layout(m.kind)[k][1] \in {"uint", "bytes"}
    BY <2>1, UpdateLayout
  <2>3. 123 \in Nat /\ 123 = 2 + Len(Messages!Payload(m))
    <3>1. Len(Messages!Payload(m)) = 121
      BY <1>6, UpdateSize DEF IsMessage
    <3> QED
      BY <3>1
  <2>4. m.kind # "channel_announcement"
    BY <1>6
  <2>5. Messages!WriteAll(m, 123)
          = [ok |-> TRUE, fields |-> Messages!Type(m.kind) \o Messages!Payload(m)]
    BY <2>2, <2>3, <2>4, AllWritten DEF IsMessage
  <2>6. s = Messages!WriteAll(m, 123)
    BY <1>6 DEF Messages!Serialize, Messages!SerializeChannelUpdate
  <2>7. Messages!Sendable(m)
    BY <1>6 DEF Messages!Sendable
  <2>8. Messages!Spoken(m) = Messages!Payload(m)
    BY <1>0, <1>6
  <2>9. s = right
    BY <2>5, <2>6, <2>8
  <2> QED
    BY <1>1, <2>7, <2>9
<1>7. CASE m.kind = "channel_announcement"
  <2>1. s = Messages!WriteAll(m, 172 + m.size)
    BY <1>7 DEF Messages!Serialize, Messages!SerializeChannelAnnouncement
  <2>2. 172 + m.size \in Nat
    BY DEF IsMessage
  <2>3. s = [ok |-> FALSE, fields |-> <<>>]
    BY <1>7, <2>1, <2>2, AnnouncementThrows
  <2>4. ~Messages!Sendable(m)
    BY <1>7 DEF Messages!Sendable
  <2> QED
    BY <1>2, <2>3, <2>4
<1>8. CASE m.kind = "init"
  <2>1. s = Messages!SerializeInit
    BY <1>8 DEF Messages!Serialize
  <2>2. s = right
    BY <1>8, <2>1, InitSent DEF Messages!Spoken
  <2>3. Messages!Sendable(m)
    BY <1>8 DEF Messages!Sendable
  <2> QED
    BY <1>1, <2>2, <2>3
<1>9. CASE m.kind \in {"error", "node_announcement"}
  <2>1. s = [ok |-> FALSE, fields |-> <<>>]
    BY <1>9 DEF Messages!Serialize, Messages!Threw
  <2>2. ~Messages!Sendable(m)
    BY <1>9 DEF Messages!Sendable
  <2> QED
    BY <1>2, <2>1, <2>2
<1> QED
  BY <1>3, <1>4, <1>5, <1>6, <1>7, <1>8, <1>9 DEF IsMessage, Messages!Kinds

(***************************************************************************)
(* What every class makes of a payload.                                    *)
(***************************************************************************)
ReadRight(m, bytes, g) ==
  /\ g.ok \in BOOLEAN
  /\ m.kind # "init" => FieldSize(g.fields) <= Len(bytes)
  /\ m.kind \in ReaderLayouts =>
        /\ g.ok <=> Len(bytes) = Len(Messages!Payload(m))
        /\ g.ok => \A k \in 1..Len(Messages!Layout(m.kind)) :
              Messages!Layout(m.kind)[k][1] = "uint" =>
                  Holds(g.fields, Messages!Layout(m.kind)[k])

(* Four slices, each to where the next begins.                             *)
LEMMA SliceSize ==
  ASSUME NEW p, IsList(p), NEW a \in Nat, NEW b \in Nat, a <= b
  PROVE  LET s == Messages!Slice(p, a, b)
         IN  /\ IsList(s) /\ Len(s) \in Nat
             /\ Len(s) <= (IF b <= Len(p) THEN b - a ELSE IF a <= Len(p) THEN Len(p) - a ELSE 0)
<1> DEFINE m == a + 1  e == IF b < Len(p) THEN b ELSE Len(p)
           s == SubSeq(p, m, e)
<1>1. Len(p) \in Nat /\ e \in Nat /\ e <= Len(p) /\ m \in Nat /\ m >= 1
      /\ m \in Int /\ e \in Int
  BY DEF IsList
<1>2. Messages!Slice(p, a, b) = s
  BY DEF Messages!Slice
<1>0. /\ b <= Len(p) => e = b
      /\ ~(b <= Len(p)) => e = Len(p)
      /\ m = a + 1
  BY <1>1
<1> HIDE DEF m, e
<1>3. CASE e < m
  <2>1. s = <<>>
    BY <1>1, <1>3, SubSeqEmpty
  <2>2. IsList(<<>>) /\ Len(<<>>) = 0
    BY DEF IsList
  <2> HIDE DEF s
  <2>3. /\ IsList(s) /\ Len(s) = 0
    BY <2>1, <2>2
  <2> QED
    BY <1>1, <1>2, <2>3
<1>4. CASE ~(e < m)
  <2>1. m <= e + 1
    BY <1>1, <1>4
  <2>2. IsList(s) /\ Len(s) = e - m + 1
    BY <1>1, <2>1, Cut
  <2> HIDE DEF s
  <2>3. Len(s) \in Nat
    BY <2>2 DEF IsList
  <2> DEFINE x == Len(s)
  <2>4. x = e - m + 1 /\ x \in Nat
    BY <2>2, <2>3
  <2> HIDE DEF x
  <2>5. x <= (IF b <= Len(p) THEN b - a ELSE IF a <= Len(p) THEN Len(p) - a ELSE 0)
    BY <1>0, <1>1, <1>4, <2>4
  <2> QED
    BY <1>2, <2>2, <2>3, <2>5 DEF x
<1> QED
  BY <1>3, <1>4

LEMMA FourFields ==
  ASSUME NEW a, IsList(a), NEW b, IsList(b), NEW c, IsList(c), NEW d, IsList(d),
         NEW w, NEW x, NEW y, NEW z
  PROVE  FieldSize(<<<<w, a>>, <<x, b>>, <<y, c>>, <<z, d>>>>)
           = Len(a) + Len(b) + Len(c) + Len(d)
<1> DEFINE e == <<>>  f == Append(e, <<w, a>>)  g == Append(f, <<x, b>>)
           h4 == Append(g, <<y, c>>)  i4 == Append(h4, <<z, d>>)
<1>1. GoodFields(e) /\ FieldSize(e) = 0
  BY NoFields
<1>2. OneMore(e, f, w, a)
  BY <1>1, OneField
<1>3. OneMore(f, g, x, b)
  BY <1>2, OneField DEF OneMore
<1>4. OneMore(g, h4, y, c)
  BY <1>3, OneField DEF OneMore
<1>5. OneMore(h4, i4, z, d)
  BY <1>4, OneField DEF OneMore
<1>6. i4 = <<<<w, a>>, <<x, b>>, <<y, c>>, <<z, d>>>>
  <2> DEFINE p == <<w, a>>  q == <<x, b>>  r == <<y, c>>  v == <<z, d>>
  <2> HIDE DEF p, q, r, v
  <2>1. Append(Append(Append(Append(<<>>, p), q), r), v) = <<p, q, r, v>>
    <3> DEFINE S == {p, q, r, v}
               t == Append(Append(Append(Append(<<>>, p), q), r), v)  u == <<p, q, r, v>>
    <3>1. t \in Seq(S) /\ Len(t) = 4 /\ t[1] = p /\ t[2] = q /\ t[3] = r /\ t[4] = v
      OBVIOUS
    <3>2. u \in Seq(S) /\ Len(u) = 4 /\ u[1] = p /\ u[2] = q /\ u[3] = r /\ u[4] = v
      OBVIOUS
    <3> HIDE DEF S, t, u
    <3>3. \A j \in 1..4 : j = 1 \/ j = 2 \/ j = 3 \/ j = 4
      OBVIOUS
    <3>4. \A j \in 1..Len(t) : t[j] = u[j]
      BY <3>1, <3>2, <3>3
    <3>5. t = u
      BY <3>1, <3>2, <3>4, SeqEqual
    <3> QED
      BY <3>5 DEF t, u
  <2> QED
    BY <2>1 DEF p, q, r, v
<1> HIDE DEF e, f, g, h4, i4
<1>7. FieldSize(i4) = 0 + Len(a) + Len(b) + Len(c) + Len(d)
  BY <1>1, <1>2, <1>3, <1>4, <1>5 DEF OneMore
<1>8. Len(a) \in Nat /\ Len(b) \in Nat /\ Len(c) \in Nat /\ Len(d) \in Nat
  BY DEF IsList
<1>9. 0 + Len(a) + Len(b) + Len(c) + Len(d) = Len(a) + Len(b) + Len(c) + Len(d)
  BY <1>8
<1> QED
  BY <1>6, <1>7, <1>9

LEMMA SignaturesRead ==
  ASSUME NEW p, IsList(p)
  PROVE  LET g == Messages!DeserializeAnnouncementSignatures(p)
         IN  g.ok \in BOOLEAN /\ FieldSize(g.fields) <= Len(p)
<1> DEFINE g == Messages!DeserializeAnnouncementSignatures(p)
           a == Messages!Slice(p, 0, 4)  b == Messages!Slice(p, 4, 5)
           c == Messages!Slice(p, 5, 13)  d == Messages!Slice(p, 13, 21)
<1>1. Len(p) \in Nat
  BY DEF IsList
<1>2. CASE Len(p) < 5
  <2>1. g = [ok |-> FALSE, fields |-> <<>>]
    BY <1>2 DEF Messages!DeserializeAnnouncementSignatures, Messages!Threw
  <2> QED
    BY <1>1, <2>1, NoFields
<1>3. CASE ~(Len(p) < 5)
  <2>1. g = [ok |-> TRUE,
             fields |-> <<<<"channel_id", a>>, <<"short_channel_id", b>>,
                          <<"node_signature", c>>, <<"bitcoin_signature", d>>>>]
    BY <1>3 DEF Messages!DeserializeAnnouncementSignatures
  <2>2. /\ IsList(a) /\ Len(a) \in Nat /\ Len(a) <= (IF 4 <= Len(p) THEN 4 - 0 ELSE IF 0 <= Len(p) THEN Len(p) - 0 ELSE 0)
    BY SliceSize
  <2>3. /\ IsList(b) /\ Len(b) \in Nat /\ Len(b) <= (IF 5 <= Len(p) THEN 5 - 4 ELSE IF 4 <= Len(p) THEN Len(p) - 4 ELSE 0)
    BY SliceSize
  <2>4. /\ IsList(c) /\ Len(c) \in Nat /\ Len(c) <= (IF 13 <= Len(p) THEN 13 - 5 ELSE IF 5 <= Len(p) THEN Len(p) - 5 ELSE 0)
    BY SliceSize
  <2>5. /\ IsList(d) /\ Len(d) \in Nat /\ Len(d) <= (IF 21 <= Len(p) THEN 21 - 13 ELSE IF 13 <= Len(p) THEN Len(p) - 13 ELSE 0)
    BY SliceSize
  <2> HIDE DEF a, b, c, d
  <2>6. Len(a) + Len(b) + Len(c) + Len(d) <= Len(p)
    <3> DEFINE n == Len(p)  i4 == Len(a)  j4 == Len(b)  k4 == Len(c)  l4 == Len(d)
    <3>1. /\ n \in Nat /\ i4 \in Nat /\ j4 \in Nat /\ k4 \in Nat /\ l4 \in Nat
          /\ n >= 5 /\ i4 <= 4 /\ j4 <= 1
          /\ k4 <= (IF 13 <= n THEN 8 ELSE n - 5)
          /\ l4 <= (IF 21 <= n THEN 8 ELSE IF 13 <= n THEN n - 13 ELSE 0)
      BY <1>1, <1>3, <2>2, <2>3, <2>4, <2>5
    <3> HIDE DEF n, i4, j4, k4, l4
    <3>2. i4 + j4 + k4 + l4 <= n
      BY <3>1
    <3> QED
      BY <3>2 DEF n, i4, j4, k4, l4
  <2>7. FieldSize(<<<<"channel_id", a>>, <<"short_channel_id", b>>,
                    <<"node_signature", c>>, <<"bitcoin_signature", d>>>>)
          = Len(a) + Len(b) + Len(c) + Len(d)
    BY <2>2, <2>3, <2>4, <2>5, FourFields
  <2> DEFINE fields == <<<<"channel_id", a>>, <<"short_channel_id", b>>,
                         <<"node_signature", c>>, <<"bitcoin_signature", d>>>>
  <2> HIDE DEF fields, g
  <2>8. g.ok = TRUE /\ g.fields = fields
    BY <2>1 DEF fields
  <2>9. FieldSize(fields) <= Len(p)
    BY <2>6, <2>7 DEF fields
  <2> QED
    BY <2>8, <2>9 DEF g
<1> QED
  BY <1>2, <1>3

(* The number of bytes a ping asks for is the first the pong is made of.   *)
LEMMA PingRead ==
  ASSUME NEW m, IsMessage(m), m.kind = "ping", NEW p, Begins(p, Messages!Payload(m))
  PROVE  LET g == Messages!Deserialize(m.kind, p)
         IN  /\ g.ok \in BOOLEAN
             /\ g.ok => g.fields[1][2][1][2] = m.second
             /\ ~g.ok => FieldSize(g.fields) <= Len(p)
<1> DEFINE g == Messages!Deserialize(m.kind, p)  a == Messages!Slice(p, 0, 2)
           all == Messages!Payload(m)
<1>0. g = Messages!DeserializePing(p)
  BY DEF Messages!Deserialize
<1>1. IsList(p) /\ Len(p) \in Nat
  BY DEF Begins, IsList
<1>2. CASE Len(p) < 4
  <2>1. g = [ok |-> FALSE, fields |-> <<>>]
    BY <1>0, <1>2 DEF Messages!DeserializePing, Messages!Threw
  <2> HIDE DEF g
  <2>2. g.ok = FALSE /\ g.fields = <<>> /\ FieldSize(<<>>) <= Len(p)
    BY <1>1, <2>1, NoFields
  <2> QED
    BY <2>2 DEF g
<1>3. CASE ~(Len(p) < 4)
  <2>1. g = [ok |-> TRUE,
             fields |-> <<<<"num_pong_bytes", a>>, <<"count", Messages!Slice(p, 2, 4)>>,
                          <<"ignored", Messages!Slice(p, 4, Len(p))>>>>]
    BY <1>0, <1>3 DEF Messages!DeserializePing
  <2>2. all[1] = <<"count", m.second, 1>>
    <3> DEFINE c == Messages!Count(m.second)  b == CountedBytes("ignored", m.size)
    <3>1. all = c \o b
      BY PingPayload DEF IsMessage
    <3>2. IsList(c) /\ Len(c) = 2 /\ c[1] = <<"count", m.second, 1>>
      BY CountIs
    <3>3. IsList(b)
      BY CountedIs DEF IsMessage
    <3> HIDE DEF c, b, all
    <3>6. IsList(c)
      BY <3>2
    <3>4. \A j \in 1..Len(c) : (c \o b)[j] = c[j]
      BY <3>3, <3>6, Joined, Zenon
    <3>5. 1 \in 1..Len(c)
      BY <3>2
    <3> QED
      BY <3>1, <3>2, <3>4, <3>5
  <2>3. IsPart(Messages!Slice(p, 0, 0 + 2), 2, 0, all)
    <3>1. 0 + 2 <= Len(p) /\ 0 \in Nat /\ 2 \in Nat
      BY <1>1, <1>3
    <3> QED
      BY <3>1, SliceRight
  <2>4. a[1] = all[1]
    <3>1. 0 + 2 = 2 /\ 0 + 1 = 1 /\ 1 \in 1..2
      OBVIOUS
    <3> HIDE DEF a, all
    <3>2. a[1] = all[0 + 1]
      BY <2>3, <3>1 DEF IsPart, a
    <3> QED
      BY <3>1, <3>2
  <2> HIDE DEF g, a, all
  <2>5. g.ok = TRUE /\ g.fields[1][2] = a
    BY <2>1
  <2>6. g.fields[1][2][1][2] = m.second
    BY <2>2, <2>4, <2>5
  <2> QED
    BY <2>5, <2>6 DEF g
<1> QED
  BY <1>2, <1>3

LEMMA Deserialized ==
  ASSUME NEW m, IsMessage(m), m.kind # "ping", NEW p, Begins(p, Messages!Payload(m))
  PROVE  ReadRight(m, p, Messages!Deserialize(m.kind, p))
<1> DEFINE g == Messages!Deserialize(m.kind, p)
<1>0. IsList(p) /\ Len(p) \in Nat
  BY DEF Begins, IsList
<1>1. CASE m.kind \in ReaderLayouts
  <2> DEFINE layout == Messages!Layout(m.kind)  U == ItemsOf(m, layout)
  <2>1. g = Messages!ReadAll(layout, p)
    BY <1>1 DEF Messages!Deserialize, ReaderLayouts
  <2>2. PlainLayout(layout) /\ Messages!Payload(m) = FlattenSeq(U)
    BY <1>1, LayoutsSized, PayloadIs DEF IsMessage
  <2>3. /\ g.ok \in BOOLEAN
        /\ g.ok <=> Len(p) = Len(FlattenSeq(U))
        /\ FieldSize(g.fields) <= Len(p)
        /\ g.ok => \A k \in 1..Len(layout) :
                      layout[k][1] = "uint" => Holds(g.fields, layout[k])
    <3> HIDE DEF g
    <3>1. Begins(p, FlattenSeq(ItemsOf(m, layout)))
      BY <2>2
    <3> HIDE DEF layout
    <3> QED
      BY <2>1, <2>2, <3>1, AllRead DEF IsMessage
  <2> HIDE DEF g
  <2>4. ReadRight(m, p, g)
    BY <2>2, <2>3, Zenon DEF ReadRight
  <2> QED
    BY <2>4 DEF g
<1>2. CASE m.kind = "announcement_signatures"
  <2>1. g = Messages!DeserializeAnnouncementSignatures(p)
    BY <1>2 DEF Messages!Deserialize
  <2> HIDE DEF g
  <2>2. g.ok \in BOOLEAN /\ FieldSize(g.fields) <= Len(p)
    BY <1>0, <2>1, SignaturesRead
  <2>3. m.kind \notin ReaderLayouts
    BY <1>2 DEF ReaderLayouts
  <2> QED
    BY <2>2, <2>3 DEF ReadRight, g
<1>3. CASE m.kind = "init"
  <2>1. g = Messages!DeserializeInit(p)
    BY <1>3 DEF Messages!Deserialize
  <2>2. g.ok \in BOOLEAN
    BY <2>1 DEF Messages!DeserializeInit, Messages!Threw
  <2>3. m.kind \notin ReaderLayouts
    BY <1>3 DEF ReaderLayouts
  <2> HIDE DEF g
  <2> QED
    BY <1>3, <2>2, <2>3 DEF ReadRight, g
<1>4. CASE m.kind \in {"error", "node_announcement"}
  <2>1. g.ok \in BOOLEAN /\ g.fields = <<>>
    BY <1>4 DEF Messages!Deserialize, Messages!Threw, Messages!Ignored
  <2>2. m.kind \notin ReaderLayouts
    BY <1>4 DEF ReaderLayouts
  <2>3. FieldSize(<<>>) <= Len(p)
    BY <1>0, NoFields
  <2> HIDE DEF g
  <2>4. FieldSize(g.fields) <= Len(p)
    BY <2>1, <2>3
  <2> QED
    BY <2>1, <2>2, <2>4 DEF ReadRight, g
<1> QED
  BY <1>1, <1>2, <1>3, <1>4 DEF IsMessage, Messages!Kinds, ReaderLayouts

(***************************************************************************)
(* The steps of the messages.                                              *)
(***************************************************************************)
LEMMA SerializeDomain ==
  ASSUME NEW m, IsMessage(m)
  PROVE  LET s == Messages!Serialize(m)
         IN  "ok" \in DOMAIN s /\ [s EXCEPT !.fields = <<>>].ok = s.ok
<1> DEFINE s == Messages!Serialize(m)
<1>1. \A w : "ok" \in DOMAIN Messages!Written(w)
  BY DEF Messages!Written, Messages!Threw
<1>2. m.kind \in {"ping", "announcement_signatures", "init", "error", "node_announcement"}
        => "ok" \in DOMAIN s
  BY DEF Messages!Serialize, Messages!SerializePing, Messages!SerializeInit,
         Messages!SerializeAnnouncementSignatures, Messages!Threw
<1>3. m.kind \in {"pong", "channel_update", "channel_announcement"}
        => "ok" \in DOMAIN s
  BY <1>1 DEF Messages!Serialize, Messages!SerializePong, Messages!SerializeChannelUpdate,
         Messages!SerializeChannelAnnouncement, Messages!WriteAll
<1>4. "ok" \in DOMAIN s
  BY <1>2, <1>3 DEF IsMessage, Messages!Kinds
<1> HIDE DEF s
<1>5. [s EXCEPT !.fields = <<>>].ok = s.ok
  BY <1>4
<1> QED
  BY <1>4, <1>5 DEF s

MessageInv ==
  /\ stage \in {"idle", "built", "sent", "received", "read"}
  /\ IsMessage(msg) /\ msg \in [kind : Messages!Kinds, size : Nat, second : Nat, stated : Nat]
  /\ got.ok \in BOOLEAN
  /\ stage = "received" => Begins(buffer, Messages!Payload(msg))
  /\ stage = "read" => ReadRight(msg, buffer, got)
  /\ stage = "sent" => SentRight(msg, buffer, got.ok)

LEMMA MessageIs ==
  ASSUME NEW kind \in Messages!Kinds, NEW size \in Nat, NEW second \in Nat,
         NEW stated \in Nat
  PROVE  LET m == Messages!Message(kind, size, second, stated)
         IN  /\ IsMessage(m)
             /\ m \in [kind : Messages!Kinds, size : Nat, second : Nat, stated : Nat]
BY DEF Messages!Message, IsMessage

LEMMA MessagesInit == Messages!Init => MessageInv
<1> SUFFICES ASSUME Messages!Init PROVE MessageInv
  OBVIOUS
<1>1. stage = "idle" /\ msg = Messages!Message("init", 0, 0, 0) /\ got.ok = TRUE
  BY DEF Messages!Init, Messages!Ignored
<1>2. "init" \in Messages!Kinds /\ 0 \in Nat
  BY DEF Messages!Kinds
<1> QED
  BY <1>1, <1>2, MessageIs DEF MessageInv

LEMMA ConstructStep ==
  ASSUME MessageInv, NEW kind \in Messages!Kinds, NEW size \in Sizes, NEW second \in Sizes,
         NEW stated \in Sizes, Messages!Construct(kind, size, second, stated)
  PROVE  MessageInv'
<1>1. /\ stage' = "built" /\ msg' = Messages!Message(kind, size, second, stated)
      /\ got' = got
  BY DEF Messages!Construct
<1>2. size \in Nat /\ second \in Nat /\ stated \in Nat
  BY MessageAssumption
<1>3. IsMessage(msg') /\ msg' \in [kind : Messages!Kinds, size : Nat, second : Nat, stated : Nat]
  BY <1>1, <1>2, MessageIs
<1> QED
  BY <1>1, <1>3 DEF MessageInv, IsMessage

LEMMA PeerSendsStep ==
  ASSUME MessageInv, NEW kind \in Messages!Kinds, NEW size \in Sizes, NEW second \in Sizes,
         NEW cut \in Cuts, Messages!PeerSends(kind, size, second, cut)
  PROVE  MessageInv'
<1> DEFINE m == Messages!Message(kind, size, second, size)  p == Messages!Payload(m)
           n == Len(p) - cut
<1>1. /\ stage' = "received" /\ msg' = m /\ got' = got
      /\ buffer' = SubSeq(p, 1, n)
  BY DEF Messages!PeerSends
<1>2. size \in Nat /\ second \in Nat /\ cut \in Nat
  BY MessageAssumption
<1>3. IsMessage(m) /\ m \in [kind : Messages!Kinds, size : Nat, second : Nat, stated : Nat]
  BY <1>2, MessageIs
<1>4. IsList(p) /\ Len(p) \in Nat
  BY <1>3, PayloadIs DEF IsMessage
<1> HIDE DEF p
<1>5. Begins(SubSeq(p, 1, n), p)
  <2>1. CASE n < 1
    <3>1. n \in Int /\ 1 \in Int
      BY <1>2, <1>4
    <3>2. SubSeq(p, 1, n) = <<>>
      BY <2>1, <3>1, SubSeqEmpty
    <3>3. IsList(<<>>) /\ Len(<<>>) = 0
      BY DEF IsList
    <3>4. Begins(<<>>, p)
      BY <1>4, <3>3 DEF Begins
    <3> QED
      BY <3>2, <3>4
  <2>2. CASE ~(n < 1)
    <3>1. n \in Nat /\ n <= Len(p)
      BY <1>2, <1>4, <2>2
    <3> QED
      BY <1>4, <3>1, FirstBegins
  <2> QED
    BY <2>1, <2>2
<1> HIDE DEF m, n
<1>6. Begins(buffer', Messages!Payload(m))
  BY <1>1, <1>5 DEF p
<1>7. MessageInv <=> MessageInv
  OBVIOUS
<1>8. IsMessage(msg') /\ msg' \in [kind : Messages!Kinds, size : Nat, second : Nat, stated : Nat]
  BY <1>1, <1>3
<1>9. Begins(buffer', Messages!Payload(msg'))
  BY <1>1, <1>6
<1> QED
  BY <1>1, <1>8, <1>9 DEF MessageInv, IsMessage, Begins, IsList

LEMMA SendStep == MessageInv /\ Messages!Send => MessageInv'
<1> SUFFICES ASSUME MessageInv, Messages!Send PROVE MessageInv'
  OBVIOUS
<1>1. /\ stage' = "sent" /\ msg' = msg
      /\ buffer' = Messages!Serialize(msg).fields
      /\ got' = [Messages!Serialize(msg) EXCEPT !.fields = <<>>]
  BY DEF Messages!Send
<1>2. IsMessage(msg) /\ msg \in [kind : Messages!Kinds, size : Nat, second : Nat, stated : Nat]
  BY DEF MessageInv
<1>3. SentRight(msg, Messages!Serialize(msg).fields, Messages!Serialize(msg).ok)
  BY <1>2, Serialized
<1>4. got'.ok = Messages!Serialize(msg).ok
  BY <1>1, <1>2, SerializeDomain
<1>5. SentRight(msg', buffer', got'.ok)
  BY <1>1, <1>3, <1>4
<1>6. got'.ok \in BOOLEAN
  BY <1>5 DEF SentRight
<1> QED
  BY <1>1, <1>2, <1>5, <1>6 DEF MessageInv, IsMessage, SentRight

LEMMA ReceiveStep == MessageInv /\ Messages!Receive => MessageInv'
<1> SUFFICES ASSUME MessageInv, Messages!Receive PROVE MessageInv'
  OBVIOUS
<1> DEFINE g == Messages!Deserialize(msg.kind, buffer)
<1>1. /\ got' = g /\ buffer' = buffer
      /\ IF msg.kind = "ping" /\ g.ok
         THEN /\ stage' = "built"
              /\ msg' = Messages!Message("pong", g.fields[1][2][1][2], 0,
                                         g.fields[1][2][1][2])
         ELSE stage' = "read" /\ msg' = msg
  BY DEF Messages!Receive
<1>2. /\ IsMessage(msg) /\ msg \in [kind : Messages!Kinds, size : Nat, second : Nat, stated : Nat]
      /\ Begins(buffer, Messages!Payload(msg))
  BY DEF MessageInv, Messages!Receive
<1> HIDE DEF g
<1>3. CASE msg.kind = "ping"
  <2>1. /\ g.ok \in BOOLEAN
        /\ g.ok => g.fields[1][2][1][2] = msg.second
        /\ ~g.ok => FieldSize(g.fields) <= Len(buffer)
    BY <1>2, <1>3, PingRead DEF g
  <2>2. CASE g.ok
    <3>1. stage' = "built" /\ msg' = Messages!Message("pong", msg.second, 0, msg.second)
      BY <1>1, <1>3, <2>1, <2>2
    <3>2. msg.second \in Nat /\ 0 \in Nat /\ "pong" \in Messages!Kinds
      BY <1>2 DEF IsMessage, Messages!Kinds
    <3>3. IsMessage(msg') /\ msg' \in [kind : Messages!Kinds, size : Nat, second : Nat, stated : Nat]
      BY <3>1, <3>2, MessageIs
    <3>4. got'.ok \in BOOLEAN
      BY <1>1, <2>1
    <3> QED
      BY <3>1, <3>3, <3>4 DEF MessageInv, IsMessage
  <2>3. CASE ~g.ok
    <3>1. stage' = "read" /\ msg' = msg
      BY <1>1, <2>3
    <3>2. msg.kind \notin ReaderLayouts
      BY <1>3 DEF ReaderLayouts
    <3>3. ReadRight(msg, buffer, g)
      BY <2>1, <2>3, <3>2 DEF ReadRight
    <3>4. ReadRight(msg', buffer', got')
      BY <1>1, <3>1, <3>3
    <3>5. got'.ok \in BOOLEAN
      BY <1>1, <2>1
    <3> QED
      BY <1>2, <3>1, <3>4, <3>5 DEF MessageInv, IsMessage, ReadRight
  <2> QED
    BY <2>2, <2>3
<1>4. CASE msg.kind # "ping"
  <2>1. ReadRight(msg, buffer, g)
    BY <1>2, <1>4, Deserialized DEF g
  <2>2. stage' = "read" /\ msg' = msg
    BY <1>1, <1>4
  <2>3. ReadRight(msg', buffer', got')
    BY <1>1, <2>1, <2>2
  <2>4. got'.ok \in BOOLEAN
    BY <2>3 DEF ReadRight
  <2> QED
    BY <1>2, <2>2, <2>3, <2>4 DEF MessageInv, IsMessage, ReadRight
<1> QED
  BY <1>3, <1>4

LEMMA MessagesStep ==
  MessageInv /\ [NextAny]_<<vars, messagesVars, walkVars, program>> => MessageInv'
<1> SUFFICES ASSUME MessageInv, [NextAny]_<<vars, messagesVars, walkVars, program>>
             PROVE  MessageInv'
  OBVIOUS
<1>1. CASE UNCHANGED messagesVars
  <2>1. stage' = stage /\ msg' = msg /\ buffer' = buffer /\ got' = got
    BY <1>1 DEF messagesVars
  <2> QED
    BY <2>1 DEF MessageInv, IsMessage, ReadRight, SentRight, Begins, IsList
<1>2. CASE Messages!Next
  <2>1. ASSUME NEW kind \in Messages!Kinds, NEW size \in Sizes, NEW second \in Sizes,
               NEW stated \in Sizes, Messages!Construct(kind, size, second, stated)
        PROVE  MessageInv'
    BY <2>1, ConstructStep
  <2>2. ASSUME NEW kind \in Messages!Kinds, NEW size \in Sizes, NEW second \in Sizes,
               NEW cut \in Cuts, Messages!PeerSends(kind, size, second, cut)
        PROVE  MessageInv'
    BY <2>2, PeerSendsStep
  <2> QED
    BY <1>2, <2>1, <2>2, SendStep, ReceiveStep DEF Messages!Next
<1>3. UNCHANGED messagesVars \/ Messages!Next
  BY DEF NextAny, messagesVars
<1> QED
  BY <1>1, <1>2, <1>3

LEMMA MessagesInvariant == SpecAny => []MessageInv
<1>1. InitAny => MessageInv
  BY MessagesInit DEF InitAny
<1> QED
  BY <1>1, MessagesStep, PTL DEF SpecAny

LEMMA InvRefused == MessageInv => CutIsRefused
<1> SUFFICES ASSUME MessageInv PROVE CutIsRefused
  OBVIOUS
<1>0. ReaderLayouts = Messages!ReaderKinds
  BY DEF ReaderLayouts, Messages!ReaderKinds
<1>1. Messages!FieldBytes = FieldSize(got.fields)
  BY DEF Messages!FieldBytes, FieldSize, Messages!FlattenSeq, FlattenSeq
<1>2. Messages!TypeOK
  BY <1>1 DEF Messages!TypeOK, MessageInv, ReadRight
<1>3. Messages!CutIsRefused
  BY <1>0 DEF Messages!CutIsRefused, Messages!Whole, MessageInv, ReadRight
<1>4. Messages!NumbersRight
  <2> DEFINE layout == Messages!Layout(msg.kind)
  <2> SUFFICES ASSUME stage = "read", msg.kind \in ReaderLayouts, got.ok,
                      NEW item \in Messages!ToSet(layout), item[1] = "uint"
               PROVE  <<item[2], Messages!Field(item[2], item[3])>>
                         \in Messages!ToSet(got.fields)
    BY <1>0 DEF Messages!NumbersRight
  <2>1. IsList(layout)
    BY LayoutsSized DEF MessageInv, IsMessage, Sized
  <2>2. \A k \in 1..Len(layout) : layout[k][1] = "uint" => Holds(got.fields, layout[k])
    BY DEF MessageInv, ReadRight
  <2> HIDE DEF layout
  <2>3. PICK k \in 1..Len(layout) : item = layout[k]
    BY <2>1 DEF Messages!ToSet, IsList
  <2>4. PICK j \in 1..Len(got.fields) :
          got.fields[j] = <<item[2], Messages!Field(item[2], item[3])>>
    BY <2>2, <2>3 DEF Holds
  <2>5. j \in DOMAIN got.fields
    BY <2>4
  <2> QED
    BY <2>4, <2>5 DEF Messages!ToSet
<1> QED
  BY <1>2, <1>3, <1>4 DEF CutIsRefused

LEMMA InvWritten == MessageInv => WrittenAsRead
BY DEF MessageInv, SentRight, Messages!WrittenAsRead, WrittenAsRead

(* The classes that use BufferReader refuse a payload exactly when some of *)
(* it is missing, wherever it was cut; what they take is never more than   *)
(* what came, and the numbers are read where they were written whatever    *)
(* the variable fields before them (buffer-reader.js, the deserialize of   *)
(* every message).                                                         *)
THEOREM CutMessagesRefused == SpecAny => []CutIsRefused
BY MessagesInvariant, InvRefused, PTL

(* Whatever is serialised of init, of an announcement's signatures, of a   *)
(* channel update, of a pong and of a ping is what a peer reads, the type  *)
(* and then the fields in the order they are read, for variable fields of  *)
(* any size, although each class counts its buffer and the offsets in it   *)
(* by hand; a ping that carries more than it states and every other        *)
(* message throws (buffer-writer.js, the serialize of every message).      *)
THEOREM MessagesWrittenAsRead == SpecAny => []WrittenAsRead
BY MessagesInvariant, InvWritten, PTL
=============================================================================
