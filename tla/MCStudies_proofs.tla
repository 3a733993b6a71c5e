--------------------------- MODULE MCStudies_proofs ---------------------------
(***************************************************************************)
(* Proofs about the studies of MCStudies: the hash that hmac/main.go       *)
(* returns is that of the chain over the chunks of the file; the searches  *)
(* of primes find the factors, and those of dlog the logarithm; the hops   *)
(* of an onion read their data, and none of them takes a damaged packet;   *)
(* what a block mode prints decrypts to the message.                       *)
(***************************************************************************)
EXTENDS MCStudies, TLAPS, SequenceTheorems, WellFoundedInduction

(***************************************************************************)
(* Induction, with a set for the predicate.                                *)
(***************************************************************************)
LEMMA SmallestElement ==
  ASSUME NEW T \in SUBSET Nat, T # {}
  PROVE  \E n \in T : \A m \in T : n <= m
<1> DEFINE R == OpToRel(<, Nat)
<1>1. IsWellFoundedOn(R, Nat)
  BY NatLessThanWellFounded, Zenon
<1>2. \A m, n \in Nat : m < n => <<m, n>> \in R
  BY DEF OpToRel
<1> HIDE DEF R
<1>3. T \subseteq Nat
  OBVIOUS
<1>4. PICK n \in T : \A m \in T : ~ (<<m, n>> \in R)
  BY <1>1, <1>3, WFMin
<1>5. ASSUME NEW m \in T PROVE n <= m
  <2>1. m \in Nat /\ n \in Nat
    BY <1>3
  <2>2. ~ (m < n)
    BY <1>2, <1>4, <2>1
  <2> QED
    BY <2>1, <2>2
<1> QED
  BY <1>5

LEMMA Induct ==
  ASSUME NEW S, 0 \in S, \A n \in Nat : n \in S => n + 1 \in S
  PROVE  Nat \subseteq S
<1> DEFINE T == Nat \ S
<1> SUFFICES ASSUME T # {} PROVE FALSE
  OBVIOUS
<1>1. T \in SUBSET Nat
  OBVIOUS
<1>2. \A n : n \in T <=> n \in Nat /\ n \notin S
  OBVIOUS
<1> HIDE DEF T
<1>3. PICK n \in T : \A m \in T : n <= m
  BY <1>1, SmallestElement
<1>4. n # 0 /\ n - 1 \in Nat /\ ~(n <= n - 1) /\ n - 1 + 1 = n
  BY <1>2, <1>3
<1>5. n - 1 \in S
  BY <1>2, <1>3, <1>4
<1> QED
  BY <1>2, <1>4, <1>5

(***************************************************************************)
(* Quotients.                                                              *)
(***************************************************************************)
LEMMA DivMod ==
  ASSUME NEW a \in Nat, NEW c \in Nat \ {0}
  PROVE  /\ a \div c \in Nat /\ a % c \in Nat /\ a % c < c
         /\ a = c * (a \div c) + (a % c)
OBVIOUS

LEMMA DivUnique ==
  ASSUME NEW a \in Nat, NEW c \in Nat \ {0}, NEW n \in Int, NEW r \in Nat,
         r < c, a = c * n + r
  PROVE  a \div c = n /\ a % c = r
OBVIOUS

LEMMA Multiples ==
  ASSUME NEW c \in Nat \ {0}, NEW n \in Int, NEW k \in Int
  PROVE  /\ c * n \in Int /\ c * k \in Int
         /\ n < k => c * n < c * k /\ c * n + c <= c * k
         /\ c * (n - 1) = c * n - c
OBVIOUS

(***************************************************************************)
(* The chunks of a file.                                                   *)
(***************************************************************************)

(* What TypeOK does not say of the sizes.                                  *)
Sizes == dataLen \in Nat /\ ChunkSize \in Nat \ {0} /\ HashSize \in Nat \ {0}

LEMMA ChunkFacts ==
  ASSUME Sizes
  PROVE  /\ Chunks \in Nat
         /\ dataLen = 0 => Chunks = 0
         /\ dataLen > 0 => /\ Chunks > 0
                           /\ ChunkSize * (Chunks - 1) < dataLen
                           /\ dataLen <= ChunkSize * (Chunks - 1) + ChunkSize
         /\ dataLen - (IF dataLen % ChunkSize = 0 THEN ChunkSize
                       ELSE dataLen % ChunkSize) = ChunkSize * (Chunks - 1)
<1> DEFINE L == dataLen
           c == ChunkSize
           n == L \div c
           r == L % c
<1>1. L \in Nat /\ c \in Nat \ {0}
  BY DEF Sizes
<1>2. n \in Nat /\ r \in Nat /\ r < c /\ L = c * n + r
  BY <1>1, DivMod
<1>3. Chunks = (L + c - 1) \div c
  BY DEF Chunks
<1>4. L + c - 1 \in Nat /\ c - 1 \in Nat
  BY <1>1
<1> HIDE DEF n, r, L, c
<1>5. CASE r = 0
  <2>1. L + c - 1 = c * n + (c - 1) /\ c - 1 < c
    BY <1>1, <1>2, <1>5
  <2>2. Chunks = n
    BY <1>1, <1>2, <1>3, <1>4, <2>1, DivUnique
  <2>3. L = c * n /\ c * (n - 1) = c * n - c /\ c * n \in Int
    BY <1>1, <1>2, <1>5, Multiples
  <2>4. L = 0 => n = 0
    <3>1. ASSUME 0 < n PROVE c * 0 < c * n
      BY <1>1, <1>2, <3>1, Multiples
    <3>2. c * 0 = 0
      BY <1>1
    <3> QED
      BY <1>2, <2>3, <3>1, <3>2
  <2>5. n = 0 => L = 0
    BY <1>1, <2>3
  <2>6. L > 0 => n > 0
    BY <1>2, <2>5
  <2>7. c * (n - 1) < L /\ L <= c * (n - 1) + c /\ L - c = c * (n - 1)
    BY <1>1, <2>3
  <2>8. dataLen - (IF dataLen % ChunkSize = 0 THEN ChunkSize
                   ELSE dataLen % ChunkSize) = L - c
    BY <1>5 DEF L, c, r
  <2>9. /\ L = 0 => Chunks = 0
        /\ L > 0 => Chunks > 0
    BY <1>2, <2>2, <2>4, <2>6
  <2> QED
    BY <1>2, <2>2, <2>7, <2>8, <2>9 DEF L, c
<1>6. CASE r # 0
  <2>1. L + c - 1 = c * (n + 1) + (r - 1) /\ r - 1 \in Nat /\ r - 1 < c
    <3>1. c * (n + 1) = c * n + c
      BY <1>1, <1>2
    <3>2. c * n \in Int
      BY <1>1, <1>2, Multiples
    <3> QED
      BY <1>1, <1>2, <1>6, <3>1, <3>2
  <2>2. Chunks = n + 1
    BY <1>1, <1>2, <1>3, <1>4, <2>1, DivUnique
  <2>3. c * n \in Int /\ c * (Chunks - 1) = c * n
    <3>1. Chunks - 1 = n
      BY <1>2, <2>2
    <3> QED
      BY <1>1, <1>2, <3>1, Multiples
  <2>4. L # 0
    <3>1. n >= 0 => c * n >= 0
      BY <1>1, <1>2
    <3> QED
      BY <1>1, <1>2, <1>6, <2>3, <3>1
  <2>5. L - r = c * n /\ c * n < L /\ L <= c * n + c
    BY <1>1, <1>2, <1>6, <2>3
  <2>6. dataLen - (IF dataLen % ChunkSize = 0 THEN ChunkSize
                   ELSE dataLen % ChunkSize) = L - r
    BY <1>6 DEF L, c, r
  <2> QED
    BY <1>2, <2>2, <2>3, <2>4, <2>5, <2>6 DEF L, c
<1> QED
  BY <1>5, <1>6

(* The chain is the function its recursive definition asks for.            *)
LEMMA ChainIs ==
  ASSUME Sizes
  PROVE  Chain = [k \in Nat |-> IF k >= Chunks THEN Sum(FileChunk(Chunks))
                                ELSE Sum(FileChunk(k) \o Bytes(Chain[k + 1]))]
<1> DEFINE last == Sum(FileChunk(Chunks))
           before(k, h1) == Sum(FileChunk(k) \o Bytes(h1))
           n == Chunks
           S == {m \in Nat : \E f :
                   f = [j \in 0..m |-> IF j = 0 THEN last
                                       ELSE before(n - j, f[j - 1])]}
           IsChain(f) == f = [k \in Nat |-> IF k >= n THEN last
                                            ELSE before(k, f[k + 1])]
<1>1. n \in Nat
  BY ChunkFacts
<1>2. Chain = CHOOSE f : IsChain(f)
  BY Zenon DEF Chain
<1> HIDE DEF n, last, before
<1>3. 0 \in S
  <2> DEFINE f == [j \in 0..0 |-> last]
  <2>1. f = [j \in 0..0 |-> IF j = 0 THEN last ELSE before(n - j, f[j - 1])]
    OBVIOUS
  <2> QED
    BY <2>1
<1>4. ASSUME NEW m \in Nat, m \in S PROVE m + 1 \in S
  <2>1. PICK f : f = [j \in 0..m |-> IF j = 0 THEN last
                                     ELSE before(n - j, f[j - 1])]
    BY <1>4
  <2> DEFINE longer == [j \in 0..m + 1 |-> IF j <= m THEN f[j]
                                      ELSE before(n - j, f[m])]
  <2>2. ASSUME NEW j \in 0..m + 1
        PROVE  longer[j] = IF j = 0 THEN last ELSE before(n - j, longer[j - 1])
    <3>1. CASE j <= m
      <4>1. longer[j] = f[j] /\ (j # 0 => longer[j - 1] = f[j - 1]) /\ j \in 0..m
        BY <3>1
      <4> HIDE DEF longer
      <4> QED
        BY <2>1, <4>1
    <3>2. CASE j = m + 1
      <4>1. longer[j] = before(n - j, f[m]) /\ longer[j - 1] = f[m] /\ j # 0
        BY <3>2
      <4> HIDE DEF longer
      <4> QED
        BY <4>1
    <3> QED
      BY <3>1, <3>2
  <2>3. longer = [j \in 0..m + 1 |-> IF j = 0 THEN last ELSE before(n - j, longer[j - 1])]
    <3>1. longer = [j \in 0..m + 1 |-> longer[j]]
      OBVIOUS
    <3> HIDE DEF longer
    <3> QED
      BY <2>2, <3>1
  <2> HIDE DEF longer
  <2> QED
    BY <2>3
<1>5. n \in S
  <2> HIDE DEF S
  <2>1. Nat \subseteq S
    BY <1>3, <1>4, Induct
  <2> QED
    BY <1>1, <2>1
<1>6. PICK f : f = [j \in 0..n |-> IF j = 0 THEN last
                                   ELSE before(n - j, f[j - 1])]
  BY <1>5
<1> DEFINE F == [k \in Nat |-> IF k >= n THEN last ELSE f[n - k]]
<1>7. ASSUME NEW k \in Nat
      PROVE  F[k] = IF k >= n THEN last ELSE before(k, F[k + 1])
  <2>1. CASE k >= n
    BY <2>1
  <2>2. CASE ~(k >= n)
    <3>1. n - k \in 0..n /\ n - k # 0 /\ n - (n - k) = k
      BY <1>1, <2>2
    <3>2. F[k] = f[n - k]
      BY <2>2
    <3>3. f[n - k] = before(k, f[n - k - 1])
      BY <1>6, <3>1
    <3>4. F[k + 1] = f[n - k - 1]
      <4>1. CASE k + 1 >= n
        <5>1. n - k - 1 = 0 /\ F[k + 1] = last
          BY <1>1, <2>2, <4>1
        <5>2. f[0] = last
          BY <1>1, <1>6
        <5> QED
          BY <5>1, <5>2
      <4>2. CASE ~(k + 1 >= n)
        <5>1. F[k + 1] = f[n - (k + 1)] /\ n - (k + 1) = n - k - 1
          BY <1>1, <4>2
        <5> QED
          BY <5>1
      <4> QED
        BY <4>1, <4>2
    <3> HIDE DEF F
    <3> QED
      BY <2>2, <3>2, <3>3, <3>4
  <2> QED
    BY <2>1, <2>2
<1>8. IsChain(F)
  <2>1. F = [k \in Nat |-> F[k]]
    OBVIOUS
  <2> HIDE DEF F
  <2> QED
    BY <1>7, <2>1
<1>9. IsChain(Chain)
  <2> HIDE DEF IsChain, F
  <2> QED
    BY <1>2, <1>8, Zenon
<1> QED
  BY <1>9, Zenon DEF n, last, before

(***************************************************************************)
(* The loop.                                                               *)
(***************************************************************************)
IsArray == Len(data) \in Nat /\ data = [k \in 1..Len(data) |-> data[k]]

(* Before the last chunk is hashed, and with the chunks from place + 1 on  *)
(* hashed.                                                                 *)
AtLast ==
  /\ endIndex = dataLen /\ startIndex = ChunkSize * (Chunks - 1)
  /\ hash = NoHash
AtChunk(place) ==
  /\ endIndex = ChunkSize * place /\ startIndex = ChunkSize * (place - 1)
  /\ hash = Chain[place + 1]

(* The inductive invariant: the hash is that of the chain from where the   *)
(* loop is, and what is not hashed yet is as it was read.                  *)
ChunkInv ==
  /\ dataLen \in 0..MaxLen
  /\ step \in {"start", "loop", "returned"}
  /\ IsArray /\ dataLen <= Len(data)
  /\ step = "start" =>
       hash = NoHash /\ \A k \in 1..dataLen : data[k] = Byte(k)
  /\ step = "loop" =>
       /\ AtLast \/ \E place \in 0..Chunks - 1 : AtChunk(place)
       /\ \A k \in 1..endIndex : data[k] = Byte(k)
  /\ HashIsChain

(* Where the loop is, as numbers.                                          *)
LEMMA LoopFacts ==
  ASSUME ChunkInv, step = "loop"
  PROVE  /\ Sizes /\ Chunks \in Nat
         /\ startIndex \in Int /\ endIndex \in Nat /\ endIndex <= dataLen
         /\ dataLen <= Len(data) /\ Len(data) \in Nat
         /\ startIndex < endIndex /\ endIndex <= startIndex + ChunkSize
         /\ AtLast => (startIndex < 0 <=> dataLen = 0)
         /\ \A place \in 0..Chunks - 1 : AtChunk(place) =>
              /\ dataLen > 0 /\ endIndex < dataLen
              /\ startIndex < 0 <=> place = 0
              /\ endIndex = startIndex + ChunkSize
<1>1. Sizes
  BY SizesAssumption DEF Sizes, ChunkInv
<1>2. /\ dataLen \in Nat /\ ChunkSize \in Nat \ {0} /\ Chunks \in Nat
      /\ Len(data) \in Nat /\ dataLen <= Len(data)
  BY <1>1, ChunkFacts DEF Sizes, ChunkInv, IsArray
<1>3. /\ dataLen = 0 => Chunks = 0
      /\ dataLen > 0 => /\ Chunks > 0
                        /\ ChunkSize * (Chunks - 1) < dataLen
                        /\ dataLen <= ChunkSize * (Chunks - 1) + ChunkSize
  BY <1>1, ChunkFacts
<1>4. /\ ChunkSize * 0 = 0 /\ ChunkSize * (0 - 1) = 0 - ChunkSize
  BY <1>2
<1>5. ASSUME NEW place \in Int
      PROVE  /\ ChunkSize * place \in Int
             /\ ChunkSize * (place - 1) = ChunkSize * place - ChunkSize
             /\ place > 0 => ChunkSize * place >= ChunkSize
             /\ place < 0 => ChunkSize * place < 0
             /\ place < Chunks - 1 => ChunkSize * place < ChunkSize * (Chunks - 1)
  <2>1. 0 < place => ChunkSize * 0 + ChunkSize <= ChunkSize * place
    BY <1>2, Multiples
  <2>2. place < 0 => ChunkSize * place < ChunkSize * 0
    BY <1>2, Multiples
  <2>3. Chunks - 1 \in Int
    BY <1>2
  <2>4. place < Chunks - 1 => ChunkSize * place < ChunkSize * (Chunks - 1)
    BY <1>2, <2>3, Multiples
  <2>5. /\ ChunkSize * place \in Int
        /\ ChunkSize * (place - 1) = ChunkSize * place - ChunkSize
    BY <1>2, Multiples
  <2> QED
    BY <1>2, <1>4, <2>1, <2>2, <2>4, <2>5
<1>6. CASE AtLast
  <2>1. endIndex = dataLen /\ startIndex = ChunkSize * (Chunks - 1)
    BY <1>6 DEF AtLast
  <2>2. /\ Chunks - 1 \in Int
        /\ Chunks = 0 => startIndex = 0 - ChunkSize
        /\ Chunks > 0 => startIndex >= 0
    <3>1. Chunks - 1 \in Int
      BY <1>2
    <3>2. CASE Chunks = 0
      BY <1>4, <2>1, <3>1, <3>2
    <3>3. CASE Chunks = 1
      <4>1. Chunks - 1 = 0
        BY <3>3
      <4> QED
        BY <1>4, <2>1, <3>1, <3>3, <4>1
    <3>4. CASE Chunks > 1
      <4>1. Chunks - 1 > 0
        BY <1>2, <3>4
      <4>2. startIndex >= ChunkSize
        BY <1>5, <2>1, <3>1, <4>1
      <4> QED
        BY <1>2, <2>1, <3>1, <3>4, <1>5, <4>2
    <3> QED
      BY <1>2, <3>1, <3>2, <3>3, <3>4
  <2>3. startIndex \in Int
    BY <1>5, <2>1, <2>2
  <2>4. /\ startIndex < endIndex /\ endIndex <= startIndex + ChunkSize
        /\ startIndex < 0 <=> dataLen = 0
    <3>1. CASE dataLen = 0
      BY <1>2, <1>3, <2>1, <2>2, <3>1
    <3>2. CASE dataLen > 0
      <4>1. Chunks > 0 /\ startIndex >= 0
        BY <1>2, <1>3, <2>2, <3>2
      <4> QED
        BY <1>2, <1>3, <2>1, <2>3, <3>2, <4>1
    <3> QED
      BY <1>2, <3>1, <3>2
  <2>5. endIndex \in Nat /\ endIndex <= dataLen
    BY <1>2, <2>1
  <2>6. ASSUME NEW place \in 0..Chunks - 1, AtChunk(place)
        PROVE  FALSE
    <3>1. endIndex = ChunkSize * place /\ dataLen > 0
      BY <1>2, <1>3, <2>6 DEF AtChunk
    <3>2. place = Chunks - 1 \/ place < Chunks - 1
      BY <1>2
    <3>3. ChunkSize * place \in Int /\ ChunkSize * (Chunks - 1) \in Int
      BY <1>5, <2>2
    <3>4. ChunkSize * place <= ChunkSize * (Chunks - 1)
      BY <1>5, <3>2, <3>3
    <3> QED
      BY <1>2, <1>3, <2>1, <3>1, <3>3, <3>4
  <2> QED
    BY <1>1, <1>2, <2>3, <2>4, <2>5, <2>6
<1>7. CASE ~AtLast
  <2>1. PICK place \in 0..Chunks - 1 : AtChunk(place)
    BY <1>7 DEF ChunkInv
  <2>2. ASSUME NEW l \in 0..Chunks - 1, AtChunk(l)
        PROVE  /\ dataLen > 0 /\ endIndex \in Nat /\ endIndex < dataLen
               /\ startIndex \in Int /\ (startIndex < 0 <=> l = 0)
               /\ endIndex = startIndex + ChunkSize
    <3>1. endIndex = ChunkSize * l /\ startIndex = ChunkSize * (l - 1)
      BY <2>2 DEF AtChunk
    <3>2. dataLen > 0 /\ l \in Nat /\ Chunks - 1 \in Int /\ l - 1 \in Int
      BY <1>2, <1>3
    <3>3. l = Chunks - 1 \/ l < Chunks - 1
      BY <1>2
    <3>4. /\ ChunkSize * l \in Int /\ ChunkSize * (Chunks - 1) \in Int
          /\ ChunkSize * (l - 1) \in Int
          /\ ChunkSize * (l - 1) = ChunkSize * l - ChunkSize
      BY <1>5, <3>2
    <3>5. ChunkSize * l <= ChunkSize * (Chunks - 1)
      BY <1>5, <3>3, <3>4
    <3>6. ChunkSize * l >= 0 /\ (l > 0 => ChunkSize * l >= ChunkSize)
      BY <1>2, <1>4, <1>5, <3>2
    <3>7. startIndex < 0 <=> l = 0
      BY <1>2, <1>4, <3>1, <3>2, <3>4, <3>6
    <3> QED
      BY <1>2, <1>3, <3>1, <3>2, <3>4, <3>5, <3>6, <3>7
  <2>3. /\ startIndex < endIndex /\ endIndex <= startIndex + ChunkSize
        /\ endIndex <= dataLen /\ endIndex \in Nat /\ startIndex \in Int
    <3>1. /\ endIndex \in Nat /\ endIndex < dataLen /\ startIndex \in Int
          /\ endIndex = startIndex + ChunkSize
      BY <2>1, <2>2
    <3> QED
      BY <1>2, <3>1
  <2> QED
    BY <1>1, <1>2, <1>7, <2>2, <2>3
<1> QED
  BY <1>6, <1>7

(* A slice of an array that is as it was read.                             *)
LEMMA SliceRead ==
  ASSUME NEW s, NEW m \in Nat, NEW len \in Nat,
         \A k \in 1..m + len : s[k] = Byte(k),
         NEW piece, piece = [j \in 1..len |-> Byte(m + j)]
  PROVE  SubSeq(s, m + 1, m + len) = piece
<1> DEFINE S == {Byte(k) : k \in Nat}
           sub == SubSeq(s, m + 1, m + len)
<1>1. /\ sub \in Seq(S)
      /\ Len(sub) = IF m + 1 <= m + len THEN m + len - (m + 1) + 1 ELSE 0
      /\ \A j \in 1..m + len - (m + 1) + 1 : sub[j] = s[m + 1 + j - 1]
  <2>1. m + 1 \in Int /\ m + len \in Int
    OBVIOUS
  <2>2. \A k \in m + 1..m + len : s[k] \in S
    <3>1. \A k \in m + 1..m + len : k \in Nat /\ k \in 1..m + len
      OBVIOUS
    <3> QED
      BY <3>1
  <2> HIDE DEF S
  <2> QED
    BY <2>1, <2>2, SubSeqProperties
<1> HIDE DEF S, sub
<1>2. Len(sub) = len
  BY <1>1
<1>3. \A j \in 1..len : sub[j] = Byte(m + j)
  <2> SUFFICES ASSUME NEW j \in 1..len PROVE sub[j] = Byte(m + j)
    OBVIOUS
  <2>1. j \in 1..m + len - (m + 1) + 1 /\ m + 1 + j - 1 = m + j
    OBVIOUS
  <2>2. m + j \in 1..m + len
    OBVIOUS
  <2> QED
    BY <1>1, <2>1, <2>2
<1>4. sub = [j \in 1..len |-> sub[j]]
  BY <1>1, <1>2, LenProperties
<1> QED
  BY <1>3, <1>4 DEF sub

(* The slice that the loop hashes is the chunk of the file.                *)
LEMMA LoopChunk ==
  ASSUME ChunkInv, step = "loop", startIndex >= 0, NEW k \in Nat,
         startIndex = ChunkSize * (k - 1),
         endIndex - startIndex =
           IF k = Chunks THEN dataLen - (k - 1) * ChunkSize ELSE ChunkSize
  PROVE  Chunk = FileChunk(k)
<1> DEFINE len == endIndex - startIndex
<1>1. /\ startIndex \in Nat /\ len \in Nat /\ startIndex + len = endIndex
      /\ ChunkSize \in Nat /\ Chunks \in Nat
  <2>1. /\ startIndex \in Int /\ endIndex \in Nat /\ startIndex < endIndex
        /\ Sizes /\ Chunks \in Nat
    BY LoopFacts
  <2> QED
    BY <2>1 DEF Sizes
<1>2. \A l \in 1..startIndex + len : data[l] = Byte(l)
  BY <1>1 DEF ChunkInv
<1>3. Chunk = SubSeq(data, startIndex + 1, startIndex + len)
  BY <1>1 DEF Chunk
<1>4. (k - 1) * ChunkSize = startIndex
  BY <1>1
<1>5. len = IF k = Chunks THEN dataLen - (k - 1) * ChunkSize ELSE ChunkSize
  OBVIOUS
<1> HIDE DEF len
<1>6. FileChunk(k) = [j \in 1..len |-> Byte(startIndex + j)]
  BY <1>4, <1>5 DEF FileChunk
<1>7. SubSeq(data, startIndex + 1, startIndex + len) = FileChunk(k)
  <2> DEFINE m == startIndex
             s == data
             piece == FileChunk(k)
  <2>1. /\ m \in Nat /\ len \in Nat /\ \A l \in 1..m + len : s[l] = Byte(l)
        /\ piece = [j \in 1..len |-> Byte(m + j)]
    BY <1>1, <1>2, <1>6
  <2> HIDE DEF m, s, piece
  <2>2. SubSeq(s, m + 1, m + len) = piece
    BY <2>1, SliceRead
  <2> QED
    BY <2>2 DEF m, s, piece
<1> QED
  BY <1>3, <1>7

LEMMA StartStep ==
  ASSUME ChunkInv, Start
  PROVE  ChunkInv'
<1>1. Sizes
  BY SizesAssumption DEF Sizes, ChunkInv
<1>2. AtLast'
  <2>1. startIndex' = ChunkSize * (Chunks - 1)
    BY <1>1, ChunkFacts DEF Start
  <2>2. Chunks' = Chunks
    BY DEF Chunks, Start
  <2> QED
    BY <2>1, <2>2 DEF AtLast, Start, ChunkInv
<1> QED
  BY <1>2 DEF ChunkInv, Start, IsArray, HashIsChain

(* append writes behind the chunk.                                         *)
LEMMA LoopArray ==
  ASSUME ChunkInv, Loop
  PROVE  /\ IsArray' /\ dataLen' <= Len(data')
         /\ \A k \in 1..endIndex' : data'[k] = Byte(k)
<1>1. /\ startIndex \in Int /\ endIndex \in Nat /\ Len(data) \in Nat
      /\ startIndex < endIndex /\ dataLen <= Len(data) /\ endIndex <= dataLen
      /\ dataLen \in Nat
  BY LoopFacts DEF Loop, Sizes
<1>2. endIndex' = startIndex /\ dataLen' = dataLen /\ data' \in {data, Appended}
  BY DEF Loop
<1>3. \A k \in 1..endIndex : data[k] = Byte(k)
  BY DEF ChunkInv, Loop
<1>4. data = [k \in 1..Len(data) |-> data[k]]
  BY DEF ChunkInv, IsArray
<1>5. ASSUME NEW cells, cells = Appended, cells # data
      PROVE  /\ Len(cells) = Len(data)
             /\ cells = [k \in 1..Len(data) |-> cells[k]]
             /\ \A k \in 1..startIndex : cells[k] = data[k]
  <2>1. cells = [k \in 1..Len(data) |->
                   IF k \in endIndex + 1..endIndex + HashSize
                   THEN HashByte(hash, k - endIndex) ELSE data[k]]
    BY <1>5 DEF Appended
  <2>2. cells \in Seq({cells[k] : k \in 1..Len(data)})
    <3>1. cells \in [1..Len(data) -> {cells[k] : k \in 1..Len(data)}]
      BY <2>1
    <3> QED
      BY <1>1, <3>1, SeqDef
  <2>3. DOMAIN cells = 1..Len(data) /\ DOMAIN cells = 1..Len(cells) /\ Len(cells) \in Nat
    <3>1. DOMAIN cells = 1..Len(data)
      BY <2>1
    <3> DEFINE S == {cells[k] : k \in 1..Len(data)}
    <3>2. cells \in Seq(S)
      BY <2>2
    <3> HIDE DEF S
    <3>3. DOMAIN cells = 1..Len(cells) /\ Len(cells) \in Nat
      BY <3>2, LenProperties
    <3> QED
      BY <3>1, <3>3
  <2>4. Len(cells) = Len(data)
    BY <1>1, <2>3
  <2>5. ASSUME NEW k \in 1..startIndex PROVE cells[k] = data[k]
    <3>1. k \in 1..Len(data) /\ k \notin endIndex + 1..endIndex + HashSize
      BY <1>1
    <3> QED
      BY <2>1, <3>1
  <2>6. cells = [k \in 1..Len(data) |-> cells[k]]
    BY <2>1
  <2> QED
    BY <2>4, <2>5, <2>6
<1>6. /\ Len(data') = Len(data)
      /\ data' = [k \in 1..Len(data) |-> data'[k]]
      /\ \A k \in 1..startIndex : data'[k] = data[k]
  BY <1>2, <1>4, <1>5
<1>7. \A k \in 1..startIndex : k \in 1..endIndex
  BY <1>1
<1> QED
  BY <1>1, <1>2, <1>3, <1>6, <1>7 DEF IsArray

(* The hash goes one chunk down the chain.                                 *)
LEMMA LoopStep ==
  ASSUME ChunkInv, Loop
  PROVE  ChunkInv'
<1>0. /\ Sizes /\ Chunks \in Nat /\ step = "loop" /\ startIndex >= 0
      /\ startIndex \in Int /\ endIndex \in Nat
      /\ dataLen \in Nat /\ ChunkSize \in Nat
  BY LoopFacts DEF Loop, Sizes
<1>1. /\ IsArray' /\ dataLen' <= Len(data')
      /\ \A k \in 1..endIndex' : data'[k] = Byte(k)
  BY LoopArray
<1>2. /\ dataLen' = dataLen /\ step' = step
      /\ endIndex' = startIndex /\ startIndex' = startIndex - ChunkSize
      /\ hash' = IF endIndex = dataLen THEN Sum(Chunk)
                 ELSE Sum(Chunk \o Bytes(hash))
  BY DEF Loop
<1>3. Chunks' = Chunks /\ Chain' = Chain
  BY <1>2 DEF Chain, FileChunk, Chunks
<1>4. ASSUME NEW k \in 1..Chunks, startIndex = ChunkSize * (k - 1),
             hash' = Chain[k]
      PROVE  ChunkInv'
  <2> DEFINE place == k - 1
  <2>1. place \in 0..Chunks - 1 /\ k - 1 = place /\ place + 1 = k
    BY <1>0
  <2>2. ChunkSize * (place - 1) = ChunkSize * place - ChunkSize
    <3>1. ChunkSize \in Nat \ {0} /\ place \in Int
      BY <1>0, <2>1 DEF Sizes
    <3> QED
      BY <3>1, Multiples
  <2> HIDE DEF place
  <2>3. /\ endIndex' = ChunkSize * place
        /\ startIndex' = ChunkSize * (place - 1)
        /\ hash' = Chain[place + 1]
    BY <1>2, <1>4, <2>1, <2>2
  <2>4. \E l \in 0..Chunks - 1 : AtChunk(l)'
    BY <1>3, <2>1, <2>3 DEF AtChunk
  <2>5. (\E l \in 0..Chunks - 1 : AtChunk(l))'
    BY <1>3, <2>4
  <2>6. /\ dataLen' \in 0..MaxLen /\ step' = "loop"
    BY <1>0, <1>2 DEF ChunkInv
  <2>7. HashIsChain'
    BY <2>6 DEF HashIsChain
  <2> QED
    BY <1>1, <2>5, <2>6, <2>7 DEF ChunkInv
<1>5. CASE AtLast
  <2>1. /\ endIndex = dataLen /\ startIndex = ChunkSize * (Chunks - 1)
    BY <1>5 DEF AtLast
  <2>2. dataLen > 0 /\ Chunks > 0
    <3>1. dataLen # 0
      BY <1>0, <1>5, LoopFacts
    <3>2. dataLen > 0
      BY <1>0, <3>1
    <3> QED
      BY <1>0, <3>2, ChunkFacts
  <2>3. (Chunks - 1) * ChunkSize = startIndex
    BY <1>0, <2>1
  <2>4. Chunk = FileChunk(Chunks)
    BY <1>0, <2>1, <2>3, LoopChunk
  <2>5. Chain[Chunks] = Sum(FileChunk(Chunks))
    BY <1>0, ChainIs
  <2> QED
    BY <1>0, <1>2, <1>4, <2>1, <2>2, <2>4, <2>5
<1>6. CASE ~AtLast
  <2>1. PICK k \in 0..Chunks - 1 : AtChunk(k)
    BY <1>0, <1>6 DEF ChunkInv
  <2>2. /\ endIndex # dataLen /\ k # 0 /\ endIndex = startIndex + ChunkSize
    BY <1>0, <2>1, LoopFacts
  <2>3. /\ startIndex = ChunkSize * (k - 1) /\ hash = Chain[k + 1]
    BY <2>1 DEF AtChunk
  <2>4. k \in 1..Chunks /\ k \in Nat /\ ~(k >= Chunks) /\ k # Chunks
    BY <1>0, <2>2
  <2>5. Chunk = FileChunk(k)
    <3>1. endIndex - startIndex = ChunkSize
      BY <1>0, <2>2
    <3> QED
      BY <1>0, <2>3, <2>4, <3>1, LoopChunk
  <2>6. Chain[k] = Sum(FileChunk(k) \o Bytes(Chain[k + 1]))
    BY <1>0, <2>4, ChainIs
  <2>7. hash' = Chain[k]
    BY <1>2, <2>2, <2>3, <2>5, <2>6
  <2> QED
    BY <1>4, <2>3, <2>4, <2>7
<1> QED
  BY <1>5, <1>6

LEMMA ReturnStep ==
  ASSUME ChunkInv, Return
  PROVE  ChunkInv'
<1>0. Chunks' = Chunks /\ Chain' = Chain
  BY DEF Return, Chain, FileChunk, Chunks
<1>1. hash = IF dataLen = 0 THEN NoHash ELSE Chain[1]
  <2>1. step = "loop" /\ startIndex < 0
    BY DEF Return
  <2>2. CASE AtLast
    <3>1. dataLen = 0
      BY <2>1, <2>2, LoopFacts
    <3> QED
      BY <2>2, <3>1 DEF AtLast
  <2>3. CASE ~AtLast
    <3>1. PICK k \in 0..Chunks - 1 : AtChunk(k)
      BY <2>1, <2>3 DEF ChunkInv
    <3>2. dataLen > 0 /\ k = 0 /\ dataLen \in Nat
      BY <2>1, <3>1, LoopFacts DEF Sizes
    <3>3. hash = Chain[0 + 1] /\ 0 + 1 = 1 /\ dataLen # 0
      BY <3>1, <3>2 DEF AtChunk
    <3> QED
      BY <3>3
  <2> QED
    BY <2>2, <2>3
<1>2. HashIsChain'
  BY <1>0, <1>1 DEF Return, HashIsChain
<1> QED
  BY <1>2 DEF ChunkInv, Return, IsArray

LEMMA ChunksInvariant == Spec => []ChunkInv
<1>1. Init => ChunkInv
  <2> SUFFICES ASSUME Init PROVE ChunkInv
    OBVIOUS
  <2>1. dataLen \in 0..MaxLen /\ MaxLen \in Nat /\ ChunkSize \in Nat
    BY SizesAssumption DEF Init
  <2>2. PICK spare \in 0..ChunkSize :
          data = [k \in 1..dataLen + spare |-> IF k <= dataLen THEN Byte(k) ELSE Zero]
    BY DEF Init
  <2> DEFINE len == dataLen + spare
             S == {data[k] : k \in 1..len}
  <2>3. len \in Nat /\ dataLen <= len
    BY <2>1
  <2>4. DOMAIN data = 1..len /\ data = [k \in 1..len |-> data[k]]
        /\ \A k \in 1..dataLen : data[k] = Byte(k)
    <3>1. \A k \in 1..dataLen : k \in 1..len /\ k <= dataLen
      BY <2>1, <2>3
    <3> QED
      BY <2>2, <3>1
  <2>5. data \in [1..len -> S]
    BY <2>4
  <2> HIDE DEF len, S
  <2>6. Len(data) = len
    <3>1. data \in Seq(S)
      BY <2>3, <2>5, SeqDef
    <3>2. DOMAIN data = 1..Len(data) /\ Len(data) \in Nat
      BY <3>1, LenProperties
    <3> QED
      BY <2>3, <2>4, <3>2
  <2> QED
    BY <2>1, <2>3, <2>4, <2>6 DEF ChunkInv, IsArray, Init, HashIsChain
<1>2. ChunkInv /\ [Next]_vars => ChunkInv'
  <2> SUFFICES ASSUME ChunkInv, [Next]_vars PROVE ChunkInv'
    OBVIOUS
  <2>1. CASE Next
    BY <2>1, StartStep, LoopStep, ReturnStep DEF Next
  <2>2. CASE UNCHANGED vars
    BY ZenonT(60), <2>2 DEF vars, ChunkInv, IsArray, AtLast, AtChunk, HashIsChain, Chain,
                FileChunk, Chunks
  <2> QED
    BY <2>1, <2>2
<1> QED
  BY <1>1, <1>2, PTL DEF Spec

(* For every file, chunk and hash size, what hmac returns is the hash of   *)
(* the chain that the comment at main.go 55 states, over the file as it    *)
(* was read: append, which writes behind the slice where the capacity      *)
(* allows, never writes over a byte that is still to be hashed.            *)
THEOREM HashOfChain == SpecAny => []HashIsTheChains
<1>1. ChunkInv => HashIsTheChains
  <2> SUFFICES ASSUME ChunkInv PROVE TypeOK /\ UnhashedIntact /\ HashIsChain
    BY DEF HashIsTheChains
  <2>1. UnhashedIntact /\ HashIsChain
    BY DEF ChunkInv, UnhashedIntact
  <2>2. ASSUME step = "loop"
        PROVE  /\ endIndex % ChunkSize = 0 \/ endIndex = dataLen
               /\ startIndex < 0 \/ startIndex \in endIndex - ChunkSize .. endIndex - 1
    <3>1. /\ startIndex \in Int /\ endIndex \in Nat /\ ChunkSize \in Nat \ {0}
          /\ startIndex < endIndex /\ endIndex <= startIndex + ChunkSize
          /\ Chunks \in Nat
      BY <2>2, LoopFacts DEF Sizes
    <3>2. startIndex \in endIndex - ChunkSize .. endIndex - 1
      BY <3>1
    <3>3. ASSUME NEW k \in 0..Chunks - 1, AtChunk(k) PROVE endIndex % ChunkSize = 0
      <4>1. endIndex = ChunkSize * k + 0 /\ k \in Int /\ 0 < ChunkSize
        BY <3>1, <3>3 DEF AtChunk
      <4> QED
        BY <3>1, <4>1, DivUnique
    <3>4. AtLast \/ \E k \in 0..Chunks - 1 : AtChunk(k)
      BY <2>2 DEF ChunkInv
    <3>5. AtLast => endIndex = dataLen
      BY DEF AtLast
    <3> QED
      BY <3>2, <3>3, <3>4, <3>5
  <2> QED
    BY <2>1, <2>2 DEF TypeOK, ChunkInv
<1>2. InitAny => Init
  BY DEF InitAny, ChunksIdle
<1>3. [NextAny]_all => [Next]_vars
  BY DEF NextAny, all, vars
<1>4. SpecAny => Spec
  BY <1>2, <1>3, PTL DEF SpecAny, Spec
<1> QED
  BY <1>1, <1>4, ChunksInvariant, PTL
(***************************************************************************)
(* Factoring: squares and roots.                                           *)
(***************************************************************************)
LEMMA Squares ==
  ASSUME NEW a \in Nat, NEW b \in Nat
  PROVE  /\ a * a \in Nat
         /\ a < b => a * a < b * b
         /\ a <= b => a * a <= b * b
         /\ a <= a * a
OBVIOUS

LEMMA Roots ==
  ASSUME NEW a \in Nat, NEW b \in Nat
  PROVE  /\ a * a < b * b => a < b
         /\ a * a <= b * b => a <= b
         /\ a * a = b * b => a = b
<1>1. (b <= a => b * b <= a * a) /\ (b < a => b * b < a * a) /\ (a < b => a * a < b * b)
  BY Squares
<1>2. a * a \in Nat /\ b * b \in Nat
  BY Squares
<1> QED
  BY <1>1, <1>2

LEMMA RootExists ==
  ASSUME NEW n \in Nat
  PROVE  \E r \in 0..n : r * r <= n /\ n < (r + 1) * (r + 1)
<1> DEFINE T == {k \in Nat : n < (k + 1) * (k + 1)}
<1>1. n \in T
  <2>1. n + 1 <= (n + 1) * (n + 1)
    BY Squares
  <2> QED
    BY <2>1
<1>2. PICK r \in T : \A m \in T : r <= m
  BY <1>1, SmallestElement
<1>3. r \in Nat /\ n < (r + 1) * (r + 1) /\ r <= n
  BY <1>1, <1>2
<1>4. r * r <= n
  <2>1. CASE r = 0
    BY <2>1
  <2>2. CASE r # 0
    <3>1. r - 1 \in Nat /\ ~ (r <= r - 1) /\ r - 1 + 1 = r
      BY <1>3, <2>2
    <3>2. r - 1 \notin T
      BY <1>2, <3>1
    <3>3. ~ (n < r * r)
      BY <3>1, <3>2
    <3> QED
      BY <1>3, <3>3, Squares
  <2> QED
    BY <2>1, <2>2
<1> QED
  BY <1>3, <1>4

LEMMA RootUnique ==
  ASSUME NEW n \in Nat, NEW r \in Nat, NEW s \in Nat,
         r * r <= n, n < (r + 1) * (r + 1), s * s <= n, n < (s + 1) * (s + 1)
  PROVE  r = s
<1>1. r * r < (s + 1) * (s + 1) /\ s * s < (r + 1) * (r + 1)
  BY Squares
<1>2. r < s + 1 /\ s < r + 1
  BY <1>1, Roots
<1> QED
  BY <1>2

(* Sqrt rounds down.                                                       *)
LEMMA SqrtFloor ==
  ASSUME NEW n \in Nat
  PROVE  /\ Factoring!Sqrt(n) \in 0..n
         /\ Factoring!Sqrt(n) * Factoring!Sqrt(n) <= n
         /\ n < (Factoring!Sqrt(n) + 1) * (Factoring!Sqrt(n) + 1)
BY RootExists, Zenon DEF Factoring!Sqrt

LEMMA SqrtIs ==
  ASSUME NEW n \in Nat, NEW r \in Nat, r * r <= n, n < (r + 1) * (r + 1)
  PROVE  Factoring!Sqrt(n) = r
<1> DEFINE s == Factoring!Sqrt(n)
<1>1. s \in 0..n /\ s * s <= n /\ n < (s + 1) * (s + 1)
  BY SqrtFloor
<1> HIDE DEF s
<1>2. s = r
  BY <1>1, RootUnique
<1> QED
  BY <1>2 DEF s

LEMMA SqrtOfSquare ==
  ASSUME NEW r \in Nat
  PROVE  Factoring!Sqrt(r * r) = r
<1>1. r * r \in Nat /\ r * r < (r + 1) * (r + 1)
  BY Squares
<1> QED
  BY <1>1, SqrtIs
(* With the middle s and half the distance d of two near factors, s is the *)
(* first middle after the root.                                            *)
LEMMA NearMiddle ==
  ASSUME NEW s \in Nat, NEW d \in Nat, NEW n \in Nat, d > 0,
         n = s * s - d * d, d * d <= 2 * s - 1
  PROVE  Factoring!Middle(n) = s /\ Factoring!FindX(s, n) = d
<1>1. s * s \in Nat /\ d * d \in Nat /\ d <= d * d
  BY Squares
<1>2. s - 1 \in Nat /\ s - 1 + 1 = s
  BY <1>1
<1>3. (s - 1) * (s - 1) = s * s - 2 * s + 1
  OBVIOUS
<1>4. (s - 1) * (s - 1) <= n /\ n < s * s
  BY <1>1, <1>3
<1>5. Factoring!Sqrt(n) = s - 1
  BY <1>2, <1>4, SqrtIs
<1>6. s * s - n = d * d
  BY <1>1
<1>7. Factoring!Sqrt(s * s - n) = d
  BY <1>6, SqrtOfSquare
<1> QED
  BY <1>2, <1>5, <1>7 DEF Factoring!Middle, Factoring!FindX

(* The root of what is left of a square is no more than its side.          *)
LEMMA FindXType ==
  ASSUME NEW a \in Nat, NEW n \in Nat, n <= a * a
  PROVE  Factoring!FindX(a, n) \in 0..a
<1>1. a * a \in Nat /\ a * a - n \in Nat
  BY Squares
<1> DEFINE half == Factoring!Sqrt(a * a - n)
<1>2. half \in Nat /\ half * half <= a * a - n
  BY <1>1, SqrtFloor
<1> HIDE DEF half
<1>3. half * half <= a * a
  BY <1>1, <1>2, Squares
<1>4. half <= a
  BY <1>2, <1>3, Roots
<1> QED
  BY <1>2, <1>4 DEF Factoring!FindX, half

LEMMA MiddleType ==
  ASSUME NEW n \in Nat
  PROVE  LET a == Factoring!Middle(n)
         IN  a \in Nat /\ n < a * a /\ Factoring!FindX(a, n) \in 0..a
<1> DEFINE a == Factoring!Sqrt(n) + 1
<1>1. a \in Nat /\ n < a * a
  BY SqrtFloor
<1> HIDE DEF a
<1>2. Factoring!FindX(a, n) \in 0..a
  BY <1>1, FindXType, Squares
<1> QED
  BY <1>1, <1>2 DEF a, Factoring!Middle

(* Two odd factors, by their middle and half their distance.               *)
LEMMA OddPair ==
  ASSUME NEW a \in Nat, NEW b \in Nat, a % 2 = 1, b % 2 = 1, a <= b
  PROVE  \E s \in Nat, d \in Nat :
           /\ a = s - d /\ b = s + d /\ a * b = s * s - d * d
           /\ d <= s /\ (d = 0 <=> a = b) /\ 2 * s = a + b
<1> DEFINE s == (a + b) \div 2  d == (b - a) \div 2
<1>1. s \in Nat /\ d \in Nat /\ 2 * s = a + b /\ 2 * d = b - a
  OBVIOUS
<1> HIDE DEF s, d
<1>2. a = s - d /\ b = s + d
  BY <1>1
<1>3. (s - d) * (s + d) = s * s - d * d
  BY <1>1
<1>4. a * b = s * s - d * d
  BY <1>2, <1>3
<1>5. d <= s /\ (d = 0 <=> a = b)
  BY <1>1
<1> QED
  BY <1>1, <1>2, <1>4, <1>5

(* The condition of the README, with the fourth root taken away: half the  *)
(* distance squared is less than the middle.                               *)
LEMMA FourthRoot ==
  ASSUME NEW s \in Nat, NEW e \in Nat, NEW n \in Nat,
         n <= s * s, (e * e) * (e * e) < n
  PROVE  e * e < s
<1>1. e * e \in Nat /\ s * s \in Nat /\ (e * e) * (e * e) \in Nat
  BY Squares
<1>2. (e * e) * (e * e) < s * s
  BY <1>1
<1> QED
  BY <1>1, <1>2, Roots
(***************************************************************************)
(* Factoring: the three programs.                                          *)
(***************************************************************************)
FactorTypes ==
  /\ test \in {"test1", "test2", "test3"}
  /\ f1 \in Factoring!Odd \ {1} /\ f2 \in Factoring!Odd \ {1} /\ f1 <= f2

(* No middle from the root to m makes a product of N.                      *)
NoneUpTo(m) ==
  \A k \in Factoring!Sqrt(Factoring!N) + 1..m :
    (k - Factoring!FindX(k, Factoring!N)) * (k + Factoring!FindX(k, Factoring!N))
      # Factoring!N

FermatInv ==
  /\ FactorTypes
  /\ FactorsFound
  /\ testStep = "search" =>
       /\ test = "test2"
       /\ A >= Factoring!Sqrt(Factoring!N)
       /\ NoneUpTo(A)

LEMMA FactorFacts ==
  ASSUME FactorTypes
  PROVE  /\ f1 \in Nat /\ f2 \in Nat /\ f1 > 1 /\ f1 <= f2
         /\ f1 % 2 = 1 /\ f2 % 2 = 1
         /\ Factoring!N \in Nat /\ Factoring!N = f1 * f2 /\ Factoring!N > 0
<1>1. f1 \in 1..MaxFactor /\ f1 % 2 = 1 /\ f1 # 1 /\ f2 \in 1..MaxFactor /\ f2 % 2 = 1
      /\ f1 <= f2
  BY DEF FactorTypes, Factoring!Odd
<1>2. f1 \in Nat /\ f2 \in Nat /\ f1 > 1
  BY <1>1, FactorsAssumption
<1>3. f1 * f2 \in Nat /\ f1 * f2 > 0
  BY <1>1, <1>2
<1> QED
  BY <1>1, <1>2, <1>3 DEF Factoring!N

(* test1: the first middle after the root is that of near factors.         *)
LEMMA NearFactors ==
  ASSUME FactorTypes, Factoring!Near, ~Factoring!Square
  PROVE  LET a == Factoring!Middle(Factoring!N)
         IN  a - Factoring!FindX(a, Factoring!N) = f1
             /\ a + Factoring!FindX(a, Factoring!N) = f2
<1>1. PICK s \in Nat, d \in Nat :
        /\ f1 = s - d /\ f2 = s + d /\ f1 * f2 = s * s - d * d
        /\ d <= s /\ (d = 0 <=> f1 = f2) /\ 2 * s = f1 + f2
  BY FactorFacts, OddPair
<1> DEFINE n == Factoring!N
<1>2. n \in Nat /\ n = s * s - d * d
  BY <1>1, FactorFacts
<1>3. d > 0
  BY <1>1 DEF Factoring!Square
<1>4. Factoring!Power4(f2 - f1) < 16 * n
  BY DEF Factoring!Near
<1> HIDE DEF n
<1>5. f2 - f1 = 2 * d
  BY <1>1
<1>6. Factoring!Power4(2 * d) = 16 * ((d * d) * (d * d))
  BY DEF Factoring!Power4
<1>7. (d * d) * (d * d) < n
  <2>1. (d * d) * (d * d) \in Nat
    BY Squares
  <2> QED
    BY <1>2, <1>4, <1>5, <1>6, <2>1
<1>8. d * d < s
  <2>1. d * d \in Nat /\ s * s \in Nat
    BY Squares
  <2>2. n <= s * s
    BY <1>2, <2>1
  <2> QED
    BY <1>2, <1>7, <2>2, FourthRoot
<1>9. d * d <= 2 * s - 1
  BY <1>8, Squares
<1>10. Factoring!Middle(n) = s /\ Factoring!FindX(s, n) = d
  BY <1>2, <1>3, <1>9, NearMiddle
<1> QED
  BY <1>1, <1>10 DEF n

(* test3: the same for 6 f1 and 4 f2.                                      *)
LEMMA NearRatioFactors ==
  ASSUME FactorTypes, Factoring!NearRatio(f1, f2), 3 * f1 < 2 * f2
  PROVE  LET a == Factoring!Middle(24 * Factoring!N)
             half == Factoring!FindX(a, 24 * Factoring!N)
         IN  (a - half) \div 6 = f1 /\ (a + half) \div 4 = f2
<1> DEFINE s == 3 * f1 + 2 * f2  e == 2 * f2 - 3 * f1  n == 24 * Factoring!N
<1>1. s \in Nat /\ e \in Nat /\ e > 0 /\ f1 \in Nat /\ f2 \in Nat
      /\ s - e = 6 * f1 /\ s + e = 4 * f2
  BY FactorFacts
<1>2. s * s - e * e = 24 * (f1 * f2)
  BY <1>1
<1>3. n \in Nat /\ n = s * s - e * e
  BY <1>2, FactorFacts
<1>4. (e * e) * (e * e) < Factoring!N
  <2>1. Factoring!Abs(3 * f1 - 2 * f2) = e
    BY <1>1 DEF Factoring!Abs
  <2>2. Factoring!Power4(e) < Factoring!N
    BY <2>1 DEF Factoring!NearRatio
  <2>3. Factoring!Power4(e) = (e * e) * (e * e)
    <3> HIDE DEF e
    <3> QED
      BY <1>1 DEF Factoring!Power4
  <2> QED
    BY <2>2, <2>3
<1> HIDE DEF s, e
<1>5. e * e < s
  <2>1. e * e \in Nat /\ s * s \in Nat
    BY <1>1, Squares
  <2>2. Factoring!N \in Nat /\ Factoring!N <= s * s
    BY <1>3, <2>1, FactorFacts DEF n
  <2> QED
    BY <1>1, <1>4, <2>2, FourthRoot
<1>6. e * e <= 2 * s - 1
  BY <1>1, <1>5, Squares
<1> HIDE DEF n
<1>7. Factoring!Middle(n) = s /\ Factoring!FindX(s, n) = e
  BY <1>1, <1>3, <1>6, NearMiddle
<1>8. (s - e) \div 6 = f1 /\ (s + e) \div 4 = f2
  BY <1>1
<1> QED
  BY <1>7, <1>8 DEF n

(* Of two pairs of factors, the nearer one has the smaller middle.         *)
LEMMA NearerPair ==
  ASSUME NEW a \in Nat, NEW b \in Nat, NEW c \in Nat, NEW e \in Nat,
         a * b = c * e, c > 0, c < a, a <= b
  PROVE  a + b < c + e
<1>1. c * (e - b) = b * (a - c)
  BY Squares
<1>2. e > b
  <2> SUFFICES ASSUME e <= b PROVE FALSE
    OBVIOUS
  <2>1. c * e <= c * b /\ c * b < a * b
    BY Squares
  <2> QED
    BY <2>1
<1>3. e - b \in Nat /\ a - c \in Nat /\ a - c > 0 /\ b > c
  BY <1>2
<1> DEFINE u == e - b  v == a - c
<1>4. u \in Nat /\ v \in Nat /\ v > 0 /\ c * u = b * v
  BY <1>1, <1>3
<1> HIDE DEF u, v
<1>5. c * v < b * v
  BY <1>3, <1>4
<1>6. u > v
  <2> SUFFICES ASSUME u <= v PROVE FALSE
    BY <1>4
  <2>1. c * u <= c * v
    BY <1>4
  <2> QED
    BY <1>4, <1>5, <2>1
<1> QED
  BY <1>3, <1>6 DEF u, v
LEMMA OddProduct ==
  ASSUME NEW a \in Nat, NEW b \in Nat
  PROVE  (a * b) % 2 = 1 <=> a % 2 = 1 /\ b % 2 = 1
<1>1. PICK u \in Nat, r \in {0, 1} : a = 2 * u + r
  <2>1. a \div 2 \in Nat /\ a % 2 \in {0, 1} /\ a = 2 * (a \div 2) + (a % 2)
    OBVIOUS
  <2> QED
    BY <2>1
<1>2. PICK v \in Nat, t \in {0, 1} : b = 2 * v + t
  <2>1. b \div 2 \in Nat /\ b % 2 \in {0, 1} /\ b = 2 * (b \div 2) + (b % 2)
    OBVIOUS
  <2> QED
    BY <2>1
<1>3. a * b = 2 * (2 * (u * v) + u * t + v * r) + r * t
  BY <1>1, <1>2
<1>4. 2 * (u * v) + u * t + v * r \in Nat /\ r * t \in {0, 1} /\ u * v \in Nat
  <2>1. u * v \in Nat /\ u * t \in Nat /\ v * r \in Nat /\ r * t \in {0, 1}
    OBVIOUS
  <2> QED
    BY <2>1
<1> DEFINE m == 2 * (u * v) + u * t + v * r
<1> HIDE DEF m
<1>5. a * b = 2 * m + r * t /\ m \in Nat
  BY <1>3, <1>4 DEF m
<1>6. (a * b) % 2 = r * t
  BY <1>4, <1>5
<1>7. a % 2 = r /\ b % 2 = t
  BY <1>1, <1>2
<1> QED
  BY <1>6, <1>7

(* A pair of different factors is found at its middle.                     *)
LEMMA PairIsFound ==
  ASSUME FactorTypes, NEW a \in Nat, NEW b \in Nat,
         a * b = Factoring!N, a < b
  PROVE  \E s \in Nat :
           /\ 2 * s = a + b /\ Factoring!Sqrt(Factoring!N) < s
           /\ (s - Factoring!FindX(s, Factoring!N))
                * (s + Factoring!FindX(s, Factoring!N)) = Factoring!N
<1> DEFINE n == Factoring!N
<1>1. n \in Nat /\ n % 2 = 1
  <2>1. f1 \in Nat /\ f2 \in Nat /\ f1 % 2 = 1 /\ f2 % 2 = 1
        /\ n \in Nat /\ n = f1 * f2
    BY FactorFacts
  <2> HIDE DEF n
  <2>2. (f1 * f2) % 2 = 1
    BY <2>1, OddProduct
  <2> QED
    BY <2>1, <2>2
<1>2. a % 2 = 1 /\ b % 2 = 1
  BY <1>1, OddProduct
<1>3. PICK s \in Nat, d \in Nat :
        /\ a = s - d /\ b = s + d /\ a * b = s * s - d * d
        /\ d <= s /\ (d = 0 <=> a = b) /\ 2 * s = a + b
  BY <1>2, OddPair
<1>4. n = s * s - d * d /\ (s - d) * (s + d) = n
  BY <1>3
<1> HIDE DEF n
<1>5. d > 0 /\ d * d > 0 /\ d * d \in Nat /\ s * s \in Nat
  BY <1>3, Squares
<1>6. n < s * s /\ s * s - n = d * d
  BY <1>1, <1>4, <1>5
<1>7. Factoring!FindX(s, n) = d
  BY <1>6, SqrtOfSquare DEF Factoring!FindX
<1>8. Factoring!Sqrt(n) < s
  <2> DEFINE r == Factoring!Sqrt(n)
  <2>1. r \in 0..n /\ r * r <= n
    BY <1>1, SqrtFloor, Zenon
  <2> HIDE DEF r
  <2>2. r \in Nat /\ r * r < s * s
    BY <1>1, <1>5, <1>6, <2>1, Squares
  <2>3. r < s
    BY <2>2, Roots
  <2> QED
    BY <2>3 DEF r
<1> QED
  BY <1>3, <1>4, <1>7, <1>8 DEF n

LEMMA Test1Keeps ==
  ASSUME FermatInv, Factoring!Test1
  PROVE  FermatInv'
<1> DEFINE n == Factoring!N
           a == Factoring!Middle(n)
           half == Factoring!FindX(a, n)
<1>1. /\ test = "test1" /\ A' = a /\ factor1' = a - half /\ factor2' = a + half
      /\ testStep' = "printed" /\ test' = test /\ f1' = f1 /\ f2' = f2
  BY DEF Factoring!Test1, Factoring!args
<1>2. FactorTypes
  BY DEF FermatInv
<1>3. a \in Nat /\ half \in 0..a
  BY <1>2, FactorFacts, MiddleType
<1>4. Factoring!Near /\ ~Factoring!Square => a - half = f1 /\ a + half = f2
  BY <1>2, NearFactors
<1> HIDE DEF a, half, n
<1>5. Factoring!TypeOK'
  BY <1>1, <1>2, <1>3 DEF Factoring!TypeOK, FactorTypes
<1>6. Factoring!NearIsFound'
  <2>1. Factoring!Near' = Factoring!Near /\ Factoring!Square' = Factoring!Square
    BY <1>1 DEF Factoring!Near, Factoring!Square, Factoring!N
  <2> QED
    BY <1>1, <1>4, <2>1 DEF Factoring!NearIsFound
<1>7. Factoring!NearestIsFound' /\ Factoring!RatioIsFound'
  BY <1>1 DEF Factoring!NearestIsFound, Factoring!RatioIsFound
<1>8. FactorTypes'
  BY <1>1, <1>2 DEF FactorTypes
<1> QED
  BY <1>1, <1>5, <1>6, <1>7, <1>8 DEF FermatInv, FactorsFound

LEMMA Test3Keeps ==
  ASSUME FermatInv, Factoring!Test3
  PROVE  FermatInv'
<1> DEFINE n == 24 * Factoring!N
           a == Factoring!Middle(n)
           half == Factoring!FindX(a, n)
<1>1. /\ test = "test3" /\ A' = a /\ factor1' = (a - half) \div 6
      /\ factor2' = (a + half) \div 4
      /\ testStep' = "printed" /\ test' = test /\ f1' = f1 /\ f2' = f2
  BY DEF Factoring!Test3, Factoring!args
<1>2. FactorTypes
  BY DEF FermatInv
<1>3. a \in Nat /\ half \in 0..a
  <2>1. n \in Nat
    BY <1>2, FactorFacts
  <2> HIDE DEF n
  <2> QED
    BY <2>1, MiddleType
<1>4. Factoring!NearRatio(f1, f2) /\ 3 * f1 < 2 * f2
        => (a - half) \div 6 = f1 /\ (a + half) \div 4 = f2
  BY <1>2, NearRatioFactors
<1> HIDE DEF a, half, n
<1>5. (a - half) \div 6 \in Nat /\ (a + half) \div 4 \in Nat
  BY <1>3
<1>6. Factoring!TypeOK'
  BY <1>1, <1>2, <1>3, <1>5 DEF Factoring!TypeOK, FactorTypes
<1>7. Factoring!RatioIsFound'
  <2>1. Factoring!NearRatio(f1, f2)' = Factoring!NearRatio(f1, f2)
    BY <1>1 DEF Factoring!NearRatio, Factoring!N
  <2> QED
    BY <1>1, <1>4, <2>1 DEF Factoring!RatioIsFound
<1>8. Factoring!NearestIsFound' /\ Factoring!NearIsFound'
  BY <1>1 DEF Factoring!NearestIsFound, Factoring!NearIsFound
<1>9. FactorTypes'
  BY <1>1, <1>2 DEF FactorTypes
<1> QED
  BY <1>1, <1>6, <1>7, <1>8, <1>9 DEF FermatInv, FactorsFound
LEMMA Test2StartKeeps ==
  ASSUME FermatInv, Factoring!Test2Start
  PROVE  FermatInv'
<1> DEFINE n == Factoring!N
           r == Factoring!Sqrt(n)
<1>1. /\ test = "test2" /\ A' = r /\ factor1' = factor1 /\ factor2' = factor2
      /\ testStep' = "search" /\ test' = test /\ f1' = f1 /\ f2' = f2
  BY DEF Factoring!Test2Start, Factoring!args
<1>2. FactorTypes /\ factor1 \in Nat /\ factor2 \in Nat
  BY DEF FermatInv, FactorsFound, Factoring!TypeOK
<1>3. n \in Nat
  BY <1>2, FactorFacts
<1>4. r \in 0..n /\ r * r <= n
  BY <1>3, SqrtFloor, Zenon
<1>5. Factoring!N' = n
  BY <1>1 DEF Factoring!N
<1>6. f1 \in Nat /\ f2 \in Nat /\ f1 <= f2 /\ n = f1 * f2
  BY <1>2, FactorFacts
<1>7. NoneUpTo(A)'
  <2>1. NoneUpTo(A)' <=> \A k \in r + 1..A' :
           (k - Factoring!FindX(k, n)) * (k + Factoring!FindX(k, n)) # n
    BY <1>5 DEF NoneUpTo, Factoring!FindX
  <2> HIDE DEF r
  <2>2. \A k \in r + 1..r : FALSE
    BY <1>4
  <2> QED
    BY <1>1, <2>1, <2>2
<1>8. A' >= Factoring!Sqrt(Factoring!N)'
  <2>1. Factoring!Sqrt(Factoring!N)' = r
    BY <1>5 DEF Factoring!Sqrt
  <2> HIDE DEF r
  <2> QED
    BY <1>1, <1>4, <2>1
<1>9. ~Factoring!Square => 2 * r <= f1 + f2
  <2> SUFFICES ASSUME f1 # f2 PROVE 2 * r <= f1 + f2
    BY DEF Factoring!Square
  <2>1. f1 < f2
    BY <1>6
  <2>2. PICK s \in Nat : 2 * s = f1 + f2 /\ r < s
    BY <1>2, <1>6, <2>1, PairIsFound
  <2> HIDE DEF r
  <2> QED
    BY <1>4, <2>2
<1> HIDE DEF r, n
<1>10. Factoring!TypeOK'
  <2>1. Factoring!Square' = Factoring!Square
    BY <1>1 DEF Factoring!Square
  <2> QED
    BY <1>1, <1>2, <1>4, <1>6, <1>9, <2>1 DEF Factoring!TypeOK, FactorTypes
<1>11. Factoring!NearIsFound' /\ Factoring!NearestIsFound' /\ Factoring!RatioIsFound'
  BY <1>1 DEF Factoring!NearIsFound, Factoring!NearestIsFound, Factoring!RatioIsFound
<1>12. FactorTypes'
  BY <1>1, <1>2 DEF FactorTypes
<1> QED
  BY <1>1, <1>7, <1>8, <1>10, <1>11, <1>12 DEF FermatInv, FactorsFound

(* What test2 prints is its first hit, so no nearer pair was passed over.  *)
LEMMA NoNearer ==
  ASSUME FactorTypes, NEW m \in Nat, NoneUpTo(m),
         NEW c \in Nat, NEW e \in Nat, c * e = Factoring!N, c + e = 2 * (m + 1),
         NEW a \in c + 1..Factoring!Sqrt(Factoring!N), Factoring!N % a = 0
  PROVE  a * a = Factoring!N
<1> DEFINE n == Factoring!N
           r == Factoring!Sqrt(n)
           b == n \div a
<1>1. n \in Nat /\ n > 0
  BY FactorFacts
<1>2. r \in 0..n /\ r * r <= n
  BY <1>1, SqrtFloor, Zenon
<1>3. a \in Nat /\ a > c /\ a <= r
  <2> HIDE DEF r
  <2> QED
    BY <1>2 DEF r
<1>4. a * a <= n
  <2> HIDE DEF r, n
  <2>1. r \in Nat
    BY <1>1, <1>2
  <2>2. a * a <= r * r /\ a * a \in Nat /\ r * r \in Nat
    BY <1>3, <2>1, Squares
  <2> QED
    BY <1>1, <1>2, <2>2
<1>5. b \in Nat /\ a * b = n
  <2> HIDE DEF n
  <2>1. n = a * (n \div a) + (n % a) /\ n \div a \in Nat
    BY <1>1, <1>3, DivMod
  <2>2. n % a = 0
    BY DEF n
  <2> QED
    BY <2>1, <2>2, <1>1, <1>3
<1> HIDE DEF b
<1> SUFFICES ASSUME a * a # n PROVE FALSE
  OBVIOUS
<1>6. a < b
  <2> HIDE DEF n
  <2> SUFFICES ASSUME b <= a PROVE FALSE
    BY <1>3, <1>5
  <2>1. a * b <= a * a
    BY <1>3, <1>5
  <2> QED
    BY <1>1, <1>4, <1>5, <2>1, <1>3, Squares
<1>7. c > 0
  BY <1>1
<1>8. a + b < c + e
  <2>1. a * b = c * e
    BY <1>5
  <2> QED
    BY <1>3, <1>5, <1>6, <1>7, <2>1, NearerPair
<1>9. PICK s \in Nat :
        /\ 2 * s = a + b /\ r < s
        /\ (s - Factoring!FindX(s, n)) * (s + Factoring!FindX(s, n)) = n
  BY <1>3, <1>5, <1>6, PairIsFound
<1>10. s \in r + 1..m
  <2> HIDE DEF r, n
  <2> QED
    BY <1>1, <1>2, <1>8, <1>9
<1> QED
  BY <1>9, <1>10 DEF NoneUpTo
LEMMA Test2TurnKeeps ==
  ASSUME FermatInv, Factoring!Test2Turn
  PROVE  FermatInv'
<1> DEFINE n == Factoring!N
           r == Factoring!Sqrt(n)
           a == A + 1
           half == Factoring!FindX(a, n)
<1>1. /\ testStep = "search" /\ A' = a /\ factor1' = a - half /\ factor2' = a + half
      /\ testStep' = IF (a - half) * (a + half) = n THEN "printed" ELSE "search"
      /\ test' = test /\ f1' = f1 /\ f2' = f2
  BY DEF Factoring!Test2Turn, Factoring!args, Factoring!N, Factoring!FindX
<1>2. /\ FactorTypes /\ test = "test2" /\ A >= r /\ NoneUpTo(A) /\ A \in Nat
      /\ 2 * A <= f1 + f2 \/ Factoring!Square
  BY <1>1 DEF FermatInv, FactorsFound, Factoring!TypeOK
<1>3. /\ n \in Nat /\ n > 0 /\ n = f1 * f2 /\ f1 \in Nat /\ f2 \in Nat /\ f1 <= f2
  BY <1>2, FactorFacts
<1>4. r \in 0..n /\ r * r <= n /\ n < (r + 1) * (r + 1)
  BY <1>3, SqrtFloor, Zenon
<1>5. a \in Nat /\ half \in 0..a
  <2> HIDE DEF n, r
  <2>1. a \in Nat /\ r + 1 \in Nat /\ r + 1 <= a
    BY <1>2, <1>4
  <2>2. (r + 1) * (r + 1) <= a * a /\ a * a \in Nat /\ (r + 1) * (r + 1) \in Nat
    BY <2>1, Squares
  <2>3. n <= a * a
    BY <1>3, <1>4, <2>2
  <2> HIDE DEF a
  <2> QED
    BY <1>3, <2>1, <2>3, FindXType
<1>6. Factoring!N' = n /\ Factoring!Sqrt(Factoring!N)' = r
      /\ Factoring!Square' = Factoring!Square
  BY <1>1 DEF Factoring!N, Factoring!Sqrt, Factoring!Square
<1>7. ~Factoring!Square /\ (a - half) * (a + half) # n => 2 * a <= f1 + f2
  <2> SUFFICES ASSUME f1 # f2, (a - half) * (a + half) # n PROVE 2 * a <= f1 + f2
    BY DEF Factoring!Square
  <2>1. PICK s \in Nat :
          /\ 2 * s = f1 + f2 /\ r < s
          /\ (s - Factoring!FindX(s, n)) * (s + Factoring!FindX(s, n)) = n
    <3>1. f1 < f2
      BY <1>3
    <3> QED
      BY <1>2, <1>3, <3>1, PairIsFound
  <2>2. s \notin r + 1..A
    BY <1>2, <2>1 DEF NoneUpTo
  <2> HIDE DEF r, n, half
  <2>3. 2 * A <= f1 + f2
    BY <1>2, <2>1 DEF Factoring!Square
  <2>4. A < s
    BY <1>2, <1>4, <1>3, <2>1, <2>2, <2>3
  <2> QED
    BY <1>2, <2>1, <2>4
<1>8. Factoring!TypeOK'
  <2> HIDE DEF n, r, a, half
  <2>1. /\ f1' \in Factoring!Odd' /\ f2' \in Factoring!Odd'
        /\ Factoring!Odd' = Factoring!Odd
    BY <1>1, <1>2 DEF FactorTypes, Factoring!Odd
  <2>2. A' \in Nat /\ factor1' \in Nat /\ factor2' \in Nat
    BY <1>1, <1>5
  <2>3. testStep' = "search" => 2 * A' <= f1' + f2' \/ Factoring!Square'
    BY <1>1, <1>6, <1>7
  <2> QED
    BY <1>1, <2>1, <2>2, <2>3 DEF Factoring!TypeOK
<1>9. (a - half) * (a + half) # n => NoneUpTo(A)'
  <2> SUFFICES ASSUME (a - half) * (a + half) # n PROVE NoneUpTo(A)'
    OBVIOUS
  <2>1. NoneUpTo(A)' <=> \A k \in r + 1..A' :
           (k - Factoring!FindX(k, n)) * (k + Factoring!FindX(k, n)) # n
    BY <1>6 DEF NoneUpTo, Factoring!FindX, Factoring!Sqrt
  <2>2. ASSUME NEW k \in r + 1..a
        PROVE  (k - Factoring!FindX(k, n)) * (k + Factoring!FindX(k, n)) # n
    <3>1. CASE k = a
      BY <3>1
    <3>2. CASE k # a
      <4>1. k \in r + 1..A
        <5> HIDE DEF r, n
        <5> QED
          BY <1>2, <1>3, <1>4, <2>2, <3>2
      <4> QED
        BY <1>2, <4>1 DEF NoneUpTo
    <3> QED
      BY <3>1, <3>2
  <2> HIDE DEF r, a, n
  <2> QED
    BY <1>1, <2>1, <2>2
<1>10. Factoring!NearestIsFound'
  <2> SUFFICES ASSUME (a - half) * (a + half) = n
               PROVE  \A k \in (a - half) + 1..r : n % k = 0 => k * k = n
    <3>1. Factoring!NearestIsFound' <=>
            (test' = "test2" /\ testStep' = "printed" =>
               /\ factor1' * factor2' = n
               /\ \A k \in factor1' + 1..r : n % k = 0 => k * k = n)
      BY <1>6 DEF Factoring!NearestIsFound
    <3> HIDE DEF a, half, n, r
    <3> QED
      BY <1>1, <3>1
  <2>1. a - half \in Nat /\ a + half \in Nat /\ (a - half) + (a + half) = 2 * (A + 1)
    <3> HIDE DEF half
    <3> QED
      BY <1>2, <1>5
  <2> DEFINE c == a - half  e == a + half
  <2>2. c \in Nat /\ e \in Nat /\ c + e = 2 * (A + 1) /\ c * e = Factoring!N
    BY <2>1
  <2> HIDE DEF c, e
  <2>3. \A k \in c + 1..r : n % k = 0 => k * k = n
    BY <1>2, <2>2, NoNearer
  <2> QED
    BY <2>3 DEF c
<1>11. Factoring!NearIsFound' /\ Factoring!RatioIsFound'
  BY <1>1, <1>2 DEF Factoring!NearIsFound, Factoring!RatioIsFound
<1>12. FactorTypes'
  BY <1>1, <1>2 DEF FactorTypes
<1> HIDE DEF n, r, a, half
<1>13. testStep' = "search" =>
         A' >= Factoring!Sqrt(Factoring!N)' /\ NoneUpTo(A)'
  <2>1. a >= r
    BY <1>2, <1>3, <1>4 DEF a
  <2> QED
    BY <1>1, <1>6, <1>9, <2>1
<1> QED
  BY <1>1, <1>2, <1>8, <1>10, <1>11, <1>12, <1>13 DEF FermatInv, FactorsFound

(* For every odd number of two factors: test1 and test3 find factors that  *)
(* are near, or near the ratio 2 : 3, as the README of primes has it, and  *)
(* what test2 prints are the nearest factors there are.                    *)
THEOREM FactorsOfOdd == SpecAny => []FactorsFound
<1>1. InitAny => FermatInv
  <2> SUFFICES ASSUME Factoring!Init PROVE FermatInv
    BY DEF InitAny, FermatIdle
  <2>1. FactorTypes
    BY DEF Factoring!Init, FactorTypes
  <2> QED
    BY <2>1 DEF Factoring!Init, FermatInv, FactorsFound, FactorTypes,
       Factoring!TypeOK, Factoring!NearIsFound, Factoring!NearestIsFound,
       Factoring!RatioIsFound
<1>2. FermatInv /\ [NextAny]_all => FermatInv'
  <2> SUFFICES ASSUME FermatInv, [NextAny]_all PROVE FermatInv'
    OBVIOUS
  <2>1. CASE Factoring!Next
    BY <2>1, Test1Keeps, Test2StartKeeps, Test2TurnKeeps, Test3Keeps
       DEF Factoring!Next
  <2>2. CASE UNCHANGED fermatVars
    BY <2>2, ZenonT(60)
       DEF fermatVars, FermatInv, FactorTypes, NoneUpTo, FactorsFound,
           Factoring!TypeOK, Factoring!NearIsFound, Factoring!NearestIsFound,
           Factoring!RatioIsFound, Factoring!Near, Factoring!NearRatio,
           Factoring!Square, Factoring!N, Factoring!FindX
  <2> QED
    BY <2>1, <2>2 DEF NextAny, all
<1>3. FermatInv => FactorsFound
  BY DEF FermatInv
<1> QED
  BY <1>1, <1>2, <1>3, PTL DEF SpecAny

(***************************************************************************)
(* Logarithms: products of residues.                                       *)
(***************************************************************************)
LEMMA ModOfProduct ==
  ASSUME NEW a \in Nat, NEW b \in Nat, NEW c \in Nat \ {0}
  PROVE  /\ a * b \in Nat /\ (a * b) % c \in 0..c - 1 /\ a * b = b * a
         /\ ((a % c) * b) % c = (a * b) % c
         /\ (a * (b % c)) % c = (a * b) % c
<1>1. ASSUME NEW m \in Nat, NEW n \in Nat
      PROVE  m * n \in Nat /\ (m * n) % c \in 0..c - 1 /\ ((m % c) * n) % c = (m * n) % c
  <2> DEFINE q == m \div c  r == m % c  t == (r * n) \div c  u == (r * n) % c
  <2>1. q \in Nat /\ r \in Nat /\ m = c * q + r
    BY DivMod
  <2>2. m * n \in Nat /\ r * n \in Nat
    BY <2>1
  <2>3. t \in Nat /\ u \in Nat /\ u < c /\ r * n = c * t + u
    BY <2>2, DivMod
  <2> HIDE DEF q, r, t, u
  <2>4. m * n = c * (q * n + t) + u
    <3>1. (c * q + r) * n = c * (q * n) + r * n
      BY <2>1
    <3>2. q * n \in Nat /\ c * (q * n + t) = c * (q * n) + c * t
      BY <2>1, <2>3
    <3>3. c * t \in Nat /\ c * (q * n) \in Nat
      BY <2>1, <2>3, <3>2
    <3> QED
      BY <2>1, <2>2, <2>3, <3>1, <3>2, <3>3
  <2>5. q * n + t \in Int
    BY <2>1, <2>3
  <2>6. (m * n) % c = u
    BY <2>2, <2>3, <2>4, <2>5, DivUnique
  <2> QED
    BY <2>2, <2>3, <2>6 DEF u, r
<1>2. a * b = b * a
  OBVIOUS
<1>3. b % c \in Nat
  BY DivMod
<1>4. a * (b % c) = (b % c) * a
  BY <1>3
<1> QED
  BY <1>1, <1>2, <1>4

LEMMA ModLeft ==
  ASSUME NEW a \in Nat, NEW b \in Nat, NEW c \in Nat \ {0}
  PROVE  ((a % c) * b) % c = (a * b) % c
BY ModOfProduct

LEMMA ModRight ==
  ASSUME NEW a \in Nat, NEW b \in Nat, NEW c \in Nat \ {0}
  PROVE  (a * (b % c)) % c = (a * b) % c
BY ModOfProduct

LEMMA ModSmall ==
  ASSUME NEW c \in Nat \ {0}, NEW a \in 0..c - 1
  PROVE  a % c = a
OBVIOUS

LEMMA RemainderInProduct ==
  \A a, b \in Nat : \A c \in Nat \ {0} : (a * (b % c)) % c = (a * b) % c
BY ModOfProduct

(* A prime leaves every smaller number an inverse: the least positive      *)
(* remainder of the multiples of b divides c.                              *)
LEMMA InverseExists ==
  ASSUME NEW c, Dlog!IsPrime(c), NEW b \in 1..c - 1
  PROVE  \E e \in 1..c - 1 : (b * e) % c = 1
<1>1. c \in Nat \ {0} /\ c > 1 /\ b \in Nat /\ \A d \in 2..c - 1 : c % d # 0
  BY DEF Dlog!IsPrime
<1> DEFINE T == {d \in 1..c - 1 : \E e \in Nat : (b * e) % c = d}
<1>2. b \in T
  <2>1. b * 1 = b /\ b % c = b
    BY <1>1, ModSmall
  <2> QED
    BY <2>1
<1>3. T \in SUBSET Nat
  BY <1>1
<1>4. PICK d \in T : \A m \in T : d <= m
  <2> HIDE DEF T
  <2> QED
    BY <1>2, <1>3, SmallestElement
<1>5. PICK e \in Nat : (b * e) % c = d
  BY <1>4
<1>6. d \in Nat \ {0} /\ d < c
  BY <1>1, <1>4
<1> DEFINE q == c \div d  r == c % d
<1>7. q \in Nat /\ r \in Nat /\ r < d /\ c = d * q + r
  BY <1>1, <1>6, DivMod
<1> HIDE DEF q, r
<1>8. r = 0
  <2> SUFFICES ASSUME r # 0 PROVE FALSE
    OBVIOUS
  <2> DEFINE j == (c - 1) * q * e  t == (b * e) \div c
  <2>1. t \in Nat /\ b * e = c * t + d
    <3>1. b * e \in Nat
      BY <1>1
    <3> QED
      BY <1>1, <1>5, <3>1, DivMod
  <2>2. j \in Nat
    BY <1>1, <1>7
  <2>3. b * j = (c - 1) * (q * (b * e))
    BY <1>1, <1>7
  <2> HIDE DEF j, t
  <2>4. q * (b * e) = c * (q * t) + d * q
    BY <1>1, <1>6, <1>7, <2>1
  <2>5. q * t \in Nat /\ d * q = c - r
    BY <1>1, <1>6, <1>7, <2>1
  <2>6. q * (b * e) = c * (q * t + 1) - r
    <3>1. c * (q * t + 1) = c * (q * t) + c /\ c * (q * t) \in Nat
      BY <1>1, <2>5
    <3> QED
      BY <1>1, <1>7, <2>4, <2>5, <3>1
  <2> DEFINE k == q * t + 1
  <2>7. k \in Nat
    BY <2>5
  <2>8. q * (b * e) = c * k - r
    BY <2>6
  <2> HIDE DEF k
  <2>9. (c - 1) * (c * k - r) = c * ((c - 1) * k - r) + r
    BY <1>1, <1>7, <2>7
  <2>10. b * j = c * ((c - 1) * k - r) + r
    BY <2>3, <2>8, <2>9
  <2>11. (c - 1) * k - r \in Int
    BY <1>1, <1>7, <2>7
  <2>12. b * j \in Nat /\ r < c
    BY <1>1, <1>6, <1>7, <2>2
  <2>13. (b * j) % c = r
    <3> DEFINE m == b * j  n == (c - 1) * k - r
    <3>1. m \in Nat /\ n \in Int /\ m = c * n + r
      BY <2>10, <2>11, <2>12
    <3> HIDE DEF m, n
    <3>2. m % c = r
      BY <1>1, <1>7, <2>12, <3>1, DivUnique
    <3> QED
      BY <3>2 DEF m
  <2>14. r \in T
    <3>1. r \in 1..c - 1
      BY <1>1, <1>7, <2>12
    <3> QED
      BY <2>2, <2>13, <3>1
  <2> HIDE DEF T
  <2> QED
    BY <1>4, <1>6, <1>7, <2>14
<1>9. d = 1
  <2>1. d # 1 => d \in 2..c - 1
    BY <1>1, <1>6
  <2>2. c % d = 0
    BY <1>8 DEF r
  <2> QED
    BY <1>1, <2>1, <2>2
<1>10. (b * (e % c)) % c = 1 /\ e % c \in 0..c - 1
  <2>1. (b * (e % c)) % c = (b * e) % c
    BY <1>1, RemainderInProduct
  <2>2. (b * e) % c = 1
    BY <1>5, <1>9
  <2>3. e % c \in 0..c - 1
    BY <1>1, <1>5, DivMod
  <2> QED
    BY <2>1, <2>2, <2>3
<1>11. e % c # 0
  <2>1. (b * 0) % c = 0
    BY <1>1
  <2> QED
    BY <1>10, <2>1
<1> QED
  BY <1>10, <1>11

(***************************************************************************)
(* Logarithms: powers.                                                     *)
(***************************************************************************)

(* Power of DiscreteLog with the modulus as a parameter.                   *)
Raised(c, b, e) ==
  LET pow[k \in 0..e] == IF k = 0 THEN 1 % c ELSE (pow[k - 1] * b) % c
  IN  pow[e]

LEMMA PowerIs == \A b, e : Dlog!Power(b, e) = Raised(p, b, e)
BY Zenon DEF Dlog!Power, Raised

LEMMA RaisedBy ==
  ASSUME NEW c \in Nat \ {0}, NEW b \in Nat
  PROVE  /\ Raised(c, b, 0) = 1 % c
         /\ \A e \in Nat : /\ Raised(c, b, e) \in 0..c - 1
                          /\ Raised(c, b, e + 1) = (Raised(c, b, e) * b) % c
<1> DEFINE next(f, k) == IF k = 0 THEN 1 % c ELSE (f[k - 1] * b) % c
           IsPow(f, e) == f = [k \in 0..e |-> next(f, k)]
<1>1. \A e : Raised(c, b, e) = (CHOOSE f : IsPow(f, e))[e]
  BY Zenon DEF Raised
<1> DEFINE S == {e \in Nat : \E f : IsPow(f, e)}
<1>2. 0 \in S
  <2> DEFINE f == [k \in 0..0 |-> 1 % c]
  <2>1. f = [k \in 0..0 |-> next(f, k)]
    OBVIOUS
  <2> QED
    BY <2>1
<1>3. ASSUME NEW e \in Nat, NEW f, IsPow(f, e)
      PROVE  \E g0 : IsPow(g0, e + 1)
  <2> DEFINE longer == [k \in 0..e + 1 |-> IF k <= e THEN f[k] ELSE (f[e] * b) % c]
  <2>1. ASSUME NEW k \in 0..e + 1
        PROVE  longer[k] = next(longer, k)
    <3>1. CASE k <= e
      <4>1. longer[k] = f[k] /\ (k # 0 => longer[k - 1] = f[k - 1]) /\ k \in 0..e
        BY <3>1
      <4> HIDE DEF longer
      <4> QED
        BY <1>3, <4>1
    <3>2. CASE k = e + 1
      <4>1. longer[k] = (f[e] * b) % c /\ longer[k - 1] = f[e] /\ k # 0
        BY <3>2
      <4> HIDE DEF longer
      <4> QED
        BY <4>1
    <3> QED
      BY <3>1, <3>2
  <2>2. longer = [k \in 0..e + 1 |-> longer[k]]
    OBVIOUS
  <2> HIDE DEF longer, next
  <2>3. IsPow(longer, e + 1)
    BY <2>1, <2>2
  <2> QED
    BY <2>3
<1>4. ASSUME NEW e \in Nat
      PROVE  \E f : IsPow(f, e)
  <2>1. Nat \subseteq S
    <3>1. \A m \in Nat : m \in S => m + 1 \in S
      <4> HIDE DEF IsPow
      <4> QED
        BY <1>3
    <3> HIDE DEF S
    <3> QED
      BY <1>2, <3>1, Induct
  <2> QED
    BY <2>1
<1> DEFINE F(e) == CHOOSE f : IsPow(f, e)
<1>5. \A e \in Nat : IsPow(F(e), e) /\ Raised(c, b, e) = F(e)[e]
  <2> HIDE DEF IsPow
  <2> QED
    BY <1>1, <1>4, Zenon
<1> HIDE DEF F
<1>6. \A e \in Nat : \A k \in 0..e : F(e)[k] = next(F(e), k)
  BY <1>5
<1>7. ASSUME NEW e \in Nat, NEW d \in Nat, e <= d
      PROVE  \A k \in Nat : k <= e => F(e)[k] = F(d)[k]
  <2> DEFINE U == {k \in Nat : k <= e => F(e)[k] = F(d)[k]}
  <2>1. 0 \in U
    BY <1>6, <1>7
  <2>2. ASSUME NEW k \in Nat, k \in U PROVE k + 1 \in U
    <3>1. CASE k + 1 <= e
      <4>1. k + 1 \in 0..e /\ k + 1 \in 0..d /\ k + 1 - 1 = k /\ k + 1 # 0
        BY <1>7, <3>1
      <4>2. F(e)[k + 1] = (F(e)[k] * b) % c /\ F(d)[k + 1] = (F(d)[k] * b) % c
        BY <1>6, <4>1
      <4>3. F(e)[k] = F(d)[k]
        BY <2>2, <3>1
      <4> QED
        BY <4>2, <4>3
    <3>2. CASE ~ (k + 1 <= e)
      BY <3>2
    <3> QED
      BY <3>1, <3>2
  <2> HIDE DEF U
  <2>3. Nat \subseteq U
    BY <2>1, <2>2, Induct
  <2> QED
    BY <2>3 DEF U
<1>8. Raised(c, b, 0) = 1 % c
  BY <1>5, <1>6
<1>9. ASSUME NEW e \in Nat
      PROVE  Raised(c, b, e + 1) = (Raised(c, b, e) * b) % c
  <2>1. e + 1 \in 0..e + 1 /\ e + 1 # 0 /\ e + 1 - 1 = e /\ e + 1 \in Nat
    OBVIOUS
  <2>2. F(e + 1)[e + 1] = (F(e + 1)[e] * b) % c
    BY <1>6, <2>1
  <2>3. F(e)[e] = F(e + 1)[e]
    BY <1>7, <2>1
  <2> QED
    BY <1>5, <2>1, <2>2, <2>3
<1>10. \A e \in Nat : Raised(c, b, e) \in 0..c - 1
  <2> DEFINE V == {e \in Nat : Raised(c, b, e) \in 0..c - 1}
  <2>1. 0 \in V
    BY <1>8
  <2>2. ASSUME NEW e \in Nat, e \in V PROVE e + 1 \in V
    <3>1. Raised(c, b, e) \in Nat
      BY <2>2
    <3> QED
      BY <1>9, <3>1, ModOfProduct
  <2> HIDE DEF V
  <2>3. Nat \subseteq V
    BY <2>1, <2>2, Induct
  <2> QED
    BY <2>3 DEF V
<1> QED
  BY <1>8, <1>9, <1>10

LEMMA ModTriple ==
  ASSUME NEW a \in Nat, NEW b \in Nat, NEW d \in Nat, NEW c \in Nat \ {0}
  PROVE  (((a * b) % c) * d) % c = (a * ((b * d) % c)) % c
<1> DEFINE m == a * b  n == b * d
<1>1. m \in Nat /\ n \in Nat
  BY ModOfProduct
<1>2. m * d = a * n
  OBVIOUS
<1> HIDE DEF m, n
<1>3. ((m % c) * d) % c = (m * d) % c
  BY <1>1, ModLeft
<1>4. (a * (n % c)) % c = (a * n) % c
  BY <1>1, ModRight
<1> QED
  BY <1>2, <1>3, <1>4, Zenon DEF m, n

LEMMA PowerOfSum ==
  ASSUME NEW c \in Nat \ {0}, NEW b \in Nat, NEW m \in Nat, NEW n \in Nat
  PROVE  Raised(c, b, m + n) = (Raised(c, b, m) * Raised(c, b, n)) % c
<1> DEFINE R(e) == Raised(c, b, e)
           S == {e \in Nat : R(m + e) = (R(m) * R(e)) % c}
<1>1. \A e \in Nat : R(e) \in 0..c - 1 /\ R(e) \in Nat /\ R(e + 1) = (R(e) * b) % c
  BY RaisedBy
<1>2. R(0) = 1 % c
  BY RaisedBy
<1> HIDE DEF R
<1>3. 0 \in S
  <2>1. (R(m) * (1 % c)) % c = (R(m) * 1) % c
    BY <1>1, ModOfProduct
  <2>2. R(m) % c = R(m)
    BY <1>1, ModSmall
  <2>3. R(m) * 1 = R(m) /\ m + 0 = m
    BY <1>1
  <2> QED
    BY <1>2, <2>1, <2>2, <2>3
<1>4. ASSUME NEW e \in Nat, e \in S PROVE e + 1 \in S
  <2>1. m + (e + 1) = (m + e) + 1 /\ m + e \in Nat
    OBVIOUS
  <2>2. R((m + e) + 1) = (((R(m) * R(e)) % c) * b) % c
    BY <1>1, <1>4, <2>1
  <2>3. (((R(m) * R(e)) % c) * b) % c = (R(m) * ((R(e) * b) % c)) % c
    BY <1>1, ModTriple
  <2> QED
    BY <1>1, <2>1, <2>2, <2>3
<1> HIDE DEF S
<1>5. Nat \subseteq S
  BY <1>3, <1>4, Induct
<1> QED
  BY <1>5 DEF S, R

(* The powers of an inverse are the inverses of the powers.                *)
LEMMA PowerOfInverse ==
  ASSUME NEW c \in Nat \ {0}, NEW b \in Nat, NEW i0 \in Nat, (b * i0) % c = 1,
         NEW e \in Nat, c > 1
  PROVE  (Raised(c, b, e) * Raised(c, i0, e)) % c = 1
<1> DEFINE R(k) == Raised(c, b, k)
           Q(k) == Raised(c, i0, k)
           S == {k \in Nat : (R(k) * Q(k)) % c = 1}
<1>1. \A k \in Nat : /\ R(k) \in Nat /\ R(k + 1) = (R(k) * b) % c
                    /\ Q(k) \in Nat /\ Q(k + 1) = (Q(k) * i0) % c
  <2>1. \A k \in Nat : R(k) \in 0..c - 1 /\ R(k + 1) = (R(k) * b) % c
    BY RaisedBy
  <2>2. \A k \in Nat : Q(k) \in 0..c - 1 /\ Q(k + 1) = (Q(k) * i0) % c
    BY RaisedBy
  <2> HIDE DEF R, Q
  <2> QED
    BY <2>1, <2>2
<1>2. R(0) = 1 % c /\ Q(0) = 1 % c /\ 1 % c = 1
  BY RaisedBy, ModSmall
<1> HIDE DEF R, Q
<1>3. 0 \in S
  BY <1>2
<1>4. ASSUME NEW k \in Nat, k \in S PROVE k + 1 \in S
  <2> DEFINE r == R(k)  q == Q(k)
  <2>1. r \in Nat /\ q \in Nat /\ (r * q) % c = 1
    BY <1>1, <1>4
  <2> HIDE DEF r, q
  <2>2. r * b \in Nat /\ q * i0 \in Nat /\ r * q \in Nat /\ b * i0 \in Nat
        /\ (q * i0) % c \in Nat
    BY <2>1, ModOfProduct
  <2>3. (((r * b) % c) * ((q * i0) % c)) % c = ((r * b) * (q * i0)) % c
    BY <2>2, ModOfProduct
  <2>4. (r * b) * (q * i0) = (r * q) * (b * i0)
    BY <2>1
  <2>5. ((r * q) * (b * i0)) % c = ((r * q) * 1) % c
    <3> DEFINE m == r * q  n == b * i0
    <3>1. m \in Nat /\ n \in Nat /\ n % c = 1
      BY <2>2
    <3> HIDE DEF m, n
    <3>2. (m * (n % c)) % c = (m * n) % c
      BY <3>1, RemainderInProduct, Zenon
    <3> QED
      BY <3>1, <3>2 DEF m, n
  <2>6. ((r * q) * 1) % c = 1
    BY <2>1, <2>2
  <2>7. (R(k + 1) * Q(k + 1)) % c = 1
    BY <1>1, <2>3, <2>4, <2>5, <2>6 DEF r, q
  <2> QED
    BY <2>7
<1> HIDE DEF S
<1>5. Nat \subseteq S
  BY <1>3, <1>4, Induct
<1> QED
  BY <1>5 DEF S, R, Q

(***************************************************************************)
(* Logarithms: the two programs.                                           *)
(***************************************************************************)
LogarithmArgs ==
  /\ search \in {"go1", "go2"}
  /\ p \in Primes /\ g \in 1..p - 1 /\ B \in Bs /\ x \in 1..B * B
  /\ h = Raised(p, g, x)

LEMMA ArgFacts ==
  ASSUME LogarithmArgs
  PROVE  /\ p \in Nat \ {0} /\ p > 1 /\ g \in Nat /\ B \in Nat \ {0} /\ x \in Nat
         /\ x > 0 /\ x <= B * B /\ h \in 0..p - 1
         /\ \A b \in 1..p - 1 : /\ Dlog!ModInverse(b) \in 1..p - 1
                               /\ (b * Dlog!ModInverse(b)) % p = 1
<1>1. Dlog!IsPrime(p)
  BY LogarithmAssumption DEF LogarithmArgs
<1>2. p \in Nat \ {0} /\ p > 1
  BY <1>1 DEF Dlog!IsPrime
<1>3. B \in Nat \ {0}
  BY LogarithmAssumption DEF LogarithmArgs
<1>4. g \in Nat /\ x \in Nat /\ x > 0 /\ x <= B * B
  BY <1>2, <1>3 DEF LogarithmArgs
<1>5. h \in 0..p - 1
  BY <1>2, <1>4, RaisedBy DEF LogarithmArgs
<1>6. ASSUME NEW b \in 1..p - 1
      PROVE  /\ Dlog!ModInverse(b) \in 1..p - 1
             /\ (b * Dlog!ModInverse(b)) % p = 1
  BY <1>1, InverseExists, Zenon DEF Dlog!ModInverse
<1> QED
  BY <1>2, <1>3, <1>4, <1>5, <1>6

(* An entry of the table is h times an inverse of a power of g, in both    *)
(* programs.                                                               *)
LEMMA LeftIs ==
  ASSUME LogarithmArgs, x1 \in Nat
  PROVE  \E u \in Nat : /\ (Raised(p, g, x1 + 1) * u) % p = 1
                       /\ Dlog!Left = (h * u) % p
<1> DEFINE r == Raised(p, g, x1 + 1)
           j == Dlog!ModInverse(g)
           v == Raised(p, j, x1 + 1)
<1>1. p \in Nat \ {0} /\ p > 1 /\ g \in Nat /\ g \in 1..p - 1 /\ h \in Nat
  BY ArgFacts DEF LogarithmArgs
<1>2. x1 + 1 \in Nat
  OBVIOUS
<1>3. j \in Nat /\ (g * j) % p = 1
  BY <1>1, ArgFacts
<1> HIDE DEF j
<1>4. r \in 0..p - 1 /\ v \in 0..p - 1 /\ (r * v) % p = 1
  BY <1>1, <1>2, <1>3, RaisedBy, PowerOfInverse
<1> HIDE DEF r, v
<1>5. CASE search = "go1"
  <2>1. r # 0
    <3>1. v \in Nat /\ 0 * v = 0 /\ 0 % p = 0
      BY <1>1, <1>4
    <3> QED
      BY <1>4, <3>1
  <2>2. r \in 1..p - 1
    BY <1>1, <1>4, <2>1
  <2> DEFINE u == Dlog!ModInverse(r)
  <2>3. u \in 1..p - 1 /\ (r * u) % p = 1
    BY <2>2, ArgFacts
  <2>4. u \in Nat
    BY <1>1, <2>3
  <2>5. Dlog!Left = (h * u) % p
    BY <1>5, PowerIs DEF Dlog!Left, r
  <2> HIDE DEF u
  <2> QED
    BY <2>3, <2>4, <2>5 DEF r
<1>6. CASE search # "go1"
  <2>1. Dlog!Left = (v * h) % p
    BY <1>6, PowerIs DEF Dlog!Left, v, j
  <2>2. v \in Nat /\ v * h = h * v
    BY <1>1, <1>4
  <2> QED
    BY <1>4, <2>1, <2>2 DEF r
<1> QED
  BY <1>5, <1>6

(* An entry times the power it is stored with is h; every exponent of the  *)
(* table has met what is left of x; no power tried so far is in it.        *)
LogarithmInv ==
  /\ LogarithmArgs
  /\ Dlog!TypeOK
  /\ searchStep # "left" => x1 = B + 1
  /\ \A r \in 0..p - 1 : lookup[r] # 0 => (r * Raised(p, g, lookup[r])) % p = h
  /\ \A k \in 1..x1 : k <= x => lookup[Raised(p, g, x - k)] # 0
  /\ searchStep = "left" => x0 = 2
  /\ searchStep \in {"right", "panic"} =>
       \A m \in 3..x0 : lookup[Raised(p, g, m * B)] = 0
  /\ searchStep = "panic" => x0 > B
  /\ searchStep = "found" => Raised(p, g, result) = h

(* An exponent from 3 B + 1 has a multiple of B that the search has tried  *)
(* and, less that, an exponent of the table.                               *)
LEMMA TablesMeet ==
  ASSUME LogarithmInv, x > 3 * B
  PROVE  searchStep # "panic"
<1> SUFFICES ASSUME searchStep = "panic" PROVE FALSE
  OBVIOUS
<1> DEFINE a == (x - 1) \div B  s == (x - 1) % B  r == s + 1
<1>1. B \in Nat \ {0} /\ x \in Nat /\ x <= B * B /\ B * B \in Nat /\ x - 1 \in Nat
  BY ArgFacts DEF LogarithmInv
<1>2. a \in Nat /\ s \in Nat /\ s < B /\ x - 1 = B * a + s
  BY <1>1, DivMod
<1> HIDE DEF a, s
<1>3. x - r = a * B /\ r \in 1..B + 1 /\ r <= x
  <2>1. B * a = a * B /\ a * B \in Nat
    BY <1>1, <1>2
  <2> QED
    BY <1>1, <1>2, <2>1
<1>4. a >= 3
  <2> SUFFICES ASSUME a <= 2 PROVE FALSE
    BY <1>2
  <2>1. B * a <= B * 2
    BY <1>1, <1>2
  <2> QED
    BY <1>1, <1>2, <2>1
<1>5. a < B
  <2> SUFFICES ASSUME B <= a PROVE FALSE
    BY <1>1, <1>2
  <2>1. B * B <= B * a
    BY <1>1, <1>2
  <2> QED
    BY <1>1, <1>2, <2>1
<1>6. x1 = B + 1 /\ x0 > B /\ x0 \in Nat
  BY <1>1 DEF LogarithmInv, Dlog!TypeOK
<1>7. a \in 3..x0
  BY <1>1, <1>2, <1>4, <1>5, <1>6
<1>8. lookup[Raised(p, g, a * B)] = 0
  BY <1>7 DEF LogarithmInv
<1>9. lookup[Raised(p, g, x - r)] # 0
  BY <1>3, <1>6 DEF LogarithmInv
<1> QED
  BY <1>3, <1>8, <1>9

LEMMA BuildLeftKeeps ==
  ASSUME LogarithmInv, Dlog!BuildLeft
  PROVE  LogarithmInv'
<1> DEFINE R(e) == Raised(p, g, e)
           l == Dlog!Left
<1>1. /\ p' = p /\ g' = g /\ h' = h /\ B' = B /\ x' = x /\ search' = search
      /\ x0' = x0 /\ result' = result /\ searchStep = "left"
  BY DEF Dlog!BuildLeft, Dlog!args
<1>2. LogarithmArgs /\ LogarithmArgs'
  BY <1>1 DEF LogarithmInv, LogarithmArgs
<1>3. /\ p \in Nat \ {0} /\ p > 1 /\ g \in Nat /\ B \in Nat \ {0} /\ x \in Nat
      /\ h \in 0..p - 1 /\ h = R(x)
  BY <1>2, ArgFacts DEF LogarithmArgs
<1>4. x1 \in 0..B + 1 /\ lookup \in [0..p - 1 -> 0..B + 1] /\ x0 = 2
  BY <1>1 DEF LogarithmInv, Dlog!TypeOK
<1>5. \A e \in Nat : R(e) \in 0..p - 1
  BY <1>3, RaisedBy
<1> HIDE DEF l
<1>6. CASE x1 <= B
  <2>1. x1' = x1 + 1 /\ lookup' = [lookup EXCEPT ![l] = x1 + 1] /\ searchStep' = "left"
    BY <1>1, <1>6 DEF Dlog!BuildLeft, l
  <2>2. x1 \in Nat /\ x1 + 1 \in 1..B + 1 /\ x1 + 1 \in Nat
    BY <1>3, <1>4, <1>6
  <2>3. PICK u \in Nat : (R(x1 + 1) * u) % p = 1 /\ l = (h * u) % p
    BY <1>2, <2>2, LeftIs DEF l
  <2> HIDE DEF R
  <2>4. h \in Nat /\ R(x1 + 1) \in Nat
    BY <1>3, <1>5, <2>2
  <2>5. l \in 0..p - 1
    BY <1>3, <2>3, <2>4, ModOfProduct
  <2>6. /\ lookup' \in [0..p - 1 -> 0..B + 1] /\ lookup'[l] = x1 + 1
        /\ \A r \in 0..p - 1 : r # l => lookup'[r] = lookup[r]
    BY <1>4, <2>1, <2>2, <2>5
  <2>7. (l * R(x1 + 1)) % p = h
    <3>1. (((h * u) % p) * R(x1 + 1)) % p = (h * ((u * R(x1 + 1)) % p)) % p
      BY <1>3, <2>4, ModTriple
    <3>2. u * R(x1 + 1) = R(x1 + 1) * u
      BY <2>4
    <3>3. h * 1 = h /\ h % p = h
      BY <1>3, <2>4, ModSmall
    <3> QED
      BY <2>3, <3>1, <3>2, <3>3
  <2>8. ASSUME x1 + 1 <= x PROVE l = R(x - (x1 + 1))
    <3> DEFINE m == x - (x1 + 1)
    <3>1. m \in Nat /\ x = m + (x1 + 1)
      BY <1>3, <2>2, <2>8
    <3> HIDE DEF m
    <3>2. h = (R(m) * R(x1 + 1)) % p
      <4> DEFINE n == x1 + 1
      <4>1. n \in Nat /\ x = m + n
        BY <2>2, <3>1
      <4> HIDE DEF n
      <4>2. R(m + n) = (R(m) * R(n)) % p
        BY <1>3, <3>1, <4>1, PowerOfSum DEF R
      <4> QED
        BY <1>3, <4>1, <4>2 DEF n
    <3>3. R(m) \in 0..p - 1 /\ R(m) \in Nat
      BY <1>3, <1>5, <3>1
    <3>4. (((R(m) * R(x1 + 1)) % p) * u) % p = (R(m) * ((R(x1 + 1) * u) % p)) % p
      BY <1>3, <2>4, <3>3, ModTriple
    <3>5. R(m) * 1 = R(m) /\ R(m) % p = R(m)
      BY <1>3, <3>3, ModSmall
    <3> QED
      BY <2>3, <3>2, <3>4, <3>5 DEF m
  <2>9. ASSUME NEW r \in 0..p - 1, lookup'[r] # 0
        PROVE  (r * R(lookup'[r])) % p = h
    <3>1. CASE r = l
      BY <2>6, <2>7, <3>1
    <3>2. CASE r # l
      <4>1. lookup'[r] = lookup[r]
        BY <2>6, <3>2
      <4> QED
        BY <2>9, <4>1 DEF LogarithmInv, R
    <3> QED
      BY <3>1, <3>2
  <2>10. ASSUME NEW k \in 1..x1 + 1, k <= x
         PROVE  lookup'[R(x - k)] # 0
    <3>1. R(x - k) \in 0..p - 1
      <4>1. x - k \in Nat
        BY <1>3, <2>2, <2>10
      <4> QED
        BY <1>5, <4>1
    <3>2. CASE R(x - k) = l
      BY <2>2, <2>6, <3>2
    <3>3. CASE R(x - k) # l
      <4>1. k \in 1..x1
        BY <2>2, <2>8, <2>10, <3>3
      <4>2. lookup[R(x - k)] # 0
        BY <2>10, <4>1 DEF LogarithmInv, R
      <4> QED
        BY <2>6, <3>1, <3>3, <4>2
    <3> QED
      BY <3>2, <3>3
  <2>11. Dlog!TypeOK'
    BY <1>1, <1>3, <1>4, <2>1, <2>2, <2>6 DEF Dlog!TypeOK
  <2> QED
    BY <1>1, <1>2, <1>4, <2>1, <2>9, <2>10, <2>11 DEF LogarithmInv, R
<1>7. CASE ~ (x1 <= B)
  <2>1. x1' = x1 /\ lookup' = lookup /\ searchStep' = "right" /\ x1 = B + 1
    BY <1>1, <1>3, <1>4, <1>7 DEF Dlog!BuildLeft
  <2>2. Dlog!TypeOK'
    BY <1>1, <1>4, <2>1 DEF Dlog!TypeOK
  <2>3. 3..x0 = {}
    BY <1>4
  <2> QED
    BY <1>1, <1>2, <2>1, <2>2, <2>3 DEF LogarithmInv
<1> QED
  BY <1>6, <1>7

LEMMA SearchLeftKeeps ==
  ASSUME LogarithmInv, Dlog!SearchLeft
  PROVE  LogarithmInv'
<1> DEFINE R(e) == Raised(p, g, e)
           e0 == (x0 + 1) * B
           f == lookup[R(e0)]
<1>1. /\ p' = p /\ g' = g /\ h' = h /\ B' = B /\ x' = x /\ search' = search
      /\ x1' = x1 /\ lookup' = lookup /\ searchStep = "right"
  BY DEF Dlog!SearchLeft, Dlog!args
<1>2. LogarithmArgs /\ LogarithmArgs'
  BY <1>1 DEF LogarithmInv, LogarithmArgs
<1>3. p \in Nat \ {0} /\ g \in Nat /\ B \in Nat \ {0}
  BY <1>2, ArgFacts
<1>4. /\ x1 = B + 1 /\ lookup \in [0..p - 1 -> 0..B + 1] /\ x0 \in {2} \cup 3..B + 1
      /\ \A m \in 3..x0 : lookup[R(m * B)] = 0
  BY <1>1 DEF LogarithmInv, Dlog!TypeOK
<1>5. \A e \in Nat : R(e) \in 0..p - 1
  BY <1>3, RaisedBy
<1>6. CASE x0 <= B
  <2>1. /\ x0' = x0 + 1
        /\ searchStep' = IF f # 0 THEN "found" ELSE "right"
        /\ result' = IF f # 0 THEN e0 + f ELSE 0
    BY <1>1, <1>6, PowerIs DEF Dlog!SearchLeft
  <2>2. e0 \in Nat /\ x0 + 1 \in 3..B + 1 /\ x0 \in Nat
    BY <1>3, <1>4, <1>6
  <2>3. R(e0) \in 0..p - 1 /\ f \in 0..B + 1 /\ f \in Nat
    <3> HIDE DEF R, e0
    <3>1. R(e0) \in 0..p - 1
      BY <1>5, <2>2
    <3> QED
      BY <1>3, <1>4, <3>1
  <2>4. f # 0 => R(e0 + f) = h
    <3>1. R(e0 + f) = (R(e0) * R(f)) % p
      <4> HIDE DEF e0, f
      <4> QED
        BY <1>3, <2>2, <2>3, PowerOfSum
    <3>2. f # 0 => (R(e0) * R(f)) % p = h
      BY <2>3 DEF LogarithmInv
    <3> QED
      BY <3>1, <3>2
  <2>5. f = 0 => \A m \in 3..x0 + 1 : lookup[R(m * B)] = 0
    <3> SUFFICES ASSUME f = 0, NEW m \in 3..x0 + 1 PROVE lookup[R(m * B)] = 0
      OBVIOUS
    <3>1. m \in 3..x0 \/ m = x0 + 1
      BY <2>2
    <3> QED
      BY <1>4, <3>1
  <2> HIDE DEF e0, f
  <2>6. Dlog!TypeOK'
    BY <1>1, <1>3, <1>4, <2>1, <2>2 DEF Dlog!TypeOK, LogarithmInv
  <2>7. CASE f # 0
    <3>1. searchStep' = "found" /\ Raised(p, g, result') = h
      BY <2>1, <2>4, <2>7
    <3> QED
      BY <1>1, <1>2, <2>6, <3>1 DEF LogarithmInv
  <2>8. CASE f = 0
    <3>1. searchStep' = "right" /\ \A m \in 3..x0' : lookup[R(m * B)] = 0
      BY <2>1, <2>5, <2>8
    <3> QED
      BY <1>1, <1>2, <2>6, <3>1 DEF LogarithmInv
  <2> QED
    BY <2>7, <2>8
<1>7. CASE ~ (x0 <= B)
  <2>1. x0' = x0 /\ result' = result /\ searchStep' = "panic" /\ x0 > B
    BY <1>1, <1>3, <1>4, <1>7 DEF Dlog!SearchLeft
  <2>2. Dlog!TypeOK'
    BY <1>1, <2>1 DEF Dlog!TypeOK, LogarithmInv
  <2> QED
    BY <1>1, <1>2, <2>1, <2>2 DEF LogarithmInv
<1> QED
  BY <1>6, <1>7

(* For every list of primes and of positive bases, both programs print an  *)
(* exponent of h or nothing, and find every exponent from 3 B + 1 on.      *)
THEOREM LogarithmOfH == SpecAny => []LogarithmFound
<1>1. InitAny => LogarithmInv
  <2> SUFFICES ASSUME Dlog!Init PROVE LogarithmInv
    BY DEF InitAny, DlogIdle
  <2>1. LogarithmArgs
    BY PowerIs DEF Dlog!Init, LogarithmArgs
  <2>2. p \in Nat \ {0} /\ B \in Nat \ {0} /\ g \in Nat
    BY <2>1, ArgFacts
  <2>3. /\ x1 = 0 /\ x0 = 2 /\ searchStep = "left"
        /\ lookup = [r \in 0..p - 1 |-> 0]
    BY DEF Dlog!Init
  <2>4. Dlog!TypeOK
    BY <2>2, <2>3 DEF Dlog!TypeOK
  <2>5. 1..x1 = {} /\ \A r \in 0..p - 1 : lookup[r] = 0
    BY <2>3
  <2> QED
    BY <2>1, <2>3, <2>4, <2>5 DEF LogarithmInv
<1>2. LogarithmInv /\ [NextAny]_all => LogarithmInv'
  <2> SUFFICES ASSUME LogarithmInv, [NextAny]_all PROVE LogarithmInv'
    OBVIOUS
  <2>1. CASE Dlog!Next
    BY <2>1, BuildLeftKeeps, SearchLeftKeeps DEF Dlog!Next
  <2>2. CASE UNCHANGED dlogVars
    BY <2>2 DEF dlogVars, LogarithmInv, LogarithmArgs, Dlog!TypeOK
  <2> QED
    BY <2>1, <2>2 DEF NextAny, all
<1>3. LogarithmInv => LogarithmFound
  <2> SUFFICES ASSUME LogarithmInv PROVE LogarithmFound
    OBVIOUS
  <2>1. Dlog!TypeOK /\ Dlog!FoundFromThreeB
    BY TablesMeet DEF LogarithmInv, Dlog!FoundFromThreeB
  <2>2. Dlog!Sound
    BY PowerIs DEF LogarithmInv, Dlog!Sound
  <2> QED
    BY <2>1, <2>2 DEF LogarithmFound
<1> QED
  BY <1>1, <1>2, <1>3, PTL DEF SpecAny

(***************************************************************************)
(* Onions: lists of units, whatever the units are.                         *)
(***************************************************************************)
IsList(s) == Len(s) \in Nat /\ s = [j \in 1..Len(s) |-> s[j]]

LEMMA ListIsSeq ==
  ASSUME NEW s, IsList(s)
  PROVE  s \in Seq({s[j] : j \in 1..Len(s)})
<1> DEFINE n == Len(s)  S == {s[j] : j \in 1..n}
<1>1. n \in Nat /\ s = [j \in 1..n |-> s[j]]
  BY DEF IsList
<1>2. \A j \in 1..n : s[j] \in S
  OBVIOUS
<1> HIDE DEF n, S
<1>3. s \in [1..n -> S]
  BY <1>1, <1>2
<1>4. s \in Seq(S)
  BY <1>1, <1>3
<1> QED
  BY <1>4 DEF n, S

LEMMA SeqIsList ==
  ASSUME NEW S, NEW s \in Seq(S)
  PROVE  IsList(s)
BY DEF IsList

LEMMA Tuples ==
  ASSUME NEW u, NEW w
  PROVE  /\ IsList(<<>>) /\ Len(<<>>) = 0
         /\ IsList(<<u>>) /\ Len(<<u>>) = 1 /\ <<u>>[1] = u
         /\ IsList(<<u, w>>) /\ Len(<<u, w>>) = 2 /\ <<u, w>>[1] = u /\ <<u, w>>[2] = w
BY DEF IsList

LEMMA Same ==
  ASSUME NEW a, IsList(a), NEW b, IsList(b), Len(a) = Len(b),
         \A j \in 1..Len(a) : a[j] = b[j]
  PROVE  a = b
BY DEF IsList

LEMMA Joined ==
  ASSUME NEW a, IsList(a), NEW b, IsList(b)
  PROVE  /\ IsList(a \o b) /\ Len(a \o b) = Len(a) + Len(b)
         /\ \A j \in 1..Len(a) : (a \o b)[j] = a[j]
         /\ \A j \in 1..Len(b) : (a \o b)[Len(a) + j] = b[j]
<1> DEFINE S == {a[j] : j \in 1..Len(a)} \cup {b[j] : j \in 1..Len(b)}
<1>1. a \in Seq(S) /\ b \in Seq(S)
  <2>1. a \in Seq({a[j] : j \in 1..Len(a)}) /\ b \in Seq({b[j] : j \in 1..Len(b)})
    BY ListIsSeq
  <2> QED
    BY <2>1
<1> HIDE DEF S
<1>2. a \o b \in Seq(S) /\ Len(a \o b) = Len(a) + Len(b)
  BY <1>1
<1>3. IsList(a \o b)
  BY <1>2, SeqIsList
<1>4. Len(a) \in Nat /\ Len(b) \in Nat
  BY <1>1
<1> QED
  BY <1>1, <1>2, <1>3, <1>4

LEMMA Cut ==
  ASSUME NEW s, IsList(s), NEW m \in Nat, NEW n \in Nat, m >= 1, m <= n + 1, n <= Len(s)
  PROVE  /\ IsList(SubSeq(s, m, n)) /\ Len(SubSeq(s, m, n)) = n - m + 1
         /\ \A j \in 1..n - m + 1 : SubSeq(s, m, n)[j] = s[m + j - 1]
<1> DEFINE S == {s[j] : j \in 1..Len(s)}
<1>1. s \in Seq(S)
  BY ListIsSeq
<1> HIDE DEF S
<1>2. SubSeq(s, m, n) \in Seq(S)
  BY <1>1
<1>3. IsList(SubSeq(s, m, n))
  BY <1>2, SeqIsList
<1> QED
  BY <1>1, <1>3

(* The parts of two lists joined.                                          *)
LEMMA Parts ==
  ASSUME NEW a, IsList(a), NEW b, IsList(b)
  PROVE  /\ SubSeq(a \o b, 1, Len(a)) = a
         /\ SubSeq(a \o b, Len(a) + 1, Len(a \o b)) = b
<1> DEFINE s == a \o b
<1>1. /\ IsList(s) /\ Len(s) = Len(a) + Len(b) /\ Len(a) \in Nat /\ Len(b) \in Nat
      /\ \A j \in 1..Len(a) : s[j] = a[j]
      /\ \A j \in 1..Len(b) : s[Len(a) + j] = b[j]
  <2>1. Len(a) \in Nat /\ Len(b) \in Nat
    BY DEF IsList
  <2>2. /\ IsList(s) /\ Len(s) = Len(a) + Len(b)
        /\ \A j \in 1..Len(a) : s[j] = a[j]
        /\ \A j \in 1..Len(b) : s[Len(a) + j] = b[j]
    BY Joined
  <2> QED
    BY <2>1, <2>2
<1> HIDE DEF s
<1>2. SubSeq(s, 1, Len(a)) = a
  <2> DEFINE t == SubSeq(s, 1, Len(a))
  <2>1. IsList(t) /\ Len(t) = Len(a) /\ \A j \in 1..Len(a) : t[j] = s[j]
    <3>1. /\ IsList(t) /\ Len(t) = Len(a) - 1 + 1
          /\ \A j \in 1..Len(a) - 1 + 1 : t[j] = s[1 + j - 1]
      BY <1>1, Cut
    <3> HIDE DEF t
    <3> QED
      BY <1>1, <3>1
  <2> HIDE DEF t
  <2>2. t = a
    BY <1>1, <2>1, Same
  <2> QED
    BY <2>2 DEF t
<1>3. SubSeq(s, Len(a) + 1, Len(s)) = b
  <2> DEFINE t == SubSeq(s, Len(a) + 1, Len(s))
  <2>1. IsList(t) /\ Len(t) = Len(b) /\ \A j \in 1..Len(b) : t[j] = s[Len(a) + j]
    <3>1. /\ IsList(t) /\ Len(t) = Len(s) - (Len(a) + 1) + 1
          /\ \A j \in 1..Len(s) - (Len(a) + 1) + 1 : t[j] = s[(Len(a) + 1) + j - 1]
      BY <1>1, Cut
    <3> HIDE DEF t
    <3> QED
      BY <1>1, <3>1
  <2> HIDE DEF t
  <2>2. t = b
    BY <1>1, <2>1, Same
  <2> QED
    BY <2>2 DEF t
<1> QED
  BY <1>2, <1>3 DEF s

LEMMA JoinTwice ==
  \A a, b, c : IsList(a) /\ IsList(b) /\ IsList(c) => (a \o b) \o c = a \o (b \o c)
<1> SUFFICES ASSUME NEW a, IsList(a), NEW b, IsList(b), NEW c, IsList(c)
             PROVE  (a \o b) \o c = a \o (b \o c)
  OBVIOUS
<1> DEFINE S == {a[j] : j \in 1..Len(a)} \cup {b[j] : j \in 1..Len(b)}
                  \cup {c[j] : j \in 1..Len(c)}
<1>1. a \in Seq(S) /\ b \in Seq(S) /\ c \in Seq(S)
  <2>1. /\ a \in Seq({a[j] : j \in 1..Len(a)}) /\ b \in Seq({b[j] : j \in 1..Len(b)})
        /\ c \in Seq({c[j] : j \in 1..Len(c)})
    BY ListIsSeq
  <2> QED
    BY <2>1
<1> HIDE DEF S
<1> QED
  BY <1>1, ConcatAssociative

LEMMA AppendedUnit ==
  \A a, u : IsList(a) => Append(a, u) = a \o <<u>>
<1> SUFFICES ASSUME NEW a, IsList(a), NEW u
             PROVE  Append(a, u) = a \o <<u>>
  OBVIOUS
<1> DEFINE S == {a[j] : j \in 1..Len(a)} \cup {u}
<1>1. a \in Seq(S) /\ u \in S
  <2>1. a \in Seq({a[j] : j \in 1..Len(a)})
    BY ListIsSeq
  <2> QED
    BY <2>1
<1> HIDE DEF S
<1> QED
  BY <1>1, AppendIsConcat

LEMMA Lengthened ==
  ASSUME NEW a, IsList(a), NEW u
  PROVE  /\ IsList(Append(a, u)) /\ Len(Append(a, u)) = Len(a) + 1
         /\ \A j \in 1..Len(a) : Append(a, u)[j] = a[j]
         /\ Append(a, u)[Len(a) + 1] = u
<1> DEFINE S == {a[j] : j \in 1..Len(a)} \cup {u}
<1>1. a \in Seq(S) /\ u \in S
  <2>1. a \in Seq({a[j] : j \in 1..Len(a)})
    BY ListIsSeq
  <2> QED
    BY <2>1
<1> HIDE DEF S
<1>2. Append(a, u) \in Seq(S)
  BY <1>1
<1>3. IsList(Append(a, u))
  BY <1>2, SeqIsList
<1> QED
  BY <1>1, <1>3

LEMMA Lists ==
  /\ IsList(<<>>)
  /\ \A u : IsList(<<u>>)
  /\ \A u, w : IsList(<<u, w>>)
  /\ \A a, b : IsList(a) /\ IsList(b) => IsList(a \o b)
BY Tuples, Joined

(***************************************************************************)
(* Lists joined: what holds of them, with nothing of the sequences left.   *)
(***************************************************************************)
Join(a, b) == a \o b
One(u) == <<u>>
First(s, n) == SubSeq(s, 1, n)

LEMMA Single ==
  \A u : IsList(One(u)) /\ Len(One(u)) = 1 /\ One(u)[1] = u
BY Tuples DEF One

LEMMA JoinIsList ==
  \A a, b : IsList(a) /\ IsList(b) =>
     /\ IsList(Join(a, b)) /\ Len(Join(a, b)) = Len(a) + Len(b)
     /\ Len(a) \in Nat /\ Len(b) \in Nat
BY Joined DEF Join, IsList

LEMMA JoinUnits ==
  \A a, b : IsList(a) /\ IsList(b) =>
     /\ \A j \in 1..Len(a) : Join(a, b)[j] = a[j]
     /\ \A j \in 1..Len(b) : Join(a, b)[Len(a) + j] = b[j]
BY Joined DEF Join

LEMMA JoinParts ==
  \A a, b : IsList(a) /\ IsList(b) =>
     First(Join(a, b), Len(a)) = a /\ Onions!After(Join(a, b), Len(a)) = b
BY Parts DEF Join, First, Onions!After

LEMMA JoinAgain ==
  \A a, b, c : IsList(a) /\ IsList(b) /\ IsList(c) =>
     Join(Join(a, b), c) = Join(a, Join(b, c))
BY JoinTwice DEF Join

LEMMA JoinEnd ==
  \A a, u : IsList(a) =>
     LET whole == Join(a, One(u))
     IN  /\ IsList(whole) /\ Len(whole) = Len(a) + 1 /\ Len(a) \in Nat
         /\ \A j \in 1..Len(a) : whole[j] = a[j]
         /\ whole[Len(whole)] = u /\ Onions!Front(whole) = a
         /\ whole = Append(a, u)
<1> SUFFICES ASSUME NEW a, NEW u, IsList(a)
             PROVE  LET whole == Join(a, One(u))
                    IN  /\ IsList(whole) /\ Len(whole) = Len(a) + 1 /\ Len(a) \in Nat
                        /\ \A j \in 1..Len(a) : whole[j] = a[j]
                        /\ whole[Len(whole)] = u /\ Onions!Front(whole) = a
                        /\ whole = Append(a, u)
  OBVIOUS
<1> DEFINE whole == Join(a, One(u))
<1>1. IsList(One(u)) /\ Len(One(u)) = 1 /\ One(u)[1] = u
  BY Single
<1>2. /\ IsList(whole) /\ Len(whole) = Len(a) + 1 /\ Len(a) \in Nat
  BY <1>1, JoinIsList
<1>3. /\ \A j \in 1..Len(a) : whole[j] = a[j]
      /\ \A j \in 1..1 : whole[Len(a) + j] = One(u)[j]
  <2> DEFINE one == One(u)
  <2>1. IsList(one) /\ Len(one) = 1
    BY <1>1
  <2> HIDE DEF one
  <2>2. /\ \A j \in 1..Len(a) : Join(a, one)[j] = a[j]
        /\ \A j \in 1..Len(one) : Join(a, one)[Len(a) + j] = one[j]
    <3>1. IsList(a) /\ IsList(one)
      BY <2>1
    <3> QED
      BY ONLY <3>1, JoinUnits
  <2>3. \A j \in 1..1 : Join(a, one)[Len(a) + j] = one[j]
    BY <2>1, <2>2
  <2> QED
    BY <2>2, <2>3 DEF one
<1>4. First(whole, Len(a)) = a
  BY <1>1, JoinParts
<1>5. whole = Append(a, u)
  <2>1. Append(a, u) = a \o <<u>>
    BY AppendedUnit
  <2> QED
    BY <2>1 DEF Join, One
<1> HIDE DEF whole
<1>6. Onions!Front(whole) = a
  <2>1. Len(whole) - 1 = Len(a)
    BY <1>2
  <2> QED
    BY <1>4, <2>1 DEF First, Onions!Front
<1>7. whole[Len(whole)] = u
  BY <1>1, <1>2, <1>3
<1> QED
  BY <1>2, <1>3, <1>5, <1>6, <1>7 DEF whole

(* A length in front of the data is read as it was written.                *)
LEMMA SizeIsFound ==
  ASSUME NEW n \in DataLens
  PROVE  LET front == Onions!BigSize(n)
         IN  /\ IsList(front) /\ Len(front) > 0 /\ n \in Nat
             /\ n < Limit => Len(front) = 1
             /\ \A rest : IsList(rest) =>
                  /\ n < Limit => Onions!UInt8s(Join(front, rest)) = {<<n, 1>>}
                  /\ Onions!BigSizes(Join(front, rest)) = {<<n, Len(front)>>}
<1> DEFINE front == Onions!BigSize(n)
<1>1. n \in Nat /\ Limit \in Nat
  BY RouteAssumption
<1>2. \A rest : IsList(front) /\ Len(front) > 0 /\ IsList(rest) =>
        /\ Join(front, rest) # <<>> /\ Len(Join(front, rest)) >= Len(front)
        /\ \A j \in 1..Len(front) : Join(front, rest)[j] = front[j]
  <2> HIDE DEF front
  <2> SUFFICES ASSUME NEW rest, IsList(front), Len(front) > 0, IsList(rest)
               PROVE  /\ Join(front, rest) # <<>> /\ Len(Join(front, rest)) >= Len(front)
                      /\ \A j \in 1..Len(front) : Join(front, rest)[j] = front[j]
    OBVIOUS
  <2>1. /\ Len(Join(front, rest)) = Len(front) + Len(rest)
        /\ Len(front) \in Nat /\ Len(rest) \in Nat
    BY JoinIsList
  <2>2. Len(Join(front, rest)) >= Len(front) /\ Len(Join(front, rest)) > 0
    BY <2>1
  <2>3. ~ (Len(<<>>) > 0)
    OBVIOUS
  <2>4. \A j \in 1..Len(front) : Join(front, rest)[j] = front[j]
    BY JoinUnits
  <2> QED
    BY <2>2, <2>3, <2>4
<1>3. CASE n < Limit
  <2>1. IsList(front) /\ Len(front) = 1 /\ front[1] = Onions!Num(n)
    BY <1>3, Tuples DEF Onions!BigSize
  <2> HIDE DEF front
  <2>2. ASSUME NEW rest, IsList(rest)
        PROVE  /\ Onions!UInt8s(Join(front, rest)) = {<<n, 1>>}
               /\ Onions!BigSizes(Join(front, rest)) = {<<n, 1>>}
    <3> DEFINE units == Join(front, rest)
    <3>1. units # <<>> /\ units[1] = Onions!Num(n)
      BY <1>2, <2>1, <2>2
    <3> HIDE DEF units
    <3>2. Onions!UInt8s(units) = {<<n, 1>>}
      BY <3>1 DEF Onions!UInt8s, Onions!Num
    <3>3. Onions!BigSizes(units) = {<<n, 1>>}
      BY <1>1, <1>3, <3>2 DEF Onions!BigSizes
    <3> QED
      BY <3>2, <3>3 DEF units
  <2>3. Len(front) > 0
    BY <2>1
  <2> QED
    BY <1>1, <2>1, <2>2, <2>3 DEF front
<1>4. CASE ~ (n < Limit)
  <2>1. /\ IsList(front) /\ Len(front) = 3 /\ front[1] = Onions!Num(Limit)
        /\ front[2] = <<"high", n>> /\ front[3] = <<"low", n>>
    BY <1>4 DEF Onions!BigSize, IsList
  <2> HIDE DEF front
  <2>2. ASSUME NEW rest, IsList(rest)
        PROVE  Onions!BigSizes(Join(front, rest)) = {<<n, 3>>}
    <3> DEFINE units == Join(front, rest)
    <3>1. /\ units # <<>> /\ Len(units) >= 3 /\ units[1] = Onions!Num(Limit)
          /\ units[2] = <<"high", n>> /\ units[3] = <<"low", n>>
      <4>1. /\ Len(front) > 0 /\ 1 \in 1..Len(front)
            /\ 2 \in 1..Len(front) /\ 3 \in 1..Len(front)
        BY <2>1
      <4>2. /\ units # <<>> /\ Len(units) >= Len(front)
            /\ \A j \in 1..Len(front) : units[j] = front[j]
        BY <1>2, <2>1, <2>2, <4>1
      <4> HIDE DEF units
      <4> QED
        BY <2>1, <4>1, <4>2
    <3> HIDE DEF units
    <3>2. Onions!UInt8s(units) = {<<Limit, 1>>}
      BY <3>1 DEF Onions!UInt8s, Onions!Num
    <3>3. \A w \in DataLens : units[2] = <<"high", w>> => w = n
      BY <3>1
    <3>4. Onions!BigSizes(units) = {<<n, 3>>}
      BY <1>1, <3>1, <3>2, <3>3 DEF Onions!BigSizes
    <3> QED
      BY <3>4 DEF units
  <2>3. Len(front) > 0
    BY <2>1
  <2> QED
    BY <1>1, <1>4, <2>1, <2>2, <2>3 DEF front
<1> QED
  BY <1>3, <1>4

(***************************************************************************)
(* Onions: the layers.  f[k] is the payload for hop k; seal k is the HMAC  *)
(* under which it travels.                                                 *)
(***************************************************************************)
Opening(v) == <<Onions!Num(v), Onions!Point>>
Covered(v, units) == Join(Opening(v), units)

Seal(v, f, k, n) ==
  IF k = n + 1 THEN Onions!Zeros ELSE Onions!Hmac(k, Covered(v, f[k]))

Payload1(bytes, after) == Join(Join(Onions!BigSize(Len(bytes)), bytes), after)
Payload2(bytes, seal, after) ==
  Join(Join(Join(Onions!BigSize(Len(bytes)), bytes), One(seal)), after)

Layers1(r, f, m) ==
  /\ f[Len(r) + 1] = <<>>
  /\ \A k \in m..Len(r) : IsList(f[k]) /\ f[k] = Payload1(r[k], f[k + 1])

Layers2(r, v, f, m) ==
  /\ f[Len(r) + 1] = <<>>
  /\ \A k \in m..Len(r) :
       IsList(f[k]) /\ f[k] = Payload2(r[k], Seal(v, f, k + 1, Len(r)), f[k + 1])

(* What hop k of ex2 is handed: from the second on, version 0.             *)
Intact(v, f, k, n) ==
  Join(Covered(IF k = 1 THEN v ELSE 0, f[k]), One(Seal(v, f, k, n)))

IsRoute(r) ==
  /\ IsList(r) /\ Len(r) \in 1..MaxHops
  /\ \A k \in 1..Len(r) : IsList(r[k]) /\ Len(r[k]) \in DataLens

(* Payloads as the length and what comes behind it.                        *)
LEMMA Payloads ==
  ASSUME NEW bytes, IsList(bytes), Len(bytes) \in DataLens, NEW seal,
         NEW after, IsList(after)
  PROVE  LET size == Onions!BigSize(Len(bytes))
             last == Join(One(seal), after)
         IN  /\ IsList(Payload1(bytes, after)) /\ Len(Payload1(bytes, after)) > 0
             /\ IsList(Join(bytes, after))
             /\ Payload1(bytes, after) = Join(size, Join(bytes, after))
             /\ IsList(Payload2(bytes, seal, after))
             /\ Len(Payload2(bytes, seal, after)) > 0
             /\ IsList(last) /\ IsList(Join(bytes, last))
             /\ Payload2(bytes, seal, after) = Join(size, Join(bytes, last))
<1> DEFINE size == Onions!BigSize(Len(bytes))
           one == One(seal)
           last == Join(one, after)
           two == Join(size, bytes)
<1>1. IsList(size) /\ Len(size) > 0 /\ IsList(one)
  BY SizeIsFound, Single
<1> HIDE DEF size, one
<1>2. /\ IsList(two) /\ IsList(last) /\ IsList(Join(bytes, after))
  BY <1>1, JoinIsList
<1>3. Join(two, after) = Join(size, Join(bytes, after))
  BY <1>1, JoinAgain
<1> HIDE DEF last
<1>4. IsList(Join(bytes, last))
  BY <1>2, JoinIsList
<1>5. Join(two, last) = Join(size, Join(bytes, last))
  BY <1>1, <1>2, JoinAgain
<1> HIDE DEF two
<1>6. Join(Join(two, one), after) = Join(two, last)
  BY <1>1, <1>2, JoinAgain DEF last
<1>7. \A others : IsList(others) =>
        IsList(Join(size, others)) /\ Len(Join(size, others)) > 0
  <2> SUFFICES ASSUME NEW others, IsList(others)
               PROVE  IsList(Join(size, others)) /\ Len(Join(size, others)) > 0
    OBVIOUS
  <2>1. /\ IsList(Join(size, others)) /\ Len(Join(size, others)) = Len(size) + Len(others)
        /\ Len(size) \in Nat /\ Len(others) \in Nat
    BY <1>1, JoinIsList
  <2> QED
    BY <1>1, <2>1
<1>8. Payload1(bytes, after) = Join(two, after)
  BY DEF Payload1, two, size
<1>9. Payload2(bytes, seal, after) = Join(Join(two, one), after)
  BY DEF Payload2, two, size, one
<1>10. Payload1(bytes, after) = Join(size, Join(bytes, after))
  BY <1>3, <1>8
<1>11. Payload2(bytes, seal, after) = Join(size, Join(bytes, last))
  BY <1>5, <1>6, <1>9
<1>12. IsList(Payload1(bytes, after)) /\ Len(Payload1(bytes, after)) > 0
  BY <1>2, <1>7, <1>10
<1>13. IsList(Payload2(bytes, seal, after)) /\ Len(Payload2(bytes, seal, after)) > 0
  BY <1>4, <1>7, <1>11
<1> QED
  BY <1>2, <1>4, <1>10, <1>11, <1>12, <1>13 DEF size, last, one

(* One layer more around the layers there are.                             *)
LEMMA WrapLayer1 ==
  ASSUME NEW r, IsRoute(r), NEW f, NEW m \in 2..Len(r) + 1, Layers1(r, f, m)
  PROVE  \E e : Layers1(r, e, m - 1) /\ e[m - 1] = Payload1(r[m - 1], f[m])
<1> DEFINE n == Len(r)
           e == [k \in m - 1..n + 1 |->
                   IF k = m - 1 THEN Payload1(r[m - 1], f[m]) ELSE f[k]]
<1>1. n \in Nat /\ m \in Nat /\ m - 1 \in 1..n /\ m - 1 \in m - 1..n + 1
  BY RouteAssumption DEF IsRoute
<1>2. IsList(f[m])
  <2>1. CASE m = n + 1
    <3>1. f[m] = <<>>
      BY <2>1 DEF Layers1
    <3> QED
      BY <3>1, Lists
  <2>2. CASE m # n + 1
    <3>1. m \in m..n
      BY <1>1, <2>2
    <3> QED
      BY <3>1 DEF Layers1
  <2> QED
    BY <2>1, <2>2
<1>3. IsList(Payload1(r[m - 1], f[m]))
  <2>1. IsList(r[m - 1]) /\ Len(r[m - 1]) \in DataLens
    BY <1>1 DEF IsRoute
  <2> QED
    BY <1>2, <2>1, Payloads
<1>4. e[m - 1] = Payload1(r[m - 1], f[m]) /\ \A k \in m..n + 1 : e[k] = f[k]
  BY <1>1
<1> HIDE DEF e
<1>5. m \in m..n + 1 /\ n + 1 \in m..n + 1 /\ m - 1 + 1 = m
  BY <1>1
<1>6. ASSUME NEW k \in m - 1..n
      PROVE  IsList(e[k]) /\ e[k] = Payload1(r[k], e[k + 1])
  <2>1. CASE k = m - 1
    BY <1>3, <1>4, <1>5, <2>1
  <2>2. CASE k # m - 1
    <3>1. k \in m..n /\ k \in m..n + 1 /\ k + 1 \in m..n + 1
      BY <1>1, <2>2
    <3> QED
      BY <1>4, <3>1 DEF Layers1
  <2> QED
    BY <2>1, <2>2
<1> QED
  BY <1>4, <1>5, <1>6 DEF Layers1

LEMMA WrapLayer2 ==
  ASSUME NEW r, IsRoute(r), NEW v, NEW f, NEW m \in 2..Len(r) + 1, Layers2(r, v, f, m)
  PROVE  \E e : /\ Layers2(r, v, e, m - 1)
                /\ e[m - 1] = Payload2(r[m - 1], Seal(v, f, m, Len(r)), f[m])
<1> DEFINE n == Len(r)
           new == Payload2(r[m - 1], Seal(v, f, m, n), f[m])
           e == [k \in m - 1..n + 1 |-> IF k = m - 1 THEN new ELSE f[k]]
<1>1. n \in Nat /\ m \in Nat /\ m - 1 \in 1..n /\ m - 1 \in m - 1..n + 1
  BY RouteAssumption DEF IsRoute
<1>2. IsList(f[m])
  <2>1. CASE m = n + 1
    <3>1. f[m] = <<>>
      BY <2>1 DEF Layers2
    <3> QED
      BY <3>1, Lists
  <2>2. CASE m # n + 1
    <3>1. m \in m..n
      BY <1>1, <2>2
    <3> QED
      BY <3>1 DEF Layers2
  <2> QED
    BY <2>1, <2>2
<1>3. IsList(new)
  <2>1. IsList(r[m - 1]) /\ Len(r[m - 1]) \in DataLens
    BY <1>1 DEF IsRoute
  <2> QED
    BY <1>2, <2>1, Payloads
<1> HIDE DEF new
<1>4. e[m - 1] = new /\ \A k \in m..n + 1 : e[k] = f[k]
  BY <1>1
<1> HIDE DEF e
<1>5. m \in m..n + 1 /\ n + 1 \in m..n + 1 /\ m - 1 + 1 = m
  BY <1>1
<1>6. \A k \in m..n + 1 : Seal(v, e, k, n) = Seal(v, f, k, n)
  BY <1>4 DEF Seal
<1>7. ASSUME NEW k \in m - 1..n
      PROVE  IsList(e[k]) /\ e[k] = Payload2(r[k], Seal(v, e, k + 1, n), e[k + 1])
  <2>1. CASE k = m - 1
    BY <1>3, <1>4, <1>5, <1>6, <2>1 DEF new
  <2>2. CASE k # m - 1
    <3>1. k \in m..n /\ k \in m..n + 1 /\ k + 1 \in m..n + 1
      BY <1>1, <2>2
    <3> QED
      BY <1>4, <1>6, <3>1 DEF Layers2
  <2> QED
    BY <2>1, <2>2
<1> QED
  BY <1>4, <1>5, <1>7 DEF Layers2, new

(* The beginnings of a list.                                               *)
LEMMA Beginnings ==
  ASSUME NEW s, IsList(s)
  PROVE  /\ SubSeq(s, 1, 0) = <<>> /\ SubSeq(s, 1, Len(s)) = s
         /\ \A k \in 0..Len(s) : /\ IsList(SubSeq(s, 1, k)) /\ Len(SubSeq(s, 1, k)) = k
                                 /\ Onions!IsPrefixOf(SubSeq(s, 1, k), s)
         /\ \A k \in 1..Len(s) : /\ Append(SubSeq(s, 1, k - 1), s[k]) = SubSeq(s, 1, k)
                                 /\ Onions!Last(SubSeq(s, 1, k)) = s[k]
                                 /\ Onions!Front(SubSeq(s, 1, k)) = SubSeq(s, 1, k - 1)
<1>1. Len(s) \in Nat
  BY DEF IsList
<1>2. ASSUME NEW k \in 0..Len(s)
      PROVE  /\ IsList(SubSeq(s, 1, k)) /\ Len(SubSeq(s, 1, k)) = k
             /\ \A j \in 1..k : SubSeq(s, 1, k)[j] = s[j]
  <2> DEFINE t == SubSeq(s, 1, k)
  <2>1. /\ IsList(t) /\ Len(t) = k - 1 + 1
        /\ \A j \in 1..k - 1 + 1 : t[j] = s[1 + j - 1]
    BY <1>1, Cut
  <2> HIDE DEF t
  <2>2. IsList(t) /\ Len(t) = k /\ \A j \in 1..k : t[j] = s[j]
    BY <1>1, <2>1
  <2> QED
    BY <2>2 DEF t
<1> DEFINE b(k) == SubSeq(s, 1, k)
<1>3. /\ \A k \in 0..Len(s) : IsList(b(k)) /\ Len(b(k)) = k
      /\ \A k \in 0..Len(s) : \A j \in 1..k : b(k)[j] = s[j]
  BY <1>2
<1>4. \A k \in 0..Len(s) : Onions!IsPrefixOf(b(k), s)
  BY <1>1, <1>3 DEF Onions!IsPrefixOf
<1> HIDE DEF b
<1>5. b(0) = <<>>
  BY <1>1, <1>3, Same, Tuples
<1>6. b(Len(s)) = s
  BY <1>1, <1>3, Same
<1>7. ASSUME NEW k \in 1..Len(s)
      PROVE  /\ Append(b(k - 1), s[k]) = b(k)
             /\ Onions!Last(b(k)) = s[k] /\ Onions!Front(b(k)) = b(k - 1)
  <2>1. k \in Nat /\ k - 1 \in 0..Len(s) /\ k \in 0..Len(s) /\ k - 1 \in Nat
    BY <1>1
  <2>2. /\ IsList(b(k)) /\ Len(b(k)) = k /\ IsList(b(k - 1)) /\ Len(b(k - 1)) = k - 1
    BY <1>3, <2>1
  <2>3. Onions!Last(b(k)) = s[k]
    BY <1>3, <2>1, <2>2 DEF Onions!Last
  <2>4. Onions!Front(b(k)) = b(k - 1)
    <3> DEFINE t == SubSeq(b(k), 1, k - 1)
    <3>1. /\ IsList(t) /\ Len(t) = (k - 1) - 1 + 1
          /\ \A j \in 1..(k - 1) - 1 + 1 : t[j] = b(k)[1 + j - 1]
      BY <2>1, <2>2, Cut
    <3> HIDE DEF t
    <3>2. Len(t) = k - 1 /\ \A j \in 1..k - 1 : t[j] = b(k)[j]
      BY <2>1, <3>1
    <3>3. \A j \in 1..k - 1 : t[j] = b(k - 1)[j]
      BY <1>3, <2>1, <3>2
    <3>4. t = b(k - 1)
      BY <2>2, <3>1, <3>2, <3>3, Same
    <3> QED
      BY <2>2, <3>4 DEF t, Onions!Front
  <2>5. Append(b(k - 1), s[k]) = b(k)
    <3> DEFINE t == Append(b(k - 1), s[k])
    <3>1. /\ IsList(t) /\ Len(t) = Len(b(k - 1)) + 1
          /\ \A j \in 1..Len(b(k - 1)) : t[j] = b(k - 1)[j]
          /\ t[Len(b(k - 1)) + 1] = s[k]
      BY <2>2, Lengthened
    <3> HIDE DEF t
    <3>2. /\ Len(t) = (k - 1) + 1 /\ \A j \in 1..k - 1 : t[j] = b(k - 1)[j]
          /\ t[(k - 1) + 1] = s[k]
      BY <2>2, <3>1
    <3>3. Len(t) = k /\ t[k] = s[k] /\ \A j \in 1..k : j = k \/ j \in 1..k - 1
      BY <2>1, <3>2
    <3>4. \A j \in 1..k : t[j] = b(k)[j]
      BY <1>3, <2>1, <3>2, <3>3
    <3>5. t = b(k)
      BY <2>2, <3>1, <3>3, <3>4, Same
    <3> QED
      BY <3>5 DEF t
  <2> QED
    BY <2>3, <2>4, <2>5
<1> QED
  BY <1>3, <1>4, <1>5, <1>6, <1>7 DEF b

(***************************************************************************)
(* Onions: reading.                                                        *)
(***************************************************************************)
LEMMA CoveredUnits ==
  ASSUME NEW v, NEW units, IsList(units)
  PROVE  LET front == Covered(v, units)
         IN  /\ IsList(front) /\ Len(front) = 2 + Len(units) /\ Len(units) \in Nat
             /\ front[1] = Onions!Num(v) /\ front[2] = Onions!Point
             /\ Onions!After(front, 2) = units
<1>1. /\ IsList(Opening(v)) /\ Len(Opening(v)) = 2
      /\ Opening(v)[1] = Onions!Num(v) /\ Opening(v)[2] = Onions!Point
  BY Tuples DEF Opening
<1>2. /\ IsList(Covered(v, units)) /\ Len(Covered(v, units)) = 2 + Len(units)
      /\ Len(units) \in Nat
  BY <1>1, JoinIsList DEF Covered
<1>3. \A j \in 1..2 : Covered(v, units)[j] = Opening(v)[j]
  BY <1>1, JoinUnits DEF Covered
<1>4. Onions!After(Covered(v, units), 2) = units
  BY <1>1, JoinParts DEF Covered
<1> QED
  BY <1>1, <1>2, <1>3, <1>4

LEMMA CoveredVersion ==
  ASSUME NEW v, NEW w, NEW units, IsList(units), Covered(v, units) = Covered(w, units)
  PROVE  v = w
<1>1. Covered(v, units)[1] = Onions!Num(v) /\ Covered(w, units)[1] = Onions!Num(w)
  BY CoveredUnits
<1>2. Onions!Num(v) = Onions!Num(w)
  BY <1>1
<1> QED
  BY <1>2 DEF Onions!Num

(* The layers of an onion: a list of units for every hop, none behind the  *)
(* last.                                                                   *)
LEMMA LayerFacts2 ==
  ASSUME NEW r, IsRoute(r), NEW v, NEW f, Layers2(r, v, f, 1), NEW k \in 1..Len(r)
  PROVE  /\ IsList(f[k]) /\ IsList(f[k + 1]) /\ Len(f[k]) > 0 /\ Len(f[k]) \in Nat
         /\ f[k + 1] = <<>> <=> k = Len(r)
         /\ f[k] = Payload2(r[k], Seal(v, f, k + 1, Len(r)), f[k + 1])
         /\ Seal(v, f, k, Len(r)) = Onions!Hmac(k, Covered(v, f[k]))
<1> DEFINE n == Len(r)
<1>1. n \in Nat /\ k \in 1..n /\ 1 \in 1..n
  BY RouteAssumption DEF IsRoute
<1>2. ASSUME NEW m \in 1..n + 1 PROVE IsList(f[m])
  <2>1. CASE m = n + 1
    <3>1. f[m] = <<>>
      BY <2>1 DEF Layers2
    <3> QED
      BY <3>1, Lists
  <2>2. CASE m # n + 1
    <3>1. m \in 1..n
      BY <1>1, <2>2
    <3> QED
      BY <3>1 DEF Layers2
  <2> QED
    BY <2>1, <2>2
<1>3. ASSUME NEW m \in 1..n PROVE Len(f[m]) > 0
  <2>1. IsList(r[m]) /\ Len(r[m]) \in DataLens
    BY DEF IsRoute
  <2>2. m + 1 \in 1..n + 1
    BY <1>1
  <2>3. IsList(f[m + 1])
    BY <1>2, <2>2
  <2>4. f[m] = Payload2(r[m], Seal(v, f, m + 1, n), f[m + 1])
    BY DEF Layers2
  <2> QED
    BY <2>1, <2>3, <2>4, Payloads
<1>4. k + 1 \in 1..n + 1 /\ k \in 1..n + 1 /\ k # n + 1 /\ (k # n => k + 1 \in 1..n)
  BY <1>1
<1>5. f[k + 1] = <<>> <=> k = n
  <2>1. k = n => f[k + 1] = <<>>
    BY DEF Layers2
  <2>2. k # n => Len(f[k + 1]) > 0
    BY <1>3, <1>4
  <2>3. ~ (Len(<<>>) > 0)
    OBVIOUS
  <2> QED
    BY <2>1, <2>2, <2>3
<1>6. f[k] = Payload2(r[k], Seal(v, f, k + 1, n), f[k + 1])
  BY DEF Layers2
<1>7. Seal(v, f, k, n) = Onions!Hmac(k, Covered(v, f[k]))
  BY <1>4 DEF Seal
<1>8. IsList(f[k]) /\ IsList(f[k + 1]) /\ Len(f[k]) > 0
  BY <1>2, <1>3, <1>4
<1> QED
  BY <1>5, <1>6, <1>7, <1>8 DEF IsList

(* What a hop of ex2 cuts off the units it was sent.                       *)
CutsOff(front, width, bytes, seal, after) ==
  LET len == Len(bytes)
  IN  /\ Onions!BigSizes(Onions!After(front, 2)) = {<<len, width>>}
      /\ len \in Nat /\ ~ (len + 1 > Len(Onions!After(front, 2 + width)))
      /\ First(Onions!After(front, 2 + width), len) = bytes
      /\ Onions!After(front, 2 + width)[len + 1] = seal
      /\ Onions!After(Onions!After(front, 2 + width), len + 1) = after

(* Hop k of ex2, once the HMAC is right: one length is read, the one of    *)
(* its data, and what it cuts off are the data and the next packet.        *)
LEMMA HopReads2 ==
  ASSUME NEW r, IsRoute(r), NEW v, NEW f, Layers2(r, v, f, 1), NEW k \in 1..Len(r)
  PROVE  \E width : CutsOff(Covered(v, f[k]), width, r[k],
                            Seal(v, f, k + 1, Len(r)), f[k + 1])
<1> DEFINE bytes == r[k]  len == Len(bytes)  size == Onions!BigSize(len)
           seal == Seal(v, f, k + 1, Len(r))  after == f[k + 1]
           last == Join(One(seal), after)  behind == Join(bytes, last)
           width == Len(size)  front == Covered(v, f[k])
<1>1. /\ IsList(bytes) /\ len \in DataLens /\ IsList(after)
      /\ f[k] = Payload2(bytes, seal, after)
  BY LayerFacts2 DEF IsRoute
<1>2. IsList(f[k])
  BY LayerFacts2
<1> HIDE DEF bytes, seal, after
<1>3. IsList(last) /\ IsList(behind) /\ Payload2(bytes, seal, after) = Join(size, behind)
  BY <1>1, Payloads
<1> HIDE DEF len
<1>4. IsList(size) /\ len \in Nat
  BY <1>1, SizeIsFound
<1>5. Onions!BigSizes(f[k]) = {<<len, width>>}
  <2>1. f[k] = Join(size, behind)
    BY <1>1, <1>3
  <2> HIDE DEF behind
  <2> QED
    BY <1>1, <1>3, <2>1, SizeIsFound
<1> HIDE DEF behind, size
<1>6. Onions!After(front, 2) = f[k]
  BY <1>2, CoveredUnits
<1>7. Onions!After(front, 2 + width) = behind
  <2>1. IsList(Opening(v)) /\ Len(Opening(v)) = 2
    BY Tuples DEF Opening
  <2>2. front = Join(Opening(v), Join(size, behind))
    BY <1>1, <1>3 DEF Covered
  <2> HIDE DEF front
  <2>3. front = Join(Join(Opening(v), size), behind)
    BY <1>3, <1>4, <2>1, <2>2, JoinAgain
  <2>4. IsList(Join(Opening(v), size)) /\ Len(Join(Opening(v), size)) = 2 + width
    BY <1>4, <2>1, JoinIsList
  <2> QED
    BY <1>3, <2>3, <2>4, JoinParts
<1>8. First(behind, len) = bytes
  BY <1>1, <1>3, JoinParts DEF behind, len
<1>9. IsList(One(seal)) /\ Len(One(seal)) = 1 /\ One(seal)[1] = seal
  BY Single
<1>10. Len(last) = 1 + Len(after) /\ Len(after) \in Nat
  BY <1>1, <1>9, JoinIsList
<1>11. last[1] = seal
  <2> DEFINE one == One(seal)
  <2>1. IsList(one) /\ 1 \in 1..Len(one)
    BY <1>9
  <2> HIDE DEF one
  <2>2. Join(one, after)[1] = one[1]
    BY <1>1, <2>1, JoinUnits
  <2> QED
    BY <1>9, <2>2 DEF one
<1>12. Len(behind) = len + Len(last)
  BY <1>1, <1>3, JoinIsList DEF behind, len
<1>13. behind[len + 1] = seal
  <2>1. 1 \in 1..Len(last)
    BY <1>10
  <2> HIDE DEF last
  <2>2. behind[len + 1] = last[1]
    BY <1>1, <1>3, <2>1, JoinUnits DEF behind, len
  <2> QED
    BY <1>11, <2>2
<1>14. Onions!After(behind, len + 1) = after
  <2>1. behind = Join(Join(bytes, One(seal)), after)
    BY <1>1, <1>9, JoinAgain DEF behind
  <2>2. IsList(Join(bytes, One(seal))) /\ Len(Join(bytes, One(seal))) = len + 1
    BY <1>1, <1>9, JoinIsList DEF len
  <2> QED
    BY <1>1, <2>1, <2>2, JoinParts
<1>15. ~ (len + 1 > Len(behind))
  BY <1>4, <1>10, <1>12
<1> HIDE DEF front, width
<1>16. /\ Onions!BigSizes(Onions!After(front, 2)) = {<<len, width>>}
       /\ len \in Nat /\ ~ (len + 1 > Len(Onions!After(front, 2 + width)))
       /\ First(Onions!After(front, 2 + width), len) = bytes
       /\ Onions!After(front, 2 + width)[len + 1] = seal
       /\ Onions!After(Onions!After(front, 2 + width), len + 1) = after
  BY <1>4, <1>5, <1>6, <1>7, <1>8, <1>13, <1>14, <1>15
<1>17. CutsOff(front, width, bytes, seal, after)
  BY <1>16 DEF CutsOff, len
<1> QED
  BY <1>17 DEF bytes, seal, after, front

(* A list without its first unit, and with one unit replaced.              *)
LEMMA TailOfList ==
  ASSUME NEW s, IsList(s), Len(s) > 0
  PROVE  Tail(s) = Onions!After(s, 1)
<1> DEFINE t == SubSeq(s, 2, Len(s))  S == {s[j] : j \in 1..Len(s)}
<1>1. /\ IsList(t) /\ Len(t) = Len(s) - 2 + 1
      /\ \A j \in 1..Len(s) - 2 + 1 : t[j] = s[2 + j - 1]
  BY Cut DEF IsList
<1>2. s \in Seq(S) /\ s # <<>>
  <2>1. s \in Seq(S)
    BY ListIsSeq
  <2>2. ~ (Len(<<>>) > 0)
    OBVIOUS
  <2> QED
    BY <2>1, <2>2
<1> HIDE DEF S
<1>3. Tail(s) \in Seq(S) /\ Len(Tail(s)) = Len(s) - 1
  BY <1>2
<1>4. \A j \in 1..Len(s) - 1 : Tail(s)[j] = s[j + 1]
  BY <1>2
<1>5. IsList(Tail(s))
  BY <1>3, SeqIsList
<1> HIDE DEF t
<1>6. Len(s) \in Nat
  BY DEF IsList
<1>7. Len(t) = Len(Tail(s)) /\ \A j \in 1..Len(t) : t[j] = Tail(s)[j]
  BY <1>1, <1>3, <1>4, <1>6
<1>8. t = Tail(s)
  BY <1>1, <1>5, <1>7, Same
<1> QED
  BY <1>8 DEF t, Onions!After

LEMMA ReplacedUnit ==
  ASSUME NEW s, IsList(s), NEW e \in 1..Len(s), NEW unit, unit # s[e]
  PROVE  LET t == [s EXCEPT ![e] = unit]
         IN  /\ IsList(t) /\ Len(t) = Len(s) /\ t # s /\ t[e] = unit
             /\ \A j \in 1..Len(s) : j # e => t[j] = s[j]
<1> DEFINE t == [s EXCEPT ![e] = unit]  n == Len(s)  S == {s[j] : j \in 1..n} \cup {unit}
<1>1. n \in Nat /\ s = [j \in 1..n |-> s[j]]
  BY DEF IsList
<1>2. s \in Seq(S) /\ unit \in S
  <2>1. s \in Seq({s[j] : j \in 1..n})
    BY ListIsSeq
  <2> QED
    BY <2>1
<1> HIDE DEF S
<1>3. t \in Seq(S) /\ Len(t) = n
  BY <1>2
<1>4. IsList(t)
  BY <1>3, SeqIsList
<1>5. t[e] = unit /\ \A j \in 1..n : j # e => t[j] = s[j]
  BY <1>1
<1> QED
  BY <1>3, <1>4, <1>5

(* The keys that hop k finds, and the nodes that build has left.           *)
Keys(k, n) == [j \in 1..n - k + 1 |-> k + j - 1]
Ids(m) == [j \in 1..m |-> j]

LEMMA KeysLeft ==
  ASSUME NEW n \in Nat, NEW k \in 1..n
  PROVE  Keys(k, n) # <<>> /\ Keys(k, n)[1] = k /\ Tail(Keys(k, n)) = Keys(k + 1, n)
<1> DEFINE s == Keys(k, n)  t == Keys(k + 1, n)
<1>1. k \in Nat /\ k <= n /\ n - k + 1 \in Nat /\ n - k \in Nat /\ n - (k + 1) + 1 = n - k
  OBVIOUS
<1>2. s \in Seq(Int) /\ Len(s) = n - k + 1 /\ \A j \in 1..n - k + 1 : s[j] = k + j - 1
  BY <1>1 DEF Keys
<1>3. t \in Seq(Int) /\ Len(t) = n - k /\ \A j \in 1..n - k : t[j] = k + j
  BY <1>1 DEF Keys
<1> HIDE DEF s, t
<1>4. s # <<>> /\ s[1] = k
  BY <1>1, <1>2
<1>5. /\ Tail(s) \in Seq(Int) /\ Len(Tail(s)) = n - k
      /\ \A j \in 1..n - k : Tail(s)[j] = s[j + 1]
  BY <1>1, <1>2, <1>4
<1>6. \A j \in 1..n - k : Tail(s)[j] = t[j]
  BY <1>1, <1>2, <1>3, <1>5
<1>7. Tail(s) = t
  BY <1>3, <1>5, <1>6, SeqIsList, Same
<1> QED
  BY <1>4, <1>7 DEF s, t

LEMMA IdsLeft ==
  ASSUME NEW n \in Nat \ {0}
  PROVE  Onions!Last(Ids(n)) = n /\ Onions!Front(Ids(n)) = Ids(n - 1)
<1> DEFINE s == Ids(n)  t == Ids(n - 1)  u == SubSeq(s, 1, n - 1)
<1>1. IsList(s) /\ Len(s) = n /\ \A j \in 1..n : s[j] = j
  BY DEF Ids, IsList
<1>2. IsList(t) /\ Len(t) = n - 1 /\ \A j \in 1..n - 1 : t[j] = j
  BY DEF Ids, IsList
<1> HIDE DEF s, t
<1>3. /\ IsList(u) /\ Len(u) = (n - 1) - 1 + 1
      /\ \A j \in 1..(n - 1) - 1 + 1 : u[j] = s[1 + j - 1]
  BY <1>1, Cut
<1> HIDE DEF u
<1>4. Len(u) = n - 1 /\ \A j \in 1..n - 1 : u[j] = t[j]
  BY <1>1, <1>2, <1>3
<1>5. u = t
  BY <1>2, <1>3, <1>4, Same
<1> QED
  BY <1>1, <1>5 DEF s, t, u, Onions!Last, Onions!Front

LEMMA LayerFacts1 ==
  ASSUME NEW r, IsRoute(r), NEW f, Layers1(r, f, 1), NEW k \in 1..Len(r)
  PROVE  /\ IsList(f[k]) /\ IsList(f[k + 1]) /\ Len(f[k]) > 0
         /\ Len(f[k + 1]) = 0 <=> k = Len(r)
         /\ f[k] = Payload1(r[k], f[k + 1])
<1> DEFINE n == Len(r)
<1>1. n \in Nat /\ k \in 1..n /\ 1 \in 1..n
  BY RouteAssumption DEF IsRoute
<1>2. ASSUME NEW m \in 1..n + 1 PROVE IsList(f[m])
  <2>1. CASE m = n + 1
    <3>1. f[m] = <<>>
      BY <2>1 DEF Layers1
    <3> QED
      BY <3>1, Lists
  <2>2. CASE m # n + 1
    <3>1. m \in 1..n
      BY <1>1, <2>2
    <3> QED
      BY <3>1 DEF Layers1
  <2> QED
    BY <2>1, <2>2
<1>3. ASSUME NEW m \in 1..n PROVE Len(f[m]) > 0
  <2>1. IsList(r[m]) /\ Len(r[m]) \in DataLens
    BY DEF IsRoute
  <2>2. m + 1 \in 1..n + 1
    BY <1>1
  <2>3. IsList(f[m + 1])
    BY <1>2, <2>2
  <2>4. f[m] = Payload1(r[m], f[m + 1])
    BY DEF Layers1
  <2> QED
    BY <2>1, <2>3, <2>4, Payloads
<1>4. k + 1 \in 1..n + 1 /\ k \in 1..n + 1 /\ (k # n => k + 1 \in 1..n)
  BY <1>1
<1>5. Len(f[k + 1]) = 0 <=> k = n
  <2>1. k = n => f[k + 1] = <<>>
    BY DEF Layers1
  <2>2. k # n => Len(f[k + 1]) > 0
    BY <1>3, <1>4
  <2>3. Len(<<>>) = 0
    OBVIOUS
  <2> QED
    BY <2>1, <2>2, <2>3
<1>6. f[k] = Payload1(r[k], f[k + 1])
  BY DEF Layers1
<1> QED
  BY <1>2, <1>3, <1>4, <1>5, <1>6

(* Hop k of ex1, when nothing was damaged and its length fits in a byte.   *)
LEMMA HopReads1 ==
  ASSUME NEW r, IsRoute(r), NEW v, NEW f, Layers1(r, f, 1), NEW k \in 1..Len(r),
         Len(r[k]) < Limit
  PROVE  LET whole == Join(One(v), f[k])
             len   == Len(r[k])
             rest  == Onions!After(whole, 2)
         IN  /\ Onions!UInt8s(Tail(whole)) = {<<len, 1>>}
             /\ ~ (len > Len(rest)) /\ First(rest, len) = r[k] /\ whole[1] = v
             /\ Len(rest) = len <=> k = Len(r)
             /\ Onions!After(rest, len) = f[k + 1]
<1> DEFINE bytes == r[k]  len == Len(bytes)  size == Onions!BigSize(len)
           after == f[k + 1]  behind == Join(bytes, after)
           whole == Join(One(v), f[k])
<1>1. IsList(bytes) /\ len \in DataLens /\ IsList(after) /\ f[k] = Payload1(bytes, after)
  BY LayerFacts1 DEF IsRoute
<1>2. IsList(f[k]) /\ Len(f[k]) > 0 /\ (Len(after) = 0 <=> k = Len(r))
  BY LayerFacts1
<1>3. len < Limit
  OBVIOUS
<1> HIDE DEF bytes, after
<1>4. IsList(behind) /\ Payload1(bytes, after) = Join(size, behind)
  BY <1>1, Payloads
<1> HIDE DEF len
<1>5. IsList(size) /\ len \in Nat /\ Len(size) = 1
  BY <1>1, <1>3, SizeIsFound
<1>6. Onions!UInt8s(f[k]) = {<<len, 1>>}
  <2>1. f[k] = Join(size, behind)
    BY <1>1, <1>4
  <2> HIDE DEF behind
  <2> QED
    BY <1>1, <1>3, <1>4, <2>1, SizeIsFound
<1> HIDE DEF behind, size
<1>7. IsList(One(v)) /\ Len(One(v)) = 1 /\ One(v)[1] = v
  BY Single
<1>8. Onions!After(whole, 1) = f[k]
  BY <1>2, <1>7, JoinParts
<1>9. IsList(whole) /\ Len(whole) > 0
  <2>1. IsList(whole) /\ Len(whole) = 1 + Len(f[k]) /\ Len(f[k]) \in Nat
    BY <1>2, <1>7, JoinIsList
  <2> QED
    BY <2>1
<1>10. whole[1] = v
  <2> DEFINE one == One(v)
  <2>1. IsList(one) /\ 1 \in 1..Len(one)
    BY <1>7
  <2> HIDE DEF one
  <2>2. Join(one, f[k])[1] = one[1]
    BY <1>2, <2>1, JoinUnits
  <2> QED
    BY <1>7, <2>2 DEF one
<1>11. Onions!After(whole, 2) = behind
  <2>1. whole = Join(One(v), Join(size, behind))
    BY <1>1, <1>4
  <2> HIDE DEF whole
  <2>2. whole = Join(Join(One(v), size), behind)
    BY <1>4, <1>5, <1>7, <2>1, JoinAgain
  <2>3. IsList(Join(One(v), size)) /\ Len(Join(One(v), size)) = 2
    <3> DEFINE one == One(v)
    <3>1. IsList(one) /\ Len(one) = 1
      BY <1>7
    <3> HIDE DEF one
    <3>2. IsList(Join(one, size)) /\ Len(Join(one, size)) = Len(one) + Len(size)
      BY <1>5, <3>1, JoinIsList
    <3> QED
      BY <1>5, <3>1, <3>2 DEF one
  <2> QED
    BY <1>4, <2>2, <2>3, JoinParts
<1> HIDE DEF whole
<1>12. Onions!UInt8s(Tail(whole)) = {<<len, 1>>}
  BY <1>6, <1>8, <1>9, TailOfList
<1>13. First(behind, len) = bytes /\ Onions!After(behind, len) = after
  BY <1>1, JoinParts DEF behind, len
<1>14. Len(behind) = len + Len(after) /\ Len(after) \in Nat
  BY <1>1, JoinIsList DEF behind, len
<1>15. ~ (len > Len(behind)) /\ (Len(behind) = len <=> k = Len(r))
  BY <1>2, <1>5, <1>14
<1> QED
  BY <1>10, <1>11, <1>12, <1>13, <1>15 DEF whole, bytes, after, len

(***************************************************************************)
(* Onions: the invariant.                                                  *)
(***************************************************************************)
OnionTypes ==
  /\ onion \in {"ex1", "ex2"} /\ version \in Versions /\ IsRoute(route)
  /\ phase \in {"building", "reading", "done", "threw"} /\ damaged \in BOOLEAN
  /\ phase # "building" => info = <<>>
  /\ onion = "ex2" /\ phase # "building" => nodeIds = <<>>

(* The layers from hop m on are built.                                     *)
BuiltFrom(m, f) ==
  /\ info = First(route, m - 1) /\ lastPayload = f[m]
  /\ onion = "ex1" => Layers1(route, f, m)
  /\ onion = "ex2" => /\ Layers2(route, version, f, m) /\ nodeIds = Ids(m - 1)
                      /\ lastHmac = Seal(version, f, m, Len(route))
                      /\ m <= Len(route) => packet = Covered(version, f[m])

OnionBuilding ==
  phase = "building" =>
    /\ ~damaged /\ read = <<>> /\ nodeKeys = Keys(1, Len(route))
    /\ \E m \in 1..Len(route) + 1 : \E f : BuiltFrom(m, f)

(* Hop k is next.                                                          *)
NextOf1(k, f) ==
  /\ Layers1(route, f, 1) /\ read = First(route, k - 1)
  /\ packet = Join(One(Onions!Num(version)), f[k])

NextOf2(k, f) ==
  LET intact == Intact(version, f, k, Len(route))
      last   == packet[Len(packet)]
  IN  /\ Layers2(route, version, f, 1) /\ read = First(route, k - 1)
      /\ nodeKeys = Keys(k, Len(route))
      /\ IsList(packet) /\ Len(packet) > 0
      /\ last[1] = "hmac" => last = Seal(version, f, k, Len(route))
      /\ ~damaged => packet = intact /\ (version # 0 => k <= 2)
      /\ damaged /\ (version = 0 \/ k = 1) => packet # intact

OnionReading1 ==
  phase = "reading" /\ onion = "ex1" /\ ~damaged /\ Onions!OneByteLengths =>
    \E k \in 1..Len(route) : \E f : NextOf1(k, f)
OnionReading2 ==
  phase = "reading" /\ onion = "ex2" =>
    \E k \in 1..Len(route) : \E f : NextOf2(k, f)

OnionInv ==
  /\ OnionTypes /\ OnionBuilding /\ OnionReading1 /\ OnionReading2
  /\ Onions!HopsReadTheirData /\ Onions!ThrowsForAReason

LEMMA RouteBeginnings ==
  ASSUME NEW r, IsRoute(r)
  PROVE  /\ Len(r) \in Nat \ {0} /\ First(r, 0) = <<>> /\ First(r, Len(r)) = r
         /\ \A k \in 0..Len(r) : /\ Len(First(r, k)) = k
                                 /\ Onions!IsPrefixOf(First(r, k), r)
         /\ \A k \in 1..Len(r) : /\ Append(First(r, k - 1), r[k]) = First(r, k)
                                 /\ Onions!Last(First(r, k)) = r[k]
                                 /\ Onions!Front(First(r, k)) = First(r, k - 1)
                                 /\ First(r, k) # <<>>
<1>1. IsList(r) /\ Len(r) \in Nat \ {0}
  BY RouteAssumption DEF IsRoute
<1>2. /\ First(r, 0) = <<>> /\ First(r, Len(r)) = r
      /\ \A k \in 0..Len(r) : /\ Len(First(r, k)) = k
                              /\ Onions!IsPrefixOf(First(r, k), r)
      /\ \A k \in 1..Len(r) : /\ Append(First(r, k - 1), r[k]) = First(r, k)
                              /\ Onions!Last(First(r, k)) = r[k]
                              /\ Onions!Front(First(r, k)) = First(r, k - 1)
  BY <1>1, Beginnings DEF First
<1>3. ASSUME NEW k \in 1..Len(r) PROVE First(r, k) # <<>>
  <2>1. Len(First(r, k)) = k
    BY <1>1, <1>2
  <2>2. Len(<<>>) = 0
    OBVIOUS
  <2> QED
    BY <1>1, <2>1, <2>2
<1> QED
  BY <1>1, <1>2, <1>3

LEMMA OnionTypesHold ==
  ASSUME OnionInv PROVE Onions!TypeOK
<1>1. OnionTypes /\ IsRoute(route)
  BY DEF OnionInv, OnionTypes
<1>2. Len(route) \in Nat \ {0} /\ Len(<<>>) = 0
  BY <1>1, RouteBeginnings
<1>3. Len(info) <= Len(route) /\ (onion = "ex2" => Len(nodeIds) = Len(info))
  <2>1. CASE phase = "building"
    <3>1a. PICK m \in 1..Len(route) + 1 : \E f : BuiltFrom(m, f)
      BY <2>1 DEF OnionInv, OnionBuilding
    <3>1. PICK f : BuiltFrom(m, f)
      BY <3>1a
    <3>2. m - 1 \in 0..Len(route) /\ m - 1 \in Nat
      BY <1>2
    <3>3. Len(info) = m - 1
      BY <1>1, <3>1, <3>2, RouteBeginnings DEF BuiltFrom
    <3>4. onion = "ex2" => Len(nodeIds) = m - 1
      BY <3>1, <3>2 DEF BuiltFrom, Ids
    <3> QED
      BY <1>2, <3>2, <3>3, <3>4
  <2>2. CASE phase # "building"
    BY <1>1, <1>2, <2>2 DEF OnionTypes
  <2> QED
    BY <2>1, <2>2
<1>4. onion = "ex2" /\ phase = "reading" => nodeKeys # <<>>
  <2> SUFFICES ASSUME onion = "ex2" /\ phase = "reading" PROVE nodeKeys # <<>>
    OBVIOUS
  <2>1a. PICK k \in 1..Len(route) : \E f : NextOf2(k, f)
    BY DEF OnionInv, OnionReading2
  <2>1. PICK f : NextOf2(k, f)
    BY <2>1a
  <2> QED
    BY <1>2, <2>1, KeysLeft DEF NextOf2
<1> QED
  BY <1>1, <1>3, <1>4 DEF OnionTypes, IsRoute, Onions!TypeOK

LEMMA OnionStarts ==
  ASSUME Onions!Init PROVE OnionInv
<1>0. PICK hops \in 1..MaxHops : \E lens \in [1..hops -> DataLens] :
        route = [hop \in 1..hops |-> Onions!HopData(hop, lens[hop])]
  BY DEF Onions!Init
<1>1. PICK lens \in [1..hops -> DataLens] :
        route = [hop \in 1..hops |-> Onions!HopData(hop, lens[hop])]
  BY <1>0
<1>2. IsRoute(route) /\ Len(route) = hops
  <2>1. hops \in Nat
    BY RouteAssumption
  <2>2. IsList(route) /\ Len(route) = hops
    BY <1>1, <2>1 DEF IsList
  <2>3. ASSUME NEW k \in 1..hops PROVE IsList(route[k]) /\ Len(route[k]) \in DataLens
    <3>1. lens[k] \in DataLens /\ lens[k] \in Nat
      BY RouteAssumption
    <3>2. route[k] = Onions!HopData(k, lens[k])
      BY <1>1
    <3>3. \A hop : \A len \in Nat : /\ IsList(Onions!HopData(hop, len))
                                    /\ Len(Onions!HopData(hop, len)) = len
      BY DEF Onions!HopData, IsList
    <3> QED
      BY <3>1, <3>2, <3>3
  <2> QED
    BY <2>1, <2>2, <2>3 DEF IsRoute
<1> DEFINE n == Len(route)  f == [k \in {n + 1} |-> <<>>]
<1>3. n \in Nat \ {0} /\ First(route, n) = route
  BY <1>2, RouteBeginnings
<1>4. f[n + 1] = <<>> /\ \A k \in n + 1..n : FALSE
  BY <1>3
<1> HIDE DEF f
<1>5. /\ info = route /\ lastPayload = <<>> /\ nodeIds = Ids(n) /\ nodeKeys = Ids(n)
      /\ lastHmac = Onions!Zeros /\ read = <<>> /\ phase = "building" /\ ~damaged
      /\ onion \in {"ex1", "ex2"} /\ version \in Versions /\ damaged \in BOOLEAN
  BY DEF Onions!Init, Ids
<1>6. Layers1(route, f, n + 1) /\ Layers2(route, version, f, n + 1)
  BY <1>4 DEF Layers1, Layers2
<1>7. BuiltFrom(n + 1, f)
  <2>1. (n + 1) - 1 = n /\ ~ (n + 1 <= n)
    BY <1>3
  <2> QED
    BY <1>3, <1>4, <1>5, <1>6, <2>1 DEF BuiltFrom, Seal
<1>8. n + 1 \in 1..n + 1
  BY <1>3
<1>9. nodeKeys = Keys(1, n)
  <2>1. n - 1 + 1 = n /\ \A j \in 1..n : 1 + j - 1 = j
    BY <1>3
  <2> QED
    BY <1>5, <2>1 DEF Keys, Ids
<1>10. OnionBuilding
  BY <1>5, <1>7, <1>8, <1>9 DEF OnionBuilding
<1>11. Onions!HopsReadTheirData
  <2>1. Onions!IsPrefixOf(<<>>, route)
    <3>1. First(route, 0) = <<>> /\ 0 \in 0..n
      BY <1>2, <1>3, RouteBeginnings
    <3> QED
      BY <1>2, <3>1, RouteBeginnings
  <2> QED
    BY <1>5, <2>1 DEF Onions!HopsReadTheirData
<1> QED
  BY <1>2, <1>5, <1>10, <1>11
  DEF OnionInv, OnionTypes, OnionReading1, OnionReading2, Onions!ThrowsForAReason

(* While it is built, the rest of the invariant has nothing to say.        *)
LEMMA StillBuilding ==
  ASSUME OnionInv, phase = "building", phase' = "building", OnionBuilding',
         UNCHANGED <<onion, version, route, read, damaged>>
  PROVE  OnionInv'
<1>1. OnionTypes'
  BY DEF OnionInv, OnionTypes, IsRoute
<1>2. OnionReading1' /\ OnionReading2' /\ Onions!ThrowsForAReason'
  BY DEF OnionReading1, OnionReading2, Onions!ThrowsForAReason
<1>3. Onions!HopsReadTheirData'
  <2>1. Onions!OneByteLengths' <=> Onions!OneByteLengths
    BY DEF Onions!OneByteLengths
  <2> QED
    BY <2>1 DEF OnionInv, Onions!HopsReadTheirData, Onions!IsPrefixOf
<1> QED
  BY <1>1, <1>2, <1>3 DEF OnionInv

(* A turn of the loop of build: hop m - 1 is popped.                       *)
LEMMA HopIsPopped ==
  ASSUME OnionInv, phase = "building", info # <<>>
  PROVE  \E m \in 2..Len(route) + 1 : \E f :
           /\ BuiltFrom(m, f) /\ m - 1 \in 1..Len(route)
           /\ Onions!Last(info) = route[m - 1]
           /\ Onions!Front(info) = First(route, (m - 1) - 1)
<1>1a. PICK m \in 1..Len(route) + 1 : \E f : BuiltFrom(m, f)
  BY DEF OnionInv, OnionBuilding
<1>1. PICK f : BuiltFrom(m, f)
  BY <1>1a
<1>2. IsRoute(route) /\ Len(route) \in Nat \ {0}
  BY RouteBeginnings DEF OnionInv, OnionTypes
<1>3. m # 1
  <2> SUFFICES ASSUME m = 1 PROVE FALSE
    OBVIOUS
  <2>1. m - 1 = 0
    OBVIOUS
  <2>2. info = First(route, 0)
    BY <1>1, <2>1 DEF BuiltFrom
  <2> QED
    BY <1>2, <2>2, RouteBeginnings
<1>4. m \in 2..Len(route) + 1 /\ m - 1 \in 1..Len(route)
  BY <1>2, <1>3
<1>5. info = First(route, m - 1)
  BY <1>1 DEF BuiltFrom
<1>6. /\ Onions!Last(First(route, m - 1)) = route[m - 1]
      /\ Onions!Front(First(route, m - 1)) = First(route, (m - 1) - 1)
  BY <1>2, <1>4, RouteBeginnings
<1> QED
  BY <1>1, <1>4, <1>5, <1>6

LEMMA Build1Step ==
  ASSUME OnionInv, Onions!Build1 PROVE OnionInv'
<1>1. /\ onion = "ex1" /\ phase = "building" /\ info # <<>>
      /\ info' = Onions!Front(info)
      /\ lastPayload' =
           (Onions!BigSize(Len(Onions!Last(info))) \o Onions!Last(info)) \o lastPayload
      /\ UNCHANGED <<onion, version, route, read, damaged, nodeKeys, phase>>
  BY DEF Onions!Build1, Onions!fixed
<1>2a. PICK m \in 2..Len(route) + 1 : \E f :
        /\ BuiltFrom(m, f) /\ m - 1 \in 1..Len(route)
        /\ Onions!Last(info) = route[m - 1]
        /\ Onions!Front(info) = First(route, (m - 1) - 1)
  BY <1>1, HopIsPopped
<1>2. PICK f :
        /\ BuiltFrom(m, f) /\ m - 1 \in 1..Len(route)
        /\ Onions!Last(info) = route[m - 1]
        /\ Onions!Front(info) = First(route, (m - 1) - 1)
  BY <1>2a
<1>3. IsRoute(route) /\ Len(route) \in Nat \ {0}
  BY RouteBeginnings DEF OnionInv, OnionTypes
<1>4. Layers1(route, f, m) /\ lastPayload = f[m]
  BY <1>1, <1>2 DEF BuiltFrom
<1>5. PICK e : Layers1(route, e, m - 1) /\ e[m - 1] = Payload1(route[m - 1], f[m])
  BY <1>3, <1>4, WrapLayer1
<1>6. lastPayload' = e[m - 1]
  BY <1>1, <1>2, <1>4, <1>5 DEF Payload1, Join
<1>7. BuiltFrom(m - 1, e)'
  BY <1>1, <1>2, <1>5, <1>6 DEF BuiltFrom
<1>8. m - 1 \in 1..Len(route) + 1
  BY <1>3
<1>9. OnionBuilding'
  BY <1>1, <1>7, <1>8 DEF OnionInv, OnionBuilding
<1> QED
  BY <1>1, <1>9, StillBuilding

LEMMA Build2Step ==
  ASSUME OnionInv, Onions!Build2 PROVE OnionInv'
<1>1. /\ onion = "ex2" /\ phase = "building" /\ info # <<>>
      /\ info' = Onions!Front(info) /\ nodeIds' = Onions!Front(nodeIds)
      /\ lastPayload' = ((Onions!BigSize(Len(Onions!Last(info))) \o Onions!Last(info))
                           \o <<lastHmac>>) \o lastPayload
      /\ packet' = Opening(version) \o lastPayload'
      /\ lastHmac' = Onions!Hmac(Onions!Last(nodeIds), packet')
      /\ UNCHANGED <<onion, version, route, read, damaged, nodeKeys, phase>>
  BY DEF Onions!Build2, Onions!fixed, Onions!HopPayload, Opening
<1>2a. PICK m \in 2..Len(route) + 1 : \E f :
        /\ BuiltFrom(m, f) /\ m - 1 \in 1..Len(route)
        /\ Onions!Last(info) = route[m - 1]
        /\ Onions!Front(info) = First(route, (m - 1) - 1)
  BY <1>1, HopIsPopped
<1>2. PICK f :
        /\ BuiltFrom(m, f) /\ m - 1 \in 1..Len(route)
        /\ Onions!Last(info) = route[m - 1]
        /\ Onions!Front(info) = First(route, (m - 1) - 1)
  BY <1>2a
<1> DEFINE n == Len(route)
<1>3. IsRoute(route) /\ n \in Nat \ {0} /\ m - 1 \in Nat \ {0} /\ m - 1 # n + 1
  BY <1>2, RouteBeginnings DEF OnionInv, OnionTypes
<1>4. /\ Layers2(route, version, f, m) /\ lastPayload = f[m]
      /\ nodeIds = Ids(m - 1) /\ lastHmac = Seal(version, f, m, n)
  BY <1>1, <1>2 DEF BuiltFrom
<1>5. PICK e : /\ Layers2(route, version, e, m - 1)
               /\ e[m - 1] = Payload2(route[m - 1], Seal(version, f, m, n), f[m])
  BY <1>3, <1>4, WrapLayer2
<1>6. lastPayload' = e[m - 1]
  BY <1>1, <1>2, <1>4, <1>5 DEF Payload2, Join, One
<1>7. packet' = Covered(version, e[m - 1])
  BY <1>1, <1>6 DEF Covered, Join
<1>8. Onions!Last(nodeIds) = m - 1 /\ nodeIds' = Ids((m - 1) - 1)
  BY <1>1, <1>3, <1>4, IdsLeft
<1>9. lastHmac' = Seal(version, e, m - 1, n)
  BY <1>1, <1>3, <1>7, <1>8 DEF Seal
<1>10. BuiltFrom(m - 1, e)'
  BY <1>1, <1>2, <1>5, <1>6, <1>7, <1>8, <1>9 DEF BuiltFrom
<1>11. m - 1 \in 1..Len(route) + 1
  BY <1>3
<1>12. OnionBuilding'
  BY <1>1, <1>10, <1>11 DEF OnionInv, OnionBuilding
<1> QED
  BY <1>1, <1>12, StillBuilding

(* What holds once the onion is on its way.                                *)
LEMMA OnItsWay ==
  ASSUME OnionInv, phase' = "reading", UNCHANGED <<onion, version, route>>,
         damaged' \in BOOLEAN, info' = <<>>, onion = "ex2" => nodeIds' = <<>>,
         OnionReading1', OnionReading2'
  PROVE  OnionInv'
<1>1. OnionTypes'
  BY DEF OnionInv, OnionTypes, IsRoute
<1>2. OnionBuilding' /\ Onions!ThrowsForAReason'
  BY DEF OnionBuilding, Onions!ThrowsForAReason
<1>3. IsRoute(route)
  BY DEF OnionInv, OnionTypes
<1>4. Len(route) \in Nat \ {0}
  BY <1>3, RouteBeginnings
<1>5. ASSUME NEW k \in 1..Len(route)
      PROVE  Onions!IsPrefixOf(First(route, k - 1), route)
  <2>1. k - 1 \in 0..Len(route)
    BY <1>4
  <2> QED
    BY <1>3, <2>1, RouteBeginnings
<1>6. ASSUME onion = "ex2" \/ (~damaged' /\ Onions!OneByteLengths)
      PROVE  Onions!IsPrefixOf(read, route)'
  <2>1. onion \in {"ex1", "ex2"} /\ (Onions!OneByteLengths' <=> Onions!OneByteLengths)
    BY DEF OnionInv, OnionTypes, Onions!OneByteLengths
  <2>2. CASE onion = "ex2"
    <3>1a. PICK k \in 1..Len(route) : \E f : NextOf2(k, f)'
      BY <2>2 DEF OnionReading2
    <3>1. PICK f : NextOf2(k, f)'
      BY <3>1a
    <3>2. read' = First(route, k - 1)
      BY <3>1 DEF NextOf2
    <3> QED
      BY <1>5, <3>2 DEF Onions!IsPrefixOf
  <2>3. CASE onion = "ex1"
    <3>1a. PICK k \in 1..Len(route) : \E f : NextOf1(k, f)'
      BY <1>6, <2>1, <2>3 DEF OnionReading1
    <3>1. PICK f : NextOf1(k, f)'
      BY <3>1a
    <3>2. read' = First(route, k - 1)
      BY <3>1 DEF NextOf1
    <3> QED
      BY <1>5, <3>2 DEF Onions!IsPrefixOf
  <2> QED
    BY <2>1, <2>2, <2>3
<1>7. Onions!HopsReadTheirData'
  BY <1>6 DEF Onions!HopsReadTheirData, Onions!OneByteLengths
<1> QED
  BY <1>1, <1>2, <1>7 DEF OnionInv

(* A route that ended: the hops read what they should, or there is a       *)
(* reason.                                                                 *)
LEMMA RouteEnded ==
  ASSUME OnionInv, phase = "reading", phase' \in {"done", "threw"},
         UNCHANGED <<onion, version, route, info, nodeIds, damaged>>,
         Onions!HopsReadTheirData', Onions!ThrowsForAReason'
  PROVE  OnionInv'
<1>1. OnionTypes'
  BY DEF OnionInv, OnionTypes, IsRoute
<1>2. OnionBuilding' /\ OnionReading1' /\ OnionReading2'
  BY DEF OnionBuilding, OnionReading1, OnionReading2
<1> QED
  BY <1>1, <1>2 DEF OnionInv

(* A packet that build or the hop before put together.                     *)
LEMMA IntactPacket ==
  ASSUME NEW r, IsRoute(r), NEW v, NEW f, Layers2(r, v, f, 1), NEW k \in 1..Len(r)
  PROVE  LET whole == Intact(v, f, k, Len(r))
             front == Covered(IF k = 1 THEN v ELSE 0, f[k])
         IN  /\ IsList(whole) /\ Len(whole) > 0 /\ whole # <<>>
             /\ whole[Len(whole)] = Seal(v, f, k, Len(r))
             /\ whole[2] = Onions!Point /\ Onions!Front(whole) = front
             /\ whole = Append(front, Seal(v, f, k, Len(r)))
<1> DEFINE w == IF k = 1 THEN v ELSE 0
           front == Covered(w, f[k])  seal == Seal(v, f, k, Len(r))
           whole == Join(front, One(seal))
<1>1. IsList(f[k])
  BY LayerFacts2
<1> HIDE DEF w, seal
<1>2. /\ IsList(front) /\ Len(front) = 2 + Len(f[k]) /\ Len(f[k]) \in Nat
      /\ front[2] = Onions!Point
  BY <1>1, CoveredUnits
<1> HIDE DEF front
<1>3. /\ IsList(whole) /\ Len(whole) = Len(front) + 1 /\ Len(front) \in Nat
      /\ \A j \in 1..Len(front) : whole[j] = front[j]
      /\ whole[Len(whole)] = seal /\ Onions!Front(whole) = front
      /\ whole = Append(front, seal)
  BY <1>2, JoinEnd
<1> HIDE DEF whole
<1>4. Len(whole) > 0 /\ 2 \in 1..Len(front) /\ ~ (Len(<<>>) > 0)
  BY <1>2, <1>3
<1>5. whole = Intact(v, f, k, Len(r))
  BY DEF Intact, whole, front, w, seal
<1> DEFINE other == Intact(v, f, k, Len(r))
<1>6. whole = other
  BY <1>5
<1> HIDE DEF other
<1>7. /\ IsList(other) /\ Len(other) > 0 /\ other # <<>> /\ other[Len(other)] = seal
      /\ other[2] = Onions!Point /\ Onions!Front(other) = front
      /\ other = Append(front, seal)
  BY <1>2, <1>3, <1>4, <1>6
<1> QED
  BY <1>7 DEF other, front, w, seal

LEMMA NextPacket ==
  ASSUME IsRoute(route), UNCHANGED <<version, route>>, NEW f,
         Layers2(route, version, f, 1), NEW k \in 1..Len(route),
         packet' = Intact(version, f, k, Len(route)), read' = First(route, k - 1),
         nodeKeys' = Keys(k, Len(route)),
         ~damaged' /\ version # 0 => k <= 2, ~ (damaged' /\ (version = 0 \/ k = 1))
  PROVE  NextOf2(k, f)'
<1>1. IsList(packet') /\ Len(packet') > 0
      /\ packet'[Len(packet')] = Seal(version, f, k, Len(route))
  BY IntactPacket
<1> QED
  BY <1>1 DEF NextOf2

LEMMA BuiltStep ==
  ASSUME OnionInv, Onions!Built PROVE OnionInv'
<1>1. /\ phase = "building" /\ info = <<>> /\ phase' = "reading"
      /\ packet' = IF onion = "ex1" THEN <<Onions!Num(version)>> \o lastPayload
                                    ELSE Append(packet, lastHmac)
      /\ UNCHANGED <<onion, version, route, info, nodeIds, nodeKeys, read, damaged>>
  BY DEF Onions!Built, Onions!fixed
<1>2a. PICK m \in 1..Len(route) + 1 : \E f : BuiltFrom(m, f)
  BY <1>1 DEF OnionInv, OnionBuilding
<1>2. PICK f : BuiltFrom(m, f)
  BY <1>2a
<1> DEFINE n == Len(route)
<1>3. /\ IsRoute(route) /\ n \in Nat \ {0} /\ onion \in {"ex1", "ex2"}
      /\ damaged \in BOOLEAN /\ First(route, 0) = <<>>
  BY RouteBeginnings DEF OnionInv, OnionTypes
<1>4. m = 1
  <2>1. m - 1 \in 0..n /\ info = First(route, m - 1)
    BY <1>2, <1>3 DEF BuiltFrom
  <2>2. Len(<<>>) = m - 1
    BY <1>1, <1>3, <2>1, RouteBeginnings
  <2>3. Len(<<>>) = 0
    OBVIOUS
  <2> QED
    BY <2>2, <2>3
<1>5. /\ ~damaged /\ read = First(route, 1 - 1) /\ nodeKeys = Keys(1, n)
      /\ lastPayload = f[1] /\ 1 \in 1..n
  <2>1. 1 - 1 = 0
    OBVIOUS
  <2> QED
    BY <1>1, <1>2, <1>3, <1>4, <2>1 DEF OnionInv, OnionBuilding, BuiltFrom
<1>6. OnionReading1'
  <2> SUFFICES ASSUME onion = "ex1" PROVE OnionReading1'
    BY <1>1 DEF OnionReading1
  <2>1. Layers1(route, f, 1)
    BY <1>2, <1>4 DEF BuiltFrom
  <2>2. NextOf1(1, f)'
    BY <1>1, <1>5, <2>1 DEF NextOf1, Join, One
  <2> QED
    BY <1>1, <1>5, <2>2 DEF OnionReading1
<1>7. OnionReading2'
  <2> SUFFICES ASSUME onion = "ex2" PROVE OnionReading2'
    BY <1>1 DEF OnionReading2
  <2>1. /\ Layers2(route, version, f, 1) /\ lastHmac = Seal(version, f, 1, n)
        /\ packet = Covered(version, f[1])
    BY <1>2, <1>3, <1>4, <1>5 DEF BuiltFrom
  <2>2. packet' = Intact(version, f, 1, n)
    <3>1. packet' = Append(Covered(version, f[1]), Seal(version, f, 1, n))
      BY <1>1, <2>1
    <3>2. Intact(version, f, 1, n) = Append(Covered(version, f[1]), Seal(version, f, 1, n))
      BY <1>3, <1>5, <2>1, IntactPacket
    <3> QED
      BY <3>1, <3>2
  <2>3. NextOf2(1, f)'
    BY <1>1, <1>3, <1>5, <2>1, <2>2, NextPacket
  <2> QED
    BY <1>1, <1>5, <2>3 DEF OnionReading2
<1>8. info' = <<>> /\ (onion = "ex2" => nodeIds' = <<>>)
  <2>1. onion = "ex2" => nodeIds = Ids(0)
    BY <1>2, <1>4 DEF BuiltFrom
  <2>2. Ids(0) = <<>>
    BY Tuples, Same DEF Ids, IsList
  <2> QED
    BY <1>1, <2>1, <2>2
<1> QED
  BY <1>1, <1>3, <1>6, <1>7, <1>8, OnItsWay

LEMMA DamageStep ==
  ASSUME OnionInv, Onions!Damage PROVE OnionInv'
<1>1. /\ phase = "reading" /\ ~damaged /\ damaged' = TRUE
      /\ UNCHANGED <<onion, version, route, info, nodeIds, nodeKeys, read, phase>>
  BY DEF Onions!Damage, Onions!fixed
<1>2. PICK e \in 1..Len(packet) :
        \E unit \in {Onions!Damaged} \cup {Onions!Num(n) : n \in 0..Limit} :
          unit # packet[e] /\ packet' = [packet EXCEPT ![e] = unit]
  BY DEF Onions!Damage
<1>3. PICK unit \in {Onions!Damaged} \cup {Onions!Num(n) : n \in 0..Limit} :
        unit # packet[e] /\ packet' = [packet EXCEPT ![e] = unit]
  BY <1>2
<1>4. unit[1] # "hmac"
  BY DEF Onions!Damaged, Onions!Num
<1>5. IsRoute(route) /\ info = <<>> /\ (onion = "ex2" => nodeIds = <<>>)
  BY <1>1 DEF OnionInv, OnionTypes
<1>6. OnionReading1'
  BY <1>1 DEF OnionReading1
<1>7. OnionReading2'
  <2> SUFFICES ASSUME onion = "ex2" PROVE OnionReading2'
    BY <1>1 DEF OnionReading2
  <2>1a. PICK k \in 1..Len(route) : \E f : NextOf2(k, f)
    BY <1>1 DEF OnionInv, OnionReading2
  <2>1. PICK f : NextOf2(k, f)
    BY <2>1a
  <2> DEFINE intact == Intact(version, f, k, Len(route))
             seal == Seal(version, f, k, Len(route))
  <2>2. /\ Layers2(route, version, f, 1) /\ read = First(route, k - 1)
        /\ nodeKeys = Keys(k, Len(route)) /\ IsList(packet) /\ Len(packet) > 0
        /\ packet[Len(packet)][1] = "hmac" => packet[Len(packet)] = seal
        /\ packet = intact
    BY <1>1, <2>1 DEF NextOf2
  <2> HIDE DEF intact, seal
  <2>3. /\ IsList(packet') /\ Len(packet') = Len(packet) /\ packet' # packet
        /\ packet'[e] = unit
        /\ \A j \in 1..Len(packet) : j # e => packet'[j] = packet[j]
    <3> DEFINE t == [packet EXCEPT ![e] = unit]
    <3>1. /\ IsList(t) /\ Len(t) = Len(packet) /\ t # packet /\ t[e] = unit
          /\ \A j \in 1..Len(packet) : j # e => t[j] = packet[j]
      <4>1. unit # packet[e] /\ IsList(packet) /\ e \in 1..Len(packet)
        BY <1>3, <2>2
      <4> QED
        BY ONLY <4>1, ReplacedUnit
    <3>2. packet' = t
      BY <1>3
    <3> HIDE DEF t
    <3> QED
      BY <3>1, <3>2
  <2>4. packet'[Len(packet')][1] = "hmac" => packet'[Len(packet')] = seal
    <3>1. Len(packet) \in 1..Len(packet)
      BY <2>2 DEF IsList
    <3> QED
      BY <1>4, <2>2, <2>3, <3>1
  <2>5. Len(packet') > 0 /\ packet' # intact
    BY <2>2, <2>3
  <2>6. NextOf2(k, f)'
    BY <1>1, <2>2, <2>3, <2>4, <2>5 DEF NextOf2, intact, seal
  <2> QED
    BY <1>1, <2>6 DEF OnionReading2
<1> QED
  BY <1>1, <1>5, <1>6, <1>7, OnItsWay

LEMMA Read1Step ==
  ASSUME OnionInv, Onions!Read1 PROVE OnionInv'
<1> DEFINE rest == Onions!After(packet, 2)
<1>1. onion = "ex1" /\ phase = "reading"
  BY DEF Onions!Read1
<1>2. PICK size \in Onions!UInt8s(Tail(packet)) :
        IF size[1] > Len(rest) THEN Onions!Throw
        ELSE Onions!Hop(SubSeq(rest, 1, size[1]),
                        IF Len(rest) = size[1] THEN <<>>
                        ELSE <<packet[1]>> \o Onions!After(rest, size[1]))
  BY DEF Onions!Read1
<1>3. /\ phase' \in {"reading", "done", "threw"}
      /\ UNCHANGED <<onion, version, route, info, nodeIds, damaged>>
  BY <1>2 DEF Onions!Throw, Onions!Hop, Onions!fixed
<1>4. /\ IsRoute(route) /\ info' = <<>> /\ damaged' \in BOOLEAN
      /\ (Onions!OneByteLengths' <=> Onions!OneByteLengths)
  BY <1>1, <1>3 DEF OnionInv, OnionTypes, Onions!OneByteLengths
<1>5. OnionReading2'
  BY <1>1, <1>3 DEF OnionReading2
<1>6. CASE ~ (~damaged /\ Onions!OneByteLengths)
  <2>1. OnionReading1'
    BY <1>3, <1>4, <1>6 DEF OnionReading1
  <2>2. Onions!HopsReadTheirData' /\ Onions!ThrowsForAReason'
    BY <1>1, <1>3, <1>4, <1>6 DEF Onions!HopsReadTheirData, Onions!ThrowsForAReason
  <2>3. CASE phase' = "reading"
    BY <1>1, <1>3, <1>4, <1>5, <2>1, <2>3, OnItsWay
  <2>4. CASE phase' # "reading"
    BY <1>1, <1>3, <2>2, <2>4, RouteEnded
  <2> QED
    BY <2>3, <2>4
<1>7. CASE ~damaged /\ Onions!OneByteLengths
  <2>1a. PICK k \in 1..Len(route) : \E f : NextOf1(k, f)
    BY <1>1, <1>7 DEF OnionInv, OnionReading1
  <2>1. PICK f : NextOf1(k, f)
    BY <2>1a
  <2> DEFINE n == Len(route)  v == Onions!Num(version)  len == Len(route[k])
  <2>2. Layers1(route, f, 1) /\ read = First(route, k - 1) /\ packet = Join(One(v), f[k])
    BY <2>1 DEF NextOf1
  <2>3. len < Limit
    BY <1>7 DEF Onions!OneByteLengths
  <2>4. /\ Onions!UInt8s(Tail(packet)) = {<<len, 1>>}
        /\ ~ (len > Len(rest)) /\ First(rest, len) = route[k] /\ packet[1] = v
        /\ Len(rest) = len <=> k = n
        /\ Onions!After(rest, len) = f[k + 1]
    <3> DEFINE whole == Join(One(v), f[k])
    <3>1. /\ Onions!UInt8s(Tail(whole)) = {<<len, 1>>}
          /\ ~ (len > Len(Onions!After(whole, 2)))
          /\ First(Onions!After(whole, 2), len) = route[k] /\ whole[1] = v
          /\ Len(Onions!After(whole, 2)) = len <=> k = n
          /\ Onions!After(Onions!After(whole, 2), len) = f[k + 1]
      BY <1>4, <2>2, <2>3, HopReads1
    <3>2. packet = whole
      BY <2>2
    <3> HIDE DEF whole, len
    <3> QED
      BY <3>1, <3>2
  <2> HIDE DEF rest
  <2>5. size[1] = len
    BY <2>4
  <2>6. /\ read' = Append(read, route[k])
        /\ phase' = IF packet' = <<>> THEN "done" ELSE "reading"
        /\ packet' = IF k = n THEN <<>> ELSE Join(One(v), f[k + 1])
    BY <1>2, <2>4, <2>5 DEF Onions!Hop, First, Join, One
  <2>7. read' = First(route, k) /\ n \in Nat \ {0} /\ (k + 1) - 1 = k
    <3>1. n \in Nat \ {0} /\ Append(First(route, k - 1), route[k]) = First(route, k)
      BY <1>4, RouteBeginnings
    <3> QED
      BY <2>2, <2>6, <3>1
  <2>8. CASE k = n
    <3>1. phase' = "done" /\ read' = route
      BY <1>4, <2>6, <2>7, <2>8, RouteBeginnings
    <3>2. Onions!IsPrefixOf(route, route)
      BY <1>4, <2>7, RouteBeginnings
    <3>3. Onions!HopsReadTheirData' /\ Onions!ThrowsForAReason'
      BY <1>3, <3>1, <3>2
      DEF Onions!HopsReadTheirData, Onions!ThrowsForAReason, Onions!IsPrefixOf
    <3> QED
      BY <1>1, <1>3, <3>1, <3>3, RouteEnded
  <2>9. CASE k # n
    <3>1. k + 1 \in 1..n
      BY <2>7, <2>9
    <3>2. packet' = Join(One(v), f[k + 1])
      BY <2>6, <2>9
    <3>3. packet' # <<>>
      <4>1. IsList(f[k + 1]) /\ IsList(One(v)) /\ Len(One(v)) = 1
        BY <1>4, <2>2, <3>1, LayerFacts1, Single
      <4>2. Len(packet') = Len(One(v)) + Len(f[k + 1]) /\ Len(f[k + 1]) \in Nat
        BY <3>2, <4>1, JoinIsList
      <4>3. Len(<<>>) = 0
        OBVIOUS
      <4> QED
        BY <4>1, <4>2, <4>3
    <3>4. phase' = "reading"
      BY <2>6, <3>3
    <3>5. NextOf1(k + 1, f)'
      BY <1>3, <2>2, <2>7, <3>2 DEF NextOf1
    <3>6. OnionReading1'
      BY <1>3, <3>1, <3>5 DEF OnionReading1
    <3> QED
      BY <1>1, <1>3, <1>4, <1>5, <3>4, <3>6, OnItsWay
  <2> QED
    BY <2>8, <2>9
<1> QED
  BY <1>6, <1>7

(* What the HMAC tells a hop: under it is what build put there, and the    *)
(* packet is not a damaged one, unless the version was repaired.           *)
LEMMA HmacMeans ==
  ASSUME IsRoute(route), NEW k \in 1..Len(route), NEW f, NextOf2(k, f),
         Onions!HmacOk(nodeKeys[1])
  PROVE  /\ packet[2] = Onions!Point /\ Onions!Front(packet) = Covered(version, f[k])
         /\ damaged => version # 0 /\ k # 1
         /\ ~damaged /\ version # 0 => k = 1
<1> DEFINE n == Len(route)  seal == Seal(version, f, k, n)
           front == Covered(version, f[k])  intact == Intact(version, f, k, n)
           last == packet[Len(packet)]
<1>1. n \in Nat /\ k \in 1..n
  BY RouteBeginnings
<1>2. /\ Layers2(route, version, f, 1) /\ nodeKeys = Keys(k, n)
      /\ IsList(packet) /\ Len(packet) > 0
      /\ last[1] = "hmac" => last = seal
      /\ ~damaged => packet = intact
      /\ damaged /\ (version = 0 \/ k = 1) => packet # intact
  BY DEF NextOf2
<1>3. nodeKeys[1] = k
  BY <1>1, <1>2, KeysLeft
<1>4. packet[2] = Onions!Point /\ last = Onions!Hmac(k, Onions!Front(packet))
  BY <1>3 DEF Onions!HmacOk
<1>5. seal = Onions!Hmac(k, front) /\ IsList(f[k])
  BY <1>2, LayerFacts2
<1> HIDE DEF seal, front, intact, last
<1>6. last = seal
  <2>1. last[1] = "hmac"
    BY <1>4 DEF Onions!Hmac
  <2> QED
    BY <1>2, <2>1
<1>7. Onions!Front(packet) = front
  <2>1. Onions!Hmac(k, Onions!Front(packet)) = Onions!Hmac(k, front)
    BY <1>4, <1>5, <1>6
  <2> QED
    BY <2>1 DEF Onions!Hmac
<1>8. packet = Append(front, seal)
  <2>1. Len(packet) \in Nat
    BY <1>2 DEF IsList
  <2>2. Len(packet) \in 1..Len(packet)
    BY <1>2, <2>1
  <2>3. Append(SubSeq(packet, 1, Len(packet) - 1), packet[Len(packet)]) = packet
    BY <1>2, <2>2, Beginnings
  <2> QED
    BY <1>6, <1>7, <2>3 DEF Onions!Front, last
<1>9. /\ Onions!Front(intact) = Covered(IF k = 1 THEN version ELSE 0, f[k])
      /\ intact = Append(Covered(IF k = 1 THEN version ELSE 0, f[k]), seal)
  BY <1>1, <1>2, IntactPacket DEF intact, seal
<1>10. damaged => version # 0 /\ k # 1
  <2> SUFFICES ASSUME damaged, version = 0 \/ k = 1 PROVE FALSE
    OBVIOUS
  <2>1. packet = intact
    BY <1>8, <1>9 DEF front
  <2> QED
    BY <1>2, <2>1
<1>11. ~damaged /\ version # 0 => k = 1
  <2> SUFFICES ASSUME ~damaged, version # 0, k # 1 PROVE FALSE
    OBVIOUS
  <2>1. Covered(version, f[k]) = Covered(0, f[k])
    BY <1>2, <1>7, <1>9 DEF front
  <2> QED
    BY <1>5, <2>1, CoveredVersion
<1> QED
  BY <1>4, <1>7, <1>10, <1>11 DEF front

(* An intact packet of the version that the hop gets passes.               *)
LEMMA IntactPasses ==
  ASSUME IsRoute(route), NEW k \in 1..Len(route), NEW f, NextOf2(k, f), ~damaged,
         version = 0 \/ k = 1
  PROVE  Onions!HmacOk(nodeKeys[1])
<1> DEFINE n == Len(route)  intact == Intact(version, f, k, n)
<1>1. n \in Nat /\ k \in 1..n
  BY RouteBeginnings
<1>2. Layers2(route, version, f, 1) /\ nodeKeys = Keys(k, n) /\ packet = intact
  BY DEF NextOf2
<1>3. nodeKeys[1] = k
  BY <1>1, <1>2, KeysLeft
<1>4. Seal(version, f, k, n) = Onions!Hmac(k, Covered(version, f[k]))
  BY <1>2, LayerFacts2
<1>5. /\ intact[2] = Onions!Point /\ intact[Len(intact)] = Seal(version, f, k, n)
      /\ Onions!Front(intact) = Covered(IF k = 1 THEN version ELSE 0, f[k])
  BY <1>2, IntactPacket
<1>6. (IF k = 1 THEN version ELSE 0) = version
  OBVIOUS
<1> HIDE DEF intact
<1> QED
  BY <1>2, <1>3, <1>4, <1>5, <1>6 DEF Onions!HmacOk

(* A hop that refuses its packet has a reason to.                          *)
LEMMA HopThrows ==
  ASSUME OnionInv, phase = "reading", onion = "ex2", NEW k \in 1..Len(route), NEW f,
         NextOf2(k, f), ~ Onions!HmacOk(nodeKeys[1]), Onions!Throw
  PROVE  OnionInv'
<1>1. /\ phase' = "threw"
      /\ UNCHANGED <<onion, version, route, info, nodeIds, damaged, read>>
  BY DEF Onions!Throw, Onions!fixed
<1>2. IsRoute(route)
  BY DEF OnionInv, OnionTypes
<1>3. Onions!HopsReadTheirData'
  BY <1>1 DEF OnionInv, Onions!HopsReadTheirData, Onions!IsPrefixOf
<1>4. Onions!ThrowsForAReason'
  <2> SUFFICES ASSUME ~damaged PROVE version # 0 /\ Len(read) = 1
    BY <1>1 DEF Onions!ThrowsForAReason
  <2>1. version # 0 /\ k # 1
    BY <1>2, IntactPasses
  <2>2. k <= 2 /\ read = First(route, k - 1)
    BY <2>1 DEF NextOf2
  <2>3. Len(route) \in Nat \ {0} /\ \A j \in 0..Len(route) : Len(First(route, j)) = j
    BY <1>2, RouteBeginnings
  <2>4. k - 1 = 1 /\ 1 \in 0..Len(route)
    BY <2>1, <2>2, <2>3
  <2> QED
    BY <2>1, <2>2, <2>3, <2>4
<1> QED
  BY <1>1, <1>3, <1>4, RouteEnded

LEMMA Read2Step ==
  ASSUME OnionInv, Onions!Read2 PROVE OnionInv'
<1> DEFINE n == Len(route)
<1>1. onion = "ex2" /\ phase = "reading" /\ nodeKeys' = Tail(nodeKeys)
  BY DEF Onions!Read2
<1>2a. PICK k \in 1..n : \E f : NextOf2(k, f)
  BY <1>1 DEF OnionInv, OnionReading2
<1>2. PICK f : NextOf2(k, f)
  BY <1>2a
<1>3. /\ IsRoute(route) /\ info = <<>> /\ nodeIds = <<>> /\ damaged \in BOOLEAN
      /\ n \in Nat \ {0}
  BY <1>1, RouteBeginnings DEF OnionInv, OnionTypes
<1>4. CASE ~ Onions!HmacOk(nodeKeys[1])
  <2>1. Onions!Throw
    BY <1>4 DEF Onions!Read2
  <2> QED
    BY <1>1, <1>2, <1>4, <2>1, HopThrows
<1>5. CASE Onions!HmacOk(nodeKeys[1])
  <2>1. /\ packet[2] = Onions!Point /\ Onions!Front(packet) = Covered(version, f[k])
        /\ damaged => version # 0 /\ k # 1
        /\ ~damaged /\ version # 0 => k = 1
    BY <1>2, <1>3, <1>5, HmacMeans
  <2>2. /\ Layers2(route, version, f, 1) /\ read = First(route, k - 1)
        /\ nodeKeys = Keys(k, n)
    BY <1>2 DEF NextOf2
  <2> DEFINE front == Covered(version, f[k])  len == Len(route[k])
             seal == Seal(version, f, k + 1, n)
  <2>3. PICK width : CutsOff(front, width, route[k], seal, f[k + 1])
    BY <1>3, <2>2, HopReads2
  <2>4. PICK size \in Onions!BigSizes(Onions!After(Onions!Front(packet), 2)) :
          LET rest == Onions!After(Onions!Front(packet), 2 + size[2]) IN
          IF size[1] + 1 > Len(rest) THEN Onions!Throw
          ELSE Onions!Hop(SubSeq(rest, 1, size[1]),
                          Onions!Next2(rest[size[1] + 1], Onions!After(rest, size[1] + 1)))
    BY <1>5 DEF Onions!Read2
  <2> HIDE DEF front, len, seal
  <2>5. size[1] = len /\ size[2] = width /\ Onions!Front(packet) = front
    BY <2>1, <2>3, <2>4 DEF front, CutsOff, len
  <2>6. Onions!Hop(route[k], Onions!Next2(seal, f[k + 1]))
    BY <2>3, <2>4, <2>5 DEF First, CutsOff, len
  <2>7. /\ read' = Append(read, route[k]) /\ packet' = Onions!Next2(seal, f[k + 1])
        /\ phase' = IF packet' = <<>> THEN "done" ELSE "reading"
        /\ UNCHANGED <<onion, version, route, info, nodeIds, damaged>>
    BY <2>6 DEF Onions!Hop, Onions!fixed
  <2>8. read' = First(route, k)
    <3>1. Append(First(route, k - 1), route[k]) = First(route, k)
      BY <1>3, RouteBeginnings
    <3> QED
      BY <2>2, <2>7, <3>1
  <2>9. f[k + 1] = <<>> <=> k = n
    BY <1>3, <2>2, LayerFacts2
  <2>10. CASE k = n
    <3>1. packet' = <<>>
      BY <2>7, <2>9, <2>10 DEF Onions!Next2
    <3>2. phase' = "done" /\ read' = route
      BY <1>3, <2>7, <2>8, <2>10, <3>1, RouteBeginnings
    <3>3. Onions!IsPrefixOf(route, route)
      BY <1>3, RouteBeginnings
    <3>4. Onions!HopsReadTheirData' /\ Onions!ThrowsForAReason'
      BY <2>7, <3>2, <3>3
      DEF Onions!HopsReadTheirData, Onions!ThrowsForAReason, Onions!IsPrefixOf
    <3> QED
      BY <1>1, <2>7, <3>2, <3>4, RouteEnded
  <2>11. CASE k # n
    <3>1. k + 1 \in 1..n /\ k + 1 # 1 /\ (k + 1) - 1 = k
      BY <1>3, <2>11
    <3>2. packet' = Intact(version, f, k + 1, n)
      <4>1. packet' = (Opening(0) \o f[k + 1]) \o <<seal>>
        BY <2>1, <2>7, <2>9, <2>11 DEF Onions!Next2, Opening
      <4>2. (IF k + 1 = 1 THEN version ELSE 0) = 0
        BY <3>1
      <4> QED
        BY <4>1, <4>2 DEF Intact, Covered, Join, One, seal
    <3>3. packet' # <<>>
      BY <1>3, <2>2, <3>1, <3>2, IntactPacket
    <3>4. phase' = "reading"
      BY <2>7, <3>3
    <3>5. nodeKeys' = Keys(k + 1, n)
      BY <1>1, <1>3, <2>2, KeysLeft
    <3>6. ~damaged' /\ version # 0 => k + 1 <= 2
      BY <2>1, <2>7
    <3>7. ~ (damaged' /\ (version = 0 \/ k + 1 = 1))
      BY <2>1, <2>7, <3>1
    <3>8. NextOf2(k + 1, f)'
      BY <1>3, <2>2, <2>7, <2>8, <3>1, <3>2, <3>5, <3>6, <3>7, NextPacket
    <3>9. OnionReading2'
      BY <2>7, <3>1, <3>8 DEF OnionReading2
    <3>10. OnionReading1'
      BY <1>1, <2>7 DEF OnionReading1
    <3> QED
      BY <1>1, <1>3, <2>7, <3>4, <3>9, <3>10, OnItsWay
  <2> QED
    BY <2>10, <2>11
<1> QED
  BY <1>4, <1>5

LEMMA OnionIdles ==
  ASSUME OnionInv, UNCHANGED onionVars PROVE OnionInv'
<1>1. UNCHANGED <<onion, version, route, info, nodeIds, lastHmac, lastPayload, packet,
                  nodeKeys, read, phase, damaged>>
  BY DEF onionVars
<1>2. OnionTypes' /\ OnionBuilding'
  BY <1>1 DEF OnionInv, OnionTypes, OnionBuilding, BuiltFrom
<1>3. OnionReading1' /\ OnionReading2'
  BY <1>1 DEF OnionInv, OnionReading1, OnionReading2, NextOf1, NextOf2,
              Onions!OneByteLengths
<1>4. Onions!HopsReadTheirData' /\ Onions!ThrowsForAReason'
  BY <1>1 DEF OnionInv, Onions!HopsReadTheirData, Onions!ThrowsForAReason,
              Onions!OneByteLengths, Onions!IsPrefixOf
<1> QED
  BY <1>2, <1>3, <1>4 DEF OnionInv

LEMMA OnionInvariant == SpecAny => []OnionInv
<1>1. InitAny => OnionInv
  <2> SUFFICES ASSUME Onions!Init PROVE OnionInv
    BY DEF InitAny, OnionIdle
  <2> QED
    BY OnionStarts
<1>2. OnionInv /\ [NextAny]_all => OnionInv'
  <2> SUFFICES ASSUME OnionInv, [NextAny]_all PROVE OnionInv'
    OBVIOUS
  <2>1. CASE Onions!Next
    BY <2>1, Build1Step, Build2Step, BuiltStep, DamageStep, Read1Step, Read2Step
       DEF Onions!Next
  <2>2. CASE UNCHANGED onionVars
    BY <2>2, OnionIdles
  <2> QED
    BY <2>1, <2>2 DEF NextAny, all
<1> QED
  BY <1>1, <1>2, PTL DEF SpecAny

(* The hops of an onion of any length read their data in the order of the  *)
(* route, and a route that ends early has a reason.                        *)
THEOREM HopsOfOnion == SpecAny => []HopsReadTheirData
<1>1. OnionInv => HopsReadTheirData
  BY OnionTypesHold DEF OnionInv, HopsReadTheirData
<1> QED
  BY <1>1, OnionInvariant, PTL

(* No damage passes the HMAC: the hop that gets a damaged packet throws,   *)
(* unless writing 0 over another version repaired it.                      *)
THEOREM DamageOfOnion == SpecAny => DamageIsThrown
<1> DEFINE Thrown ==
             onion = "ex2" /\ damaged /\ phase = "reading"
               /\ (version = 0 \/ read = <<>>) => phase' = "threw"
<1>1. OnionInv /\ [NextAny]_all => [Thrown]_(Onions!vars)
  <2> SUFFICES ASSUME OnionInv, NextAny, ~ UNCHANGED Onions!vars,
                      onion = "ex2", damaged, phase = "reading",
                      version = 0 \/ read = <<>>
               PROVE  phase' = "threw"
    BY DEF all, onionVars, Onions!vars
  <2>1. Onions!Next
    BY DEF NextAny, onionVars, Onions!vars
  <2>2. Onions!Read2
    BY <2>1 DEF Onions!Next, Onions!Build1, Onions!Build2, Onions!Built, Onions!Damage,
                Onions!Read1
  <2>3a. PICK k \in 1..Len(route) : \E f : NextOf2(k, f)
    BY DEF OnionInv, OnionReading2
  <2>3. PICK f : NextOf2(k, f)
    BY <2>3a
  <2>4. IsRoute(route)
    BY DEF OnionInv, OnionTypes
  <2>5. read = <<>> => k = 1
    <3>1. Len(route) \in Nat \ {0} /\ \A j \in 0..Len(route) : Len(First(route, j)) = j
      BY <2>4, RouteBeginnings
    <3>2. read = First(route, k - 1) /\ k - 1 \in 0..Len(route)
      BY <2>3, <3>1 DEF NextOf2
    <3>3. Len(<<>>) = 0
      OBVIOUS
    <3> QED
      BY <3>1, <3>2, <3>3
  <2>6. ~ Onions!HmacOk(nodeKeys[1])
    BY <2>3, <2>4, <2>5, HmacMeans
  <2> QED
    BY <2>2, <2>6 DEF Onions!Read2, Onions!Throw
<1> QED
  BY <1>1, OnionInvariant, PTL DEF SpecAny, DamageIsThrown, Onions!DamageIsThrown

(***************************************************************************)
(* Block modes: bytes and blocks.                                          *)
(***************************************************************************)
LEMMA XorByteTwice ==
  \A a, b : Modes!XorByte(Modes!XorByte(a, b), b) = a
BY DEF Modes!XorByte

LEMMA XorUnits ==
  \A a, b : IsList(a) =>
     /\ IsList(Modes!Xor(a, b)) /\ Len(Modes!Xor(a, b)) = Len(a)
     /\ \A j \in 1..Len(a) : Modes!Xor(a, b)[j] = Modes!XorByte(a[j], b[j])
BY DEF Modes!Xor, IsList

LEMMA XorTwice ==
  \A a, b : IsList(a) => Modes!Xor(Modes!Xor(a, b), b) = a
<1> SUFFICES ASSUME NEW a, NEW b, IsList(a)
             PROVE  Modes!Xor(Modes!Xor(a, b), b) = a
  OBVIOUS
<1> DEFINE once == Modes!Xor(a, b)  twice == Modes!Xor(once, b)
<1>1. /\ IsList(once) /\ Len(once) = Len(a)
      /\ \A j \in 1..Len(a) : once[j] = Modes!XorByte(a[j], b[j])
  BY XorUnits
<1> HIDE DEF once
<1>2. /\ IsList(twice) /\ Len(twice) = Len(once)
      /\ \A j \in 1..Len(once) : twice[j] = Modes!XorByte(once[j], b[j])
  BY <1>1, XorUnits
<1> HIDE DEF twice
<1>3. \A j \in 1..Len(twice) : twice[j] = a[j]
  BY <1>1, <1>2, XorByteTwice
<1>4. twice = a
  BY <1>1, <1>2, <1>3, Same
<1> QED
  BY <1>4 DEF twice, once

LEMMA AesBlock ==
  \A b : IsList(Modes!Aes(b)) /\ Len(Modes!Aes(b)) = Block
BY ModesAssumption DEF Modes!Aes, IsList

LEMMA AesBack ==
  \A plain : Modes!AesInverse(Modes!Aes(plain)) = plain
<1> SUFFICES ASSUME NEW plain PROVE Modes!AesInverse(Modes!Aes(plain)) = plain
  OBVIOUS
<1> DEFINE b == Modes!Aes(plain)
<1>1. b[1] = {<<"aes", plain, 1>>}
  BY ModesAssumption DEF Modes!Aes
<1> HIDE DEF b
<1>2. {atom \in b[1] : atom[1] = "aes"} = {<<"aes", plain, 1>>}
  BY <1>1
<1>3. Modes!Terms(b) = {plain}
  <2> DEFINE found == {atom \in b[1] : atom[1] = "aes"}
  <2>1. Modes!Terms(b) = {atom[2] : atom \in found}
    BY DEF Modes!Terms
  <2>2. \A t : t \in found <=> t = <<"aes", plain, 1>>
    BY <1>2
  <2> DEFINE only == <<"aes", plain, 1>>
  <2>3. only[2] = plain
    OBVIOUS
  <2> HIDE DEF found, only
  <2>4. {atom[2] : atom \in found} = {only[2]}
    BY <2>2, Zenon DEF only
  <2> QED
    BY <2>1, <2>3, <2>4
<1>4. b = Modes!Aes(plain)
  BY DEF b
<1>5. Modes!AesInverse(b) = plain
  BY <1>3, <1>4 DEF Modes!AesInverse
<1> QED
  BY <1>5 DEF b

LEMMA IvBlock ==
  \A c : IsList(Modes!Iv(c)) /\ Len(Modes!Iv(c)) = Block
BY ModesAssumption DEF Modes!Iv, IsList

LEMMA CountOfIv ==
  \A c \in 0..Counters - 1 : Modes!Count(Modes!Iv(c)) = c
<1> SUFFICES ASSUME NEW c \in 0..Counters - 1
             PROVE  Modes!Count(Modes!Iv(c)) = c
  OBVIOUS
<1>1. \A d : Modes!Iv(d)[1] = {<<"iv", d, 1>>}
  BY ModesAssumption DEF Modes!Iv
<1>2. ASSUME NEW d, Modes!Iv(c) = Modes!Iv(d) PROVE d = c
  <2>1. {<<"iv", c, 1>>} = {<<"iv", d, 1>>}
    BY <1>1, <1>2
  <2>2. <<"iv", c, 1>> = <<"iv", d, 1>>
    BY <2>1
  <2> QED
    BY <2>2
<1> QED
  BY <1>2 DEF Modes!Count

LEMMA ValuesOfNum ==
  \A n \in 0..Block : Modes!Values(Modes!Num(n)) = {n}
<1> SUFFICES ASSUME NEW n \in 0..Block PROVE Modes!Values(Modes!Num(n)) = {n}
  OBVIOUS
<1>1. ASSUME NEW m \in Nat, Modes!Num(n) = Modes!Num(m) PROVE m = n
  <2>1. n \in Nat
    BY ModesAssumption
  <2>2. CASE n = 0 \/ m = 0
    BY <1>1, <2>2 DEF Modes!Num
  <2>3. CASE n # 0 /\ m # 0
    <3>1. {<<"num", n>>} = {<<"num", m>>}
      BY <1>1, <2>3 DEF Modes!Num
    <3>2. <<"num", n>> = <<"num", m>>
      BY <3>1
    <3> QED
      BY <3>2
  <2> QED
    BY <2>2, <2>3
<1>2. n \in 0..2 * Block /\ n \in Nat
  BY ModesAssumption
<1> DEFINE number == Modes!Num(n)
<1>3. \A m \in 0..2 * Block : number = Modes!Num(m) <=> m = n
  BY <1>1, ModesAssumption
<1>4. ~ \A k \in 0..Block : number # Modes!Num(k)
  OBVIOUS
<1> HIDE DEF number
<1>5. Modes!Values(number) = {n}
  BY <1>2, <1>3, <1>4 DEF Modes!Values
<1> QED
  BY <1>5 DEF number

(***************************************************************************)
(* Block modes: places in a message.                                       *)
(***************************************************************************)
Full(m) == Len(m) \div Block
Rest(m) == Len(m) % Block

LEMMA Places ==
  /\ \A k \in Nat : /\ k * Block \in Nat /\ (k + 1) * Block = k * Block + Block
                    /\ (k + 1) - 1 = k /\ Block * k = k * Block
  /\ \A k, n \in Nat : k < n => (k + 1) * Block <= n * Block
  /\ 0 * Block = 0 /\ 1 * Block = Block
<1>1. Block \in Nat \ {0}
  BY ModesAssumption
<1>2. ASSUME NEW k \in Nat
      PROVE  /\ k * Block \in Nat /\ (k + 1) * Block = k * Block + Block
             /\ Block * k = k * Block
  BY <1>1
<1>3. ASSUME NEW k \in Nat, NEW n \in Nat, k < n
      PROVE  (k + 1) * Block <= n * Block
  <2>1. Block * k + Block <= Block * n
    BY <1>1, <1>3, Multiples
  <2>2. (k + 1) * Block = k * Block + Block /\ Block * k = k * Block /\ Block * n = n * Block
    BY <1>1, <1>2
  <2> QED
    BY <2>1, <2>2
<1> QED
  BY <1>1, <1>2, <1>3

LEMMA Lengths ==
  ASSUME NEW m, IsList(m)
  PROVE  /\ Full(m) \in Nat /\ Rest(m) \in Nat /\ Rest(m) < Block /\ Len(m) \in Nat
         /\ Len(m) = Full(m) * Block + Rest(m)
         /\ \A k \in Nat : k < Full(m) => (k + 1) * Block <= Len(m)
<1>1. Len(m) \in Nat /\ Block \in Nat \ {0}
  BY ModesAssumption DEF IsList
<1>2. /\ Full(m) \in Nat /\ Rest(m) \in Nat /\ Rest(m) < Block
      /\ Len(m) = Block * Full(m) + Rest(m)
  BY <1>1, DivMod DEF Full, Rest
<1>3. Block * Full(m) = Full(m) * Block /\ Full(m) * Block \in Nat
  BY <1>2, Places
<1>4. ASSUME NEW k \in Nat, k < Full(m)
      PROVE  (k + 1) * Block <= Len(m)
  <2>1. (k + 1) * Block <= Full(m) * Block /\ (k + 1) * Block \in Nat
    BY <1>2, <1>4, Places
  <2> QED
    BY <1>2, <1>3, <2>1
<1> QED
  BY <1>1, <1>2, <1>3, <1>4

LEMMA PlaceIn ==
  ASSUME NEW k \in Nat, NEW j \in 1..Block
  PROVE  /\ k * Block + j - 1 \in Nat
         /\ (k * Block + j - 1) \div Block = k /\ (k * Block + j - 1) % Block = j - 1
<1>1. Block \in Nat \ {0} /\ j - 1 \in Nat /\ j - 1 < Block
  BY ModesAssumption
<1>2. k * Block \in Nat /\ Block * k = k * Block
  BY Places
<1>3. k * Block + j - 1 = Block * k + (j - 1) /\ k * Block + j - 1 \in Nat
  BY <1>1, <1>2
<1> DEFINE q == k * Block + j - 1
<1>4. q \in Nat /\ q = Block * k + (j - 1)
  BY <1>3
<1> HIDE DEF q
<1>5. q \div Block = k /\ q % Block = j - 1
  BY <1>1, <1>4, DivUnique
<1> QED
  BY <1>3, <1>5 DEF q

LEMMA JoinNothing ==
  \A s : IsList(s) => s \o <<>> = s
<1> SUFFICES ASSUME NEW s, IsList(s) PROVE s \o <<>> = s
  OBVIOUS
<1> DEFINE S == {s[j] : j \in 1..Len(s)}
<1>1. s \in Seq(S)
  BY ListIsSeq
<1> HIDE DEF S
<1> QED
  BY <1>1

(***************************************************************************)
(* Block modes: lists that begin another, and lists of blocks.             *)
(***************************************************************************)
Begins(s, whole, n) ==
  IsList(s) /\ Len(s) = n /\ \A j \in 1..n : s[j] = whole[j]

LEMMA BeginsMore ==
  \A s, whole, n, piece :
     /\ Begins(s, whole, n) /\ IsList(piece)
     /\ \A j \in 1..Len(piece) : piece[j] = whole[n + j]
     => Begins(Join(s, piece), whole, n + Len(piece))
<1> SUFFICES ASSUME NEW s, NEW whole, NEW n, NEW piece, Begins(s, whole, n),
                    IsList(piece),
                    \A j \in 1..Len(piece) : piece[j] = whole[n + j]
             PROVE  Begins(Join(s, piece), whole, n + Len(piece))
  OBVIOUS
<1>0. IsList(s)
  BY DEF Begins
<1>1. IsList(s) /\ Len(s) = n /\ \A j \in 1..n : s[j] = whole[j]
  BY DEF Begins
<1> DEFINE both == Join(s, piece)
<1>2. /\ IsList(both) /\ Len(both) = n + Len(piece) /\ n \in Nat /\ Len(piece) \in Nat
  BY <1>1, JoinIsList
<1>3. /\ \A j \in 1..n : both[j] = s[j]
      /\ \A j \in 1..Len(piece) : both[n + j] = piece[j]
  <2>1. /\ \A j \in 1..Len(s) : both[j] = s[j]
        /\ \A j \in 1..Len(piece) : both[Len(s) + j] = piece[j]
    BY ONLY JoinUnits, <1>0, IsList(piece) DEF both
  <2> HIDE DEF both
  <2> QED
    BY <1>1, <2>1
<1> HIDE DEF both
<1>4. ASSUME NEW j \in 1..n + Len(piece) PROVE both[j] = whole[j]
  <2>1. CASE j <= n
    <3>1. j \in 1..n
      BY <1>2, <2>1
    <3> QED
      BY <1>1, <1>3, <3>1
  <2>2. CASE ~ (j <= n)
    <3>1. j - n \in 1..Len(piece) /\ n + (j - n) = j
      BY <1>2, <2>2
    <3>2. both[n + (j - n)] = piece[j - n] /\ piece[j - n] = whole[n + (j - n)]
      BY <1>3, <3>1
    <3> QED
      BY <3>1, <3>2
  <2> QED
    BY <2>1, <2>2
<1>5. Begins(both, whole, n + Len(piece))
  BY <1>2, <1>4 DEF Begins
<1> QED
  BY <1>5 DEF both

LEMMA BeginsNothing ==
  \A whole : Begins(<<>>, whole, 0)
<1>1. IsList(<<>>) /\ Len(<<>>) = 0
  BY Tuples
<1>2. \A j : ~ (j \in 1..0)
  OBVIOUS
<1> QED
  BY <1>1, <1>2 DEF Begins

LEMMA BeginsAll ==
  \A s, whole : IsList(whole) /\ Begins(s, whole, Len(whole)) => s = whole
BY Same DEF Begins

(* Block q of a list, counted from 0.                                      *)
BlockOf(s, q) == [j \in 1..Block |-> s[q * Block + j]]

LEMMA BlockIsSlice ==
  ASSUME NEW s, IsList(s), NEW q \in Nat, (q + 1) * Block <= Len(s)
  PROVE  SubSeq(s, q * Block + 1, (q + 1) * Block) = BlockOf(s, q)
<1> DEFINE from == q * Block + 1  to == (q + 1) * Block  cut == SubSeq(s, from, to)
<1>1. /\ Block \in Nat \ {0} /\ q * Block \in Nat /\ (q + 1) * Block = q * Block + Block
  BY Places, ModesAssumption
<1>2. from \in Nat /\ to \in Nat /\ from >= 1 /\ from <= to + 1 /\ to <= Len(s)
      /\ to - from + 1 = Block /\ \A j \in 1..Block : from + j - 1 = q * Block + j
  BY <1>1
<1>3. /\ IsList(cut) /\ Len(cut) = to - from + 1
      /\ \A j \in 1..to - from + 1 : cut[j] = s[from + j - 1]
  <2> HIDE DEF from, to
  <2> QED
    BY <1>2, Cut
<1> HIDE DEF cut
<1>4. Len(cut) = Block /\ \A j \in 1..Block : cut[j] = s[q * Block + j]
  <2> HIDE DEF from, to
  <2> QED
    BY <1>2, <1>3
<1> DEFINE b == BlockOf(s, q)
<1>5. IsList(b) /\ Len(b) = Block /\ \A j \in 1..Block : b[j] = s[q * Block + j]
  BY <1>1 DEF BlockOf, IsList
<1> HIDE DEF b
<1>6. cut = b
  BY <1>3, <1>4, <1>5, Same
<1> QED
  BY <1>6 DEF cut, b, from, to

LEMMA BlockJoined ==
  ASSUME NEW s, IsList(s), NEW t, IsList(t), NEW n \in Nat, Len(s) = n * Block
  PROVE  /\ \A q \in Nat : q < n => BlockOf(Join(s, t), q) = BlockOf(s, q)
         /\ \A q \in Nat : (q + 1) * Block <= Len(t) =>
              BlockOf(Join(s, t), n + q) = BlockOf(t, q)
<1> DEFINE both == Join(s, t)
<1>1. /\ \A j \in 1..Len(s) : both[j] = s[j]
      /\ \A j \in 1..Len(t) : both[Len(s) + j] = t[j]
  BY JoinUnits
<1> HIDE DEF both
<1>2. Block \in Nat \ {0} /\ Len(s) \in Nat /\ Len(t) \in Nat
  BY ModesAssumption DEF IsList
<1>3. ASSUME NEW q \in Nat, q < n
      PROVE  BlockOf(both, q) = BlockOf(s, q)
  <2>1. q * Block \in Nat /\ (q + 1) * Block = q * Block + Block
        /\ (q + 1) * Block <= n * Block /\ n * Block \in Nat
    BY <1>3, Places
  <2>2. ASSUME NEW j \in 1..Block PROVE both[q * Block + j] = s[q * Block + j]
    <3>1. q * Block + j \in 1..Len(s)
      BY <1>2, <2>1
    <3> QED
      BY <1>1, <3>1
  <2> QED
    BY <2>2 DEF BlockOf
<1>4. ASSUME NEW q \in Nat, (q + 1) * Block <= Len(t)
      PROVE  BlockOf(both, n + q) = BlockOf(t, q)
  <2>1. q * Block \in Nat /\ (q + 1) * Block = q * Block + Block /\ n * Block \in Nat
    BY Places
  <2>2. (n + q) * Block = n * Block + q * Block
    BY <1>2
  <2>3. ASSUME NEW j \in 1..Block PROVE both[(n + q) * Block + j] = t[q * Block + j]
    <3>1. q * Block + j \in 1..Len(t) /\ (n + q) * Block + j = Len(s) + (q * Block + j)
      BY <1>2, <1>4, <2>1, <2>2
    <3> QED
      BY <1>1, <3>1
  <2> QED
    BY <2>3 DEF BlockOf
<1> QED
  BY <1>3, <1>4 DEF both

LEMMA OneBlock ==
  \A b : IsList(b) /\ Len(b) = Block => BlockOf(b, 0) = b
<1> SUFFICES ASSUME NEW b, IsList(b), Len(b) = Block PROVE BlockOf(b, 0) = b
  OBVIOUS
<1>1. 0 * Block = 0 /\ Block \in Nat
  BY Places, ModesAssumption
<1>2. \A j \in 1..Block : 0 * Block + j = j
  BY <1>1
<1>3. BlockOf(b, 0) = [j \in 1..Block |-> b[j]]
  BY <1>2 DEF BlockOf
<1> QED
  BY <1>3 DEF IsList

(***************************************************************************)
(* Block modes: what CTR makes of a list.                                  *)
(***************************************************************************)
Pad(c, j) == Modes!Aes(Modes!Iv((c + j \div Block) % Counters))[(j % Block) + 1]
Masked(s, c) == [j \in 1..Len(s) |-> Modes!XorByte(s[j], Pad(c, j - 1))]
SliceOf(s, k) ==
  [j \in 1..Block |-> IF k * Block + j <= Len(s) THEN s[k * Block + j]
                                                 ELSE Modes!Num(0)]
Counted(c, k) == Modes!Iv((c + k) % Counters)
Done(s, k) == IF k <= Full(s) THEN k * Block ELSE Len(s)
Piece(s, c, k) ==
  LET m == Modes!Xor(SliceOf(s, k), Modes!Aes(Counted(c, k)))
  IN  IF k = Full(s) THEN SubSeq(m, 1, Rest(s)) ELSE m

LEMMA MaskedUnits ==
  \A s, c : IsList(s) =>
     /\ IsList(Masked(s, c)) /\ Len(Masked(s, c)) = Len(s)
     /\ \A j \in 1..Len(s) : Masked(s, c)[j] = Modes!XorByte(s[j], Pad(c, j - 1))
BY DEF Masked, IsList

LEMMA MaskedTwice ==
  \A s, c : IsList(s) => Masked(Masked(s, c), c) = s
<1> SUFFICES ASSUME NEW s, NEW c, IsList(s) PROVE Masked(Masked(s, c), c) = s
  OBVIOUS
<1> DEFINE once == Masked(s, c)  twice == Masked(once, c)
<1>1. /\ IsList(once) /\ Len(once) = Len(s)
      /\ \A j \in 1..Len(s) : once[j] = Modes!XorByte(s[j], Pad(c, j - 1))
  BY MaskedUnits
<1> HIDE DEF once
<1>2. /\ IsList(twice) /\ Len(twice) = Len(once)
      /\ \A j \in 1..Len(once) : twice[j] = Modes!XorByte(once[j], Pad(c, j - 1))
  BY <1>1, MaskedUnits
<1> HIDE DEF twice
<1>3. \A j \in 1..Len(twice) : twice[j] = s[j]
  BY <1>1, <1>2, XorByteTwice
<1>4. twice = s
  BY <1>1, <1>2, <1>3, Same
<1> QED
  BY <1>4 DEF twice, once

LEMMA SliceUnits ==
  \A s, k : /\ IsList(SliceOf(s, k)) /\ Len(SliceOf(s, k)) = Block
            /\ \A j \in 1..Block :
                 SliceOf(s, k)[j] = IF k * Block + j <= Len(s) THEN s[k * Block + j]
                                                               ELSE Modes!Num(0)
BY ModesAssumption DEF SliceOf, IsList

LEMMA PieceFits ==
  ASSUME NEW s, IsList(s), NEW c, NEW k \in 0..Full(s)
  PROVE  LET piece == Piece(s, c, k)
         IN  /\ IsList(piece) /\ Done(s, k) + Len(piece) = Done(s, k + 1)
             /\ \A j \in 1..Len(piece) : piece[j] = Masked(s, c)[Done(s, k) + j]
<1> DEFINE whole == SliceOf(s, k)  key == Modes!Aes(Counted(c, k))
           m == Modes!Xor(whole, key)  piece == Piece(s, c, k)  mask == Masked(s, c)
<1>1. /\ Full(s) \in Nat /\ Rest(s) \in Nat /\ Rest(s) < Block /\ Len(s) \in Nat
      /\ Len(s) = Full(s) * Block + Rest(s) /\ Block \in Nat \ {0}
      /\ \A n \in Nat : n < Full(s) => (n + 1) * Block <= Len(s)
  BY Lengths, ModesAssumption
<1>2. k \in Nat /\ k * Block \in Nat /\ (k + 1) * Block = k * Block + Block
      /\ Done(s, k) = k * Block
  BY <1>1, Places DEF Done
<1>3. /\ IsList(whole) /\ Len(whole) = Block
      /\ \A j \in 1..Block : whole[j] = IF k * Block + j <= Len(s) THEN s[k * Block + j]
                                                                   ELSE Modes!Num(0)
  BY SliceUnits
<1> HIDE DEF whole
<1>4. /\ IsList(m) /\ Len(m) = Block
      /\ \A j \in 1..Block : m[j] = Modes!XorByte(whole[j], key[j])
  BY <1>3, XorUnits
<1>5. /\ IsList(mask) /\ Len(mask) = Len(s)
      /\ \A j \in 1..Len(s) : mask[j] = Modes!XorByte(s[j], Pad(c, j - 1))
  BY MaskedUnits
<1>6. \A j \in 1..Block : Pad(c, k * Block + j - 1) = key[j]
  <2> SUFFICES ASSUME NEW j \in 1..Block PROVE Pad(c, k * Block + j - 1) = key[j]
    OBVIOUS
  <2>1. (k * Block + j - 1) \div Block = k /\ (k * Block + j - 1) % Block = j - 1
    BY <1>2, PlaceIn
  <2>2. j - 1 + 1 = j
    BY <1>1
  <2> QED
    BY <2>1, <2>2 DEF Pad, Counted
<1> HIDE DEF m, key, mask
<1>7. ASSUME NEW j \in 1..Block, k * Block + j <= Len(s)
      PROVE  m[j] = mask[k * Block + j]
  <2>0. k * Block \in Nat /\ Len(s) \in Nat /\ Block \in Nat
    BY <1>1, <1>2
  <2>1. k * Block + j \in 1..Len(s)
    <3> HIDE DEF whole, key, m, mask, piece
    <3> DEFINE before == k * Block
    <3>1. before \in Nat /\ before + j <= Len(s)
      BY <1>7, <2>0
    <3> HIDE DEF before
    <3>2. before + j \in 1..Len(s)
      BY <2>0, <3>1
    <3> QED
      BY <3>2 DEF before
  <2>2. m[j] = Modes!XorByte(s[k * Block + j], key[j])
    BY <1>3, <1>4, <1>7
  <2>3. mask[k * Block + j] = Modes!XorByte(s[k * Block + j], Pad(c, k * Block + j - 1))
    <3> DEFINE place == k * Block + j
    <3>1. place \in 1..Len(s)
      BY <2>1
    <3> HIDE DEF place
    <3>2. mask[place] = Modes!XorByte(s[place], Pad(c, place - 1))
      BY <1>5, <3>1
    <3>3. place - 1 = k * Block + j - 1
      BY <1>1, <1>2 DEF place
    <3>4. mask[place] = Modes!XorByte(s[place], Pad(c, k * Block + j - 1))
      BY <3>2, <3>3
    <3> QED
      BY <3>4 DEF place
  <2> QED
    BY <1>6, <2>2, <2>3
<1>8. CASE k = Full(s)
  <2>1. piece = SubSeq(m, 1, Rest(s))
    BY <1>8 DEF Piece, m, whole, key
  <2>2. /\ IsList(piece) /\ Len(piece) = Rest(s) - 1 + 1
        /\ \A j \in 1..Rest(s) - 1 + 1 : piece[j] = m[1 + j - 1]
    <3> HIDE DEF piece
    <3> QED
      BY <1>1, <1>4, <2>1, Cut
  <2> HIDE DEF piece
  <2>3. Len(piece) = Rest(s) /\ \A j \in 1..Rest(s) : piece[j] = m[j]
    BY <1>1, <2>2
  <2>4. Done(s, k + 1) = Len(s)
    BY <1>1, <1>8 DEF Done
  <2>5. \A j \in 1..Rest(s) : j \in 1..Block /\ k * Block + j <= Len(s)
    BY <1>1, <1>2, <1>8
  <2>6. Done(s, k) + Len(piece) = Done(s, k + 1)
    BY <1>1, <1>2, <1>8, <2>3, <2>4
  <2>7. \A j \in 1..Len(piece) : piece[j] = mask[Done(s, k) + j]
    BY <1>2, <1>7, <2>3, <2>5
  <2> QED
    BY <2>2, <2>6, <2>7 DEF piece, mask
<1>9. CASE k # Full(s)
  <2>1. piece = m
    BY <1>9 DEF Piece, m, whole, key
  <2> HIDE DEF piece
  <2>2. k < Full(s) /\ k + 1 <= Full(s) /\ (k + 1) * Block <= Len(s)
    BY <1>1, <1>2, <1>9
  <2>3. Done(s, k + 1) = (k + 1) * Block
    BY <2>2 DEF Done
  <2>4. \A j \in 1..Block : k * Block + j <= Len(s)
    BY <1>1, <1>2, <2>2
  <2>5. Done(s, k) + Len(piece) = Done(s, k + 1)
    BY <1>2, <1>4, <2>1, <2>3
  <2>6. \A j \in 1..Len(piece) : piece[j] = mask[Done(s, k) + j]
    BY <1>2, <1>4, <1>7, <2>1, <2>4
  <2> QED
    BY <1>4, <2>1, <2>5, <2>6 DEF piece, mask
<1> QED
  BY <1>8, <1>9

(* The counter of a block is one more than that of the block before.       *)
LEMMA CounterMoves ==
  ASSUME NEW c \in 0..Counters - 1, NEW k \in Nat
  PROVE  Modes!Incremented(Counted(c, k)) = Counted(c, k + 1)
<1> DEFINE a == c + k  r == a % Counters  q == a \div Counters
<1>1. Counters \in Nat \ {0} /\ a \in Nat
  BY ModesAssumption
<1> HIDE DEF a
<1>2. q \in Nat /\ r \in Nat /\ r < Counters /\ a = Counters * q + r
  BY <1>1, DivMod
<1> HIDE DEF q, r
<1>3. r \in 0..Counters - 1
  BY <1>1, <1>2
<1>4. Modes!Count(Modes!Iv(r)) = r
  BY <1>3, CountOfIv
<1>5. (r + 1) % Counters = (a + 1) % Counters
  <2>1. CASE r + 1 < Counters
    <3>1. a + 1 = Counters * q + (r + 1) /\ r + 1 \in Nat /\ a + 1 \in Nat
      BY <1>1, <1>2, <2>1
    <3>2. (a + 1) % Counters = r + 1
      <4>1. q \in Int
        BY <1>2
      <4> DEFINE up == a + 1  rest == r + 1
      <4>2. up \in Nat /\ rest \in Nat /\ rest < Counters /\ up = Counters * q + rest
        BY <2>1, <3>1
      <4> HIDE DEF up, rest
      <4>3. up % Counters = rest
        BY <1>1, <4>1, <4>2, DivUnique
      <4> QED
        BY <4>3 DEF up, rest
    <3>3. (r + 1) % Counters = r + 1
      BY <1>1, <2>1, <3>1, ModSmall
    <3> QED
      BY <3>2, <3>3
  <2>2. CASE ~ (r + 1 < Counters)
    <3>1. r + 1 = Counters
      BY <1>1, <1>2, <2>2
    <3>2. Counters * (q + 1) = Counters * q + Counters /\ Counters * q \in Nat
      BY <1>1, <1>2
    <3>3. a + 1 = Counters * (q + 1) + 0 /\ Counters = Counters * 1 + 0 /\ a + 1 \in Nat
      BY <1>1, <1>2, <3>1, <3>2
    <3>4. (a + 1) % Counters = 0
      BY <1>1, <1>2, <3>3, DivUnique
    <3>5. Counters % Counters = 0
      BY <1>1, <3>3, DivUnique
    <3> QED
      BY <3>1, <3>4, <3>5
  <2> QED
    BY <2>1, <2>2
<1>6. a + 1 = c + (k + 1)
  BY <1>1 DEF a
<1> QED
  BY <1>4, <1>5, <1>6 DEF Modes!Incremented, Counted, r, a

LEMMA CounterStarts ==
  \A c \in 0..Counters - 1 : Counted(c, 0) = Modes!Iv(c)
<1> SUFFICES ASSUME NEW c \in 0..Counters - 1 PROVE Counted(c, 0) = Modes!Iv(c)
  OBVIOUS
<1>1. Counters \in Nat \ {0} /\ c + 0 = c
  BY ModesAssumption
<1>2. c % Counters = c
  BY <1>1, ModSmall
<1> QED
  BY <1>1, <1>2 DEF Counted

(***************************************************************************)
(* Block modes: the chain of CBC.                                          *)
(***************************************************************************)
(* CbcIn and Cbc of BlockModes with the message and the iv as parameters.  *)
CbcBlock(m, k) ==
  [j \in 1..Block |-> IF k * Block + j <= Len(m) THEN m[k * Block + j]
                      ELSE Modes!Num(Block - (Len(m) % Block))]
CbcChain(v, m) ==
  LET f[k \in Nat] == IF k = 0 THEN v
                      ELSE Modes!Aes(Modes!Xor(CbcBlock(m, k - 1), f[k - 1]))
  IN  f

LEMMA ChainOfModes == Modes!Cbc = CbcChain(iv, message)
BY Zenon DEF Modes!Cbc, Modes!CbcIn, CbcChain, CbcBlock

LEMMA ChainRule ==
  ASSUME NEW v, NEW m
  PROVE  /\ CbcChain(v, m)[0] = v
         /\ \A k \in Nat : CbcChain(v, m)[k + 1]
                             = Modes!Aes(Modes!Xor(CbcBlock(m, k), CbcChain(v, m)[k]))
<1> DEFINE next(k, b) == Modes!Aes(Modes!Xor(CbcBlock(m, k), b))
           rule(f, k) == IF k = 0 THEN v ELSE next(k - 1, f[k - 1])
           Whole(f) == f = [k \in Nat |-> rule(f, k)]
           Upto(f, n) == f = [k \in 0..n |-> rule(f, k)]
           S == {n \in Nat : \E f : Upto(f, n)}
<1>1. CbcChain(v, m) = CHOOSE f : Whole(f)
  BY Zenon DEF CbcChain
<1> HIDE DEF next
<1>2. 0 \in S
  <2> DEFINE f == [k \in 0..0 |-> v]
  <2>1. f = [k \in 0..0 |-> rule(f, k)]
    OBVIOUS
  <2> QED
    BY <2>1
<1>3. ASSUME NEW n \in Nat, NEW f, Upto(f, n)
      PROVE  \E longer : Upto(longer, n + 1)
  <2> DEFINE longer == [k \in 0..n + 1 |-> IF k <= n THEN f[k] ELSE next(n, f[n])]
  <2>1. ASSUME NEW k \in 0..n + 1 PROVE longer[k] = rule(longer, k)
    <3>1. CASE k <= n
      <4>1. longer[k] = f[k] /\ (k # 0 => longer[k - 1] = f[k - 1]) /\ k \in 0..n
        BY <3>1
      <4> HIDE DEF longer
      <4> QED
        BY <1>3, <4>1
    <3>2. CASE k = n + 1
      <4>1. /\ longer[k] = next(n, f[n]) /\ longer[k - 1] = f[n] /\ k # 0
            /\ k - 1 = n
        BY <3>2
      <4> HIDE DEF longer
      <4> QED
        BY <4>1
    <3> QED
      BY <3>1, <3>2
  <2>2. longer = [k \in 0..n + 1 |-> longer[k]]
    OBVIOUS
  <2> HIDE DEF longer, rule
  <2>3. Upto(longer, n + 1)
    BY <2>1, <2>2
  <2> QED
    BY <2>3
<1>4. ASSUME NEW n \in Nat PROVE \E f : Upto(f, n)
  <2>1. Nat \subseteq S
    <3>1. \A k \in Nat : k \in S => k + 1 \in S
      <4> HIDE DEF Upto
      <4> QED
        BY <1>3
    <3> HIDE DEF S
    <3> QED
      BY <1>2, <3>1, Induct
  <2> QED
    BY <2>1
<1> DEFINE F(n) == CHOOSE f : Upto(f, n)
<1>5. \A n \in Nat : Upto(F(n), n)
  <2> HIDE DEF Upto
  <2> QED
    BY <1>4, Zenon
<1> HIDE DEF F
<1>6. \A n \in Nat : \A k \in 0..n : F(n)[k] = rule(F(n), k)
  BY <1>5
<1>7. ASSUME NEW n \in Nat PROVE F(n + 1)[n] = F(n)[n]
  <2> DEFINE U == {k \in Nat : k <= n => F(n)[k] = F(n + 1)[k]}
  <2>1. 0 \in U
    BY <1>6
  <2>2. ASSUME NEW k \in Nat, k \in U PROVE k + 1 \in U
    <3>1. CASE k + 1 <= n
      <4>1. k + 1 \in 0..n /\ k + 1 \in 0..n + 1 /\ k + 1 - 1 = k /\ k + 1 # 0
        BY <3>1
      <4>2. F(n)[k + 1] = next(k, F(n)[k]) /\ F(n + 1)[k + 1] = next(k, F(n + 1)[k])
        BY <1>6, <4>1
      <4>3. F(n)[k] = F(n + 1)[k]
        BY <2>2, <3>1
      <4> QED
        BY <4>2, <4>3
    <3>2. CASE ~ (k + 1 <= n)
      BY <3>2
    <3> QED
      BY <3>1, <3>2
  <2> HIDE DEF U
  <2>3. Nat \subseteq U
    BY <2>1, <2>2, Induct
  <2> QED
    BY <2>3 DEF U
<1> DEFINE all0 == [k \in Nat |-> F(k)[k]]
<1>8. ASSUME NEW k \in Nat PROVE all0[k] = rule(all0, k)
  <2>1. all0[k] = rule(F(k), k)
    BY <1>6
  <2>2. CASE k = 0
    BY <2>1, <2>2
  <2>3. CASE k # 0
    <3>1. k - 1 \in Nat /\ k - 1 + 1 = k
      BY <2>3
    <3>2. F(k)[k - 1] = F(k - 1)[k - 1]
      BY <1>7, <3>1
    <3>3. all0[k - 1] = F(k)[k - 1]
      BY <3>1, <3>2
    <3> HIDE DEF all0
    <3> QED
      BY <2>1, <2>3, <3>3
  <2> QED
    BY <2>2, <2>3
<1>9. Whole(all0)
  <2>1. all0 = [k \in Nat |-> all0[k]]
    OBVIOUS
  <2> HIDE DEF all0, rule
  <2> QED
    BY <1>8, <2>1
<1>10. Whole(CbcChain(v, m))
  <2> HIDE DEF Whole, all0
  <2> QED
    BY <1>1, <1>9, Zenon
<1> DEFINE made == CbcChain(v, m)
<1> HIDE DEF made
<1>11. \A k \in Nat : made[k] = rule(made, k)
  BY <1>10 DEF made
<1>12. made[0] = v
  BY <1>11
<1>13. ASSUME NEW k \in Nat PROVE made[k + 1] = next(k, made[k])
  <2>1. k + 1 \in Nat /\ k + 1 # 0 /\ k + 1 - 1 = k
    OBVIOUS
  <2> QED
    BY <1>11, <2>1
<1> QED
  BY <1>12, <1>13 DEF made, next

LEMMA CbcBlockUnits ==
  \A m, k : /\ IsList(CbcBlock(m, k)) /\ Len(CbcBlock(m, k)) = Block
            /\ \A j \in 1..Block :
                 CbcBlock(m, k)[j] = IF k * Block + j <= Len(m) THEN m[k * Block + j]
                                     ELSE Modes!Num(Block - (Len(m) % Block))
BY ModesAssumption DEF CbcBlock, IsList

LEMMA ChainBlocks ==
  ASSUME NEW v, IsList(v), Len(v) = Block, NEW m, NEW k \in Nat
  PROVE  IsList(CbcChain(v, m)[k]) /\ Len(CbcChain(v, m)[k]) = Block
<1>1. CASE k = 0
  BY <1>1, ChainRule
<1>2. CASE k # 0
  <2>1. k - 1 \in Nat /\ k - 1 + 1 = k
    BY <1>2
  <2> DEFINE b == Modes!Xor(CbcBlock(m, k - 1), CbcChain(v, m)[k - 1])
  <2>2. CbcChain(v, m)[k] = Modes!Aes(b)
    BY <2>1, ChainRule
  <2> HIDE DEF b
  <2> QED
    BY <2>2, AesBlock
<1> QED
  BY <1>1, <1>2

LEMMA XorSwap ==
  ASSUME NEW a, IsList(a), NEW b, IsList(b), Len(a) = Len(b)
  PROVE  Modes!Xor(a, b) = Modes!Xor(b, a)
<1>1. \A u, w : Modes!XorByte(u, w) = Modes!XorByte(w, u)
  BY DEF Modes!XorByte
<1>2. \A j \in 1..Len(a) : Modes!Xor(a, b)[j] = Modes!Xor(b, a)[j]
  BY <1>1, XorUnits
<1>3. /\ IsList(Modes!Xor(a, b)) /\ Len(Modes!Xor(a, b)) = Len(a)
      /\ IsList(Modes!Xor(b, a)) /\ Len(Modes!Xor(b, a)) = Len(a)
  BY XorUnits
<1> QED
  BY <1>2, <1>3, Same

(* A block of the padded message, as CBCEncrypt reads it.                  *)
LEMMA CbcBlockRead ==
  ASSUME NEW m, IsList(m), Rest(m) # 0, NEW k \in 0..Full(m)
  PROVE  CbcBlock(m, k) =
           IF k = Full(m)
           THEN [j \in 1..Block |-> IF j > Rest(m) THEN Modes!Num(Block - Rest(m))
                                    ELSE SliceOf(m, k)[j]]
           ELSE SliceOf(m, k)
<1>1. /\ Full(m) \in Nat /\ Rest(m) \in Nat /\ Rest(m) < Block /\ Len(m) \in Nat
      /\ Len(m) = Full(m) * Block + Rest(m) /\ Block \in Nat \ {0}
      /\ \A n \in Nat : n < Full(m) => (n + 1) * Block <= Len(m)
  BY Lengths, ModesAssumption
<1>2. k \in Nat /\ k * Block \in Nat /\ (k + 1) * Block = k * Block + Block
  BY <1>1, Places
<1>3. /\ IsList(CbcBlock(m, k)) /\ Len(CbcBlock(m, k)) = Block
      /\ \A j \in 1..Block :
           CbcBlock(m, k)[j] = IF k * Block + j <= Len(m) THEN m[k * Block + j]
                               ELSE Modes!Num(Block - Rest(m))
  BY CbcBlockUnits DEF Rest
<1>4. /\ IsList(SliceOf(m, k)) /\ Len(SliceOf(m, k)) = Block
      /\ \A j \in 1..Block : k * Block + j <= Len(m) => SliceOf(m, k)[j] = m[k * Block + j]
  BY SliceUnits
<1> DEFINE b == CbcBlock(m, k)  read0 == SliceOf(m, k)
<1> HIDE DEF b, read0
<1>5. CASE k = Full(m)
  <2>1. \A j \in 1..Block : k * Block + j <= Len(m) <=> ~ (j > Rest(m))
    <3> DEFINE before == k * Block
    <3>1. before \in Nat /\ Len(m) = before + Rest(m) /\ Rest(m) \in Nat /\ Block \in Nat
      BY <1>1, <1>2, <1>5
    <3> HIDE DEF before
    <3>2. \A j \in 1..Block : before + j <= Len(m) <=> ~ (j > Rest(m))
      BY ONLY <3>1
    <3> QED
      BY <3>2 DEF before
  <2> DEFINE c == [j \in 1..Block |-> IF j > Rest(m) THEN Modes!Num(Block - Rest(m))
                                      ELSE read0[j]]
  <2>2. \A j \in 1..Block : b[j] = IF j > Rest(m) THEN Modes!Num(Block - Rest(m))
                                   ELSE read0[j]
    BY <1>3, <1>4, <2>1 DEF b, read0
  <2>3. b = c
    <3>1. b = [j \in 1..Block |-> b[j]]
      BY <1>3 DEF IsList, b
    <3> QED
      BY <2>2, <3>1
  <2> QED
    BY <1>5, <2>3 DEF b, read0
<1>6. CASE k # Full(m)
  <2>1. (k + 1) * Block <= Len(m)
    BY <1>1, <1>2, <1>6
  <2>2. \A j \in 1..Block : k * Block + j <= Len(m)
    BY <1>1, <1>2, <2>1
  <2>3. \A j \in 1..Len(b) : b[j] = read0[j]
    BY <1>3, <1>4, <2>2 DEF b, read0
  <2>4. b = read0
    BY <1>3, <1>4, <2>3, Same DEF b, read0
  <2> QED
    BY <1>6, <2>4 DEF b, read0
<1> QED
  BY <1>5, <1>6

(* What CBCDecrypt makes of a block of the chain and the block before it.  *)
LEMMA ChainOpened ==
  ASSUME NEW v, NEW m, NEW k \in Nat
  PROVE  Modes!Xor(Modes!AesInverse(CbcChain(v, m)[k + 1]), CbcChain(v, m)[k])
           = CbcBlock(m, k)
<1> DEFINE before == CbcChain(v, m)[k]  b == CbcBlock(m, k)  mixed == Modes!Xor(b, before)
<1>1. CbcChain(v, m)[k + 1] = Modes!Aes(mixed)
  BY ChainRule
<1>2. IsList(b)
  BY CbcBlockUnits
<1> HIDE DEF b, before
<1>3. Modes!Xor(mixed, before) = b
  BY <1>2, XorTwice
<1> HIDE DEF mixed
<1>4. Modes!AesInverse(Modes!Aes(mixed)) = mixed
  BY AesBack
<1> QED
  BY <1>1, <1>3, <1>4 DEF b, before

(* The blocks of the padded message give the message and the padding.      *)
LEMMA CbcBlockBegins ==
  ASSUME NEW m, IsList(m), NEW k \in 0..Full(m), k < Full(m) \/ Rest(m) # 0
  PROVE  /\ k < Full(m) => \A j \in 1..Block : CbcBlock(m, k)[j] = m[k * Block + j]
         /\ k = Full(m) =>
              /\ \A j \in 1..Rest(m) : CbcBlock(m, k)[j] = m[k * Block + j]
              /\ CbcBlock(m, k)[Block] = Modes!Num(Block - Rest(m))
<1>1. /\ Full(m) \in Nat /\ Rest(m) \in Nat /\ Rest(m) < Block /\ Len(m) \in Nat
      /\ Len(m) = Full(m) * Block + Rest(m) /\ Block \in Nat \ {0}
      /\ \A n \in Nat : n < Full(m) => (n + 1) * Block <= Len(m)
  BY Lengths, ModesAssumption
<1>2. k \in Nat /\ k * Block \in Nat /\ (k + 1) * Block = k * Block + Block
  BY <1>1, Places
<1>3. \A j \in 1..Block :
        CbcBlock(m, k)[j] = IF k * Block + j <= Len(m) THEN m[k * Block + j]
                            ELSE Modes!Num(Block - Rest(m))
  BY CbcBlockUnits DEF Rest
<1> DEFINE b == CbcBlock(m, k)
<1> HIDE DEF b
<1>4. ASSUME k < Full(m) PROVE \A j \in 1..Block : b[j] = m[k * Block + j]
  <2>1. \A j \in 1..Block : k * Block + j <= Len(m)
    BY <1>1, <1>2, <1>4
  <2> QED
    BY <1>3, <2>1 DEF b
<1>5. ASSUME k = Full(m)
      PROVE  /\ \A j \in 1..Rest(m) : b[j] = m[k * Block + j]
             /\ b[Block] = Modes!Num(Block - Rest(m))
  <2>1. \A j \in 1..Rest(m) : j \in 1..Block /\ k * Block + j <= Len(m)
    BY <1>1, <1>2, <1>5
  <2>2. Block \in 1..Block /\ ~ (k * Block + Block <= Len(m))
    BY <1>1, <1>2, <1>5
  <2> QED
    BY <1>3, <2>1, <2>2 DEF b
<1> QED
  BY <1>4, <1>5 DEF b

(***************************************************************************)
(* Block modes: the cipher blocks of CBC.                                  *)
(***************************************************************************)
CbcPart(s, n, v, m) ==
  /\ IsList(s) /\ Len(s) = n * Block
  /\ \A q \in Nat : q < n => BlockOf(s, q) = CbcChain(v, m)[q + 1]

LEMMA CbcNothing ==
  \A v, m : CbcPart(<<>>, 0, v, m)
<1>1. IsList(<<>>) /\ Len(<<>>) = 0 /\ 0 * Block = 0
  BY Tuples, Places
<1>2. \A q \in Nat : ~ (q < 0)
  OBVIOUS
<1> QED
  BY <1>1, <1>2 DEF CbcPart

LEMMA CbcMore ==
  ASSUME NEW s, NEW n \in Nat, NEW v, IsList(v), Len(v) = Block, NEW m,
         CbcPart(s, n, v, m)
  PROVE  CbcPart(Join(s, CbcChain(v, m)[n + 1]), n + 1, v, m)
<1> DEFINE b == CbcChain(v, m)[n + 1]  both == Join(s, b)
<1>1. IsList(b) /\ Len(b) = Block
  BY ChainBlocks
<1>2. IsList(s) /\ Len(s) = n * Block
      /\ \A q \in Nat : q < n => BlockOf(s, q) = CbcChain(v, m)[q + 1]
  BY DEF CbcPart
<1> HIDE DEF b
<1>3. IsList(both) /\ Len(both) = Len(s) + Len(b)
  BY <1>1, <1>2, JoinIsList
<1>4. (n + 1) * Block = n * Block + Block /\ (0 + 1) * Block = Block /\ Block \in Nat
  BY Places, ModesAssumption
<1>5. /\ \A q \in Nat : q < n => BlockOf(both, q) = BlockOf(s, q)
      /\ BlockOf(both, n + 0) = BlockOf(b, 0)
  BY <1>1, <1>2, <1>4, BlockJoined
<1>6. BlockOf(b, 0) = b
  BY <1>1, OneBlock
<1> HIDE DEF both
<1>7. ASSUME NEW q \in Nat, q < n + 1
      PROVE  BlockOf(both, q) = CbcChain(v, m)[q + 1]
  <2>1. CASE q < n
    BY <1>2, <1>5, <2>1
  <2>2. CASE ~ (q < n)
    <3>1. q = n /\ n + 0 = n
      BY <1>7, <2>2
    <3> QED
      BY <1>5, <1>6, <3>1 DEF b
  <2> QED
    BY <2>1, <2>2
<1>8. CbcPart(both, n + 1, v, m)
  BY <1>1, <1>2, <1>3, <1>4, <1>7 DEF CbcPart
<1> QED
  BY <1>8 DEF both, b

Chained(whole, n, v, m) ==
  /\ IsList(whole) /\ Len(whole) \div Block = n + 1
  /\ \A k \in 0..n : SubSeq(whole, k * Block + 1, (k + 1) * Block) = CbcChain(v, m)[k]

(* The iv before the cipher blocks is the first block of the chain.        *)
LEMMA CbcPrinted ==
  ASSUME NEW s, NEW n \in Nat, NEW v, IsList(v), Len(v) = Block, NEW m,
         CbcPart(s, n, v, m)
  PROVE  Chained(Join(v, s), n, v, m)
<1> DEFINE whole == Join(v, s)
<1>1. IsList(s) /\ Len(s) = n * Block
      /\ \A q \in Nat : q < n => BlockOf(s, q) = CbcChain(v, m)[q + 1]
  BY DEF CbcPart
<1>2. IsList(whole) /\ Len(whole) = Block + n * Block
  BY <1>1, JoinIsList
<1>3. /\ Block \in Nat \ {0} /\ n * Block \in Nat /\ Block * (n + 1) = (n + 1) * Block
      /\ (n + 1) * Block = n * Block + Block /\ 1 * Block = Block /\ 0 * Block = 0
  BY Places, ModesAssumption
<1>4. /\ BlockOf(whole, 0) = BlockOf(v, 0)
      /\ \A q \in Nat : (q + 1) * Block <= Len(s) => BlockOf(whole, 1 + q) = BlockOf(s, q)
  <2>1. 0 < 1 /\ 1 \in Nat /\ Len(v) = 1 * Block
    BY <1>3
  <2> QED
    BY <1>1, <2>1, BlockJoined
<1> HIDE DEF whole
<1>5. Len(whole) \div Block = n + 1
  <2>1. Len(whole) = Block * (n + 1) + 0 /\ Len(whole) \in Nat /\ n + 1 \in Int
    BY <1>2, <1>3
  <2>2. 0 \in Nat /\ 0 < Block
    BY <1>3
  <2> QED
    BY <1>3, <2>1, <2>2, DivUnique
<1>6. ASSUME NEW k \in 0..n
      PROVE  SubSeq(whole, k * Block + 1, (k + 1) * Block) = CbcChain(v, m)[k]
  <2>1. k \in Nat /\ k < n + 1
    OBVIOUS
  <2>2. (k + 1) * Block <= Len(whole)
    BY <1>2, <1>3, <2>1, Places
  <2>3. SubSeq(whole, k * Block + 1, (k + 1) * Block) = BlockOf(whole, k)
    BY <1>2, <2>1, <2>2, BlockIsSlice
  <2>4. BlockOf(whole, k) = CbcChain(v, m)[k]
    <3>1. CASE k = 0
      BY <1>4, <3>1, OneBlock, ChainRule
    <3>2. CASE k # 0
      <4>1. k - 1 \in Nat /\ k - 1 < n /\ 1 + (k - 1) = k /\ (k - 1) + 1 = k
        BY <3>2
      <4>2. k * Block <= Len(s)
        BY <1>1, <4>1, Places
      <4>3. BlockOf(whole, k) = BlockOf(s, k - 1)
        BY <1>4, <4>1, <4>2
      <4> QED
        BY <1>1, <4>1, <4>3
    <3> QED
      BY <3>1, <3>2
  <2> QED
    BY <2>3, <2>4
<1> QED
  BY <1>2, <1>5, <1>6 DEF Chained, whole

(***************************************************************************)
(* Block modes: the inductive invariant.                                   *)
(***************************************************************************)
FirstCount == Modes!Count(iv)

ModesTypes ==
  /\ blockmode \in {"CBC", "CTR", "cbc", "ctr"}
  /\ modeStep \in {"flags", "encrypt", "cipher", "decrypt", "done", "panic"}
  /\ IsList(message) /\ Len(message) \in 1..MaxMessage
  /\ IsList(input) /\ capacity \in Nat /\ capacity >= Len(input)
  /\ i \in 0..Full(input) + 1
  /\ FirstCount \in 0..Counters - 1 /\ iv = Modes!Iv(FirstCount)

ModesFlags ==
  modeStep = "flags" => input = message /\ i = 0 /\ chain = iv

(* CTR has masked the blocks up to the loop's, and CBC has chained them.   *)
CtrEncrypting ==
  modeStep = "encrypt" /\ blockmode = "CTR" =>
    /\ input = message /\ chain = Counted(FirstCount, i)
    /\ \E made : output = Join(iv, made)
                   /\ Begins(made, Masked(message, FirstCount), Done(message, i))
CbcEncrypting ==
  modeStep = "encrypt" /\ blockmode = "CBC" =>
    /\ input = message /\ IsList(output)
    /\ Rest(message) # 0 => /\ CbcPart(output, i, iv, message)
                            /\ chain = CbcChain(iv, message)[i]

Encrypted(made) ==
  /\ IsList(made)
  /\ blockmode = "CTR" => made = Masked(message, FirstCount)
  /\ blockmode = "CBC" /\ Rest(message) # 0 =>
       CbcPart(made, Full(message) + 1, iv, message)
ModesPrinted ==
  modeStep = "cipher" => \E made : cipher = Join(iv, made) /\ Encrypted(made)

CtrDecrypting ==
  modeStep = "decrypt" /\ blockmode = "CTR" =>
    /\ input = Masked(message, FirstCount) /\ chain = Counted(FirstCount, i)
    /\ Begins(output, Masked(input, FirstCount), Done(input, i))
CbcDecrypting ==
  modeStep = "decrypt" /\ blockmode = "CBC" /\ Rest(message) # 0 =>
    /\ CbcPart(input, Full(message) + 1, iv, message)
    /\ i <= Full(message) /\ chain = CbcChain(iv, message)[i]
    /\ Begins(output, message, i * Block)

ModesInv ==
  /\ ModesTypes /\ ModesFlags
  /\ CtrEncrypting /\ CbcEncrypting
  /\ ModesPrinted
  /\ CtrDecrypting /\ CbcDecrypting
  /\ Modes!RoundTrip /\ Modes!CipherIsReference /\ Modes!PanicHasACause

LEMMA ModesTypesHold == ModesTypes => Modes!TypeOK
BY DEF ModesTypes, Modes!TypeOK, Full

(* A step that stays in the run of the command leaves these as they were.  *)
LEMMA TypesKept ==
  ASSUME ModesTypes, UNCHANGED <<blockmode, message, iv, input, capacity>>,
         i' \in 0..Full(input) + 1,
         modeStep' \in {"flags", "encrypt", "cipher", "decrypt", "done", "panic"}
  PROVE  ModesTypes' /\ FirstCount' = FirstCount
<1>1. FirstCount' = FirstCount
  BY DEF FirstCount
<1> QED
  BY <1>1 DEF ModesTypes

LEMMA NowEncrypting ==
  ASSUME ModesTypes', modeStep' = "encrypt", CtrEncrypting', CbcEncrypting'
  PROVE  ModesInv'
BY DEF ModesInv, ModesFlags, ModesPrinted, CtrDecrypting, CbcDecrypting,
       Modes!RoundTrip, Modes!CipherIsReference, Modes!PanicHasACause

LEMMA NowPrinted ==
  ASSUME ModesTypes', modeStep' = "cipher", ModesPrinted', Modes!CipherIsReference'
  PROVE  ModesInv'
BY DEF ModesInv, ModesFlags, CtrEncrypting, CbcEncrypting, CtrDecrypting, CbcDecrypting,
       Modes!RoundTrip, Modes!PanicHasACause

LEMMA NowDecrypting ==
  ASSUME ModesTypes', modeStep' = "decrypt", CtrDecrypting', CbcDecrypting'
  PROVE  ModesInv'
BY DEF ModesInv, ModesFlags, ModesPrinted, CtrEncrypting, CbcEncrypting,
       Modes!RoundTrip, Modes!CipherIsReference, Modes!PanicHasACause

LEMMA NowDone ==
  ASSUME ModesTypes', modeStep' = "done", Modes!RoundTrip'
  PROVE  ModesInv'
BY DEF ModesInv, ModesFlags, ModesPrinted, CtrEncrypting, CbcEncrypting, CtrDecrypting,
       CbcDecrypting, Modes!CipherIsReference, Modes!PanicHasACause

LEMMA NowPanic ==
  ASSUME ModesTypes', modeStep' = "panic", Modes!PanicHasACause'
  PROVE  ModesInv'
BY DEF ModesInv, ModesFlags, ModesPrinted, CtrEncrypting, CbcEncrypting, CtrDecrypting,
       CbcDecrypting, Modes!CipherIsReference, Modes!RoundTrip

LEMMA TooShort ==
  ASSUME ModesInv, i <= Full(input), ~ Modes!Fits(i), Modes!Panic
  PROVE  ModesInv'
<1>1. /\ Full(input) \in Nat /\ Block \in Nat \ {0} /\ i \in Nat /\ capacity \in Nat
      /\ ModesTypes /\ i \in 0..Full(input) + 1
  BY Lengths, ModesAssumption DEF ModesInv, ModesTypes
<1>2. /\ UNCHANGED <<blockmode, message, iv, input, capacity, i>> /\ modeStep' = "panic"
  BY DEF Modes!Panic, Modes!run
<1>3. ModesTypes'
  BY <1>1, <1>2, TypesKept
<1>4. capacity < Block * (Full(input) + 1)
  <2>1. (i + 1) * Block <= (Full(input) + 1) * Block
    <3>1. CASE i = Full(input)
      BY <1>1, <3>1
    <3>2. CASE i # Full(input)
      <4>1. i < Full(input) + 1 /\ Full(input) + 1 \in Nat
        BY <1>1, <3>2
      <4> QED
        BY <1>1, <4>1, Places
    <3> QED
      BY <3>1, <3>2
  <2>2. /\ Block * (Full(input) + 1) = (Full(input) + 1) * Block
        /\ (Full(input) + 1) * Block \in Nat /\ (i + 1) * Block \in Nat
    <3>1. Full(input) + 1 \in Nat /\ i + 1 \in Nat
      BY <1>1
    <3> QED
      BY <3>1, Places
  <2>3. ~ ((i + 1) * Block <= capacity)
    BY DEF Modes!Fits
  <2> QED
    BY <1>1, <2>1, <2>2, <2>3
<1>5. Modes!PanicHasACause'
  <2>1. (capacity < Block * (Full(input) + 1))'
    BY <1>2, <1>4 DEF Full
  <2> QED
    BY <2>1 DEF Modes!PanicHasACause, Full
<1> QED
  BY <1>2, <1>3, <1>5, NowPanic

(***************************************************************************)
(* Block modes: the steps.                                                 *)
(***************************************************************************)
LEMMA ModesStart ==
  ASSUME Modes!Init PROVE ModesInv
<1>1. PICK len \in 1..MaxMessage : message = [j \in 1..len |-> {<<"byte", j>>}]
  BY DEF Modes!Init
<1>2. IsList(message) /\ Len(message) = len
  BY <1>1, ModesAssumption DEF IsList
<1>3. PICK c \in StartCounts : iv = Modes!Iv(c)
  BY DEF Modes!Init
<1>4. c \in 0..Counters - 1
  BY ModesAssumption
<1>5. FirstCount \in 0..Counters - 1 /\ iv = Modes!Iv(FirstCount)
  BY <1>3, <1>4, CountOfIv DEF FirstCount
<1>6. /\ blockmode \in {"CBC", "CTR", "cbc", "ctr"} /\ modeStep = "flags" /\ input = message
      /\ capacity \in Len(message) .. Len(message) + Block /\ i = 0 /\ chain = iv
  BY DEF Modes!Init
<1>7. Full(input) \in Nat
  BY <1>2, <1>6, Lengths
<1>8. capacity \in Nat /\ capacity >= Len(input) /\ i \in 0..Full(input) + 1
      /\ Len(message) \in 1..MaxMessage
  BY <1>2, <1>6, <1>7, ModesAssumption
<1>9. ModesTypes
  BY <1>2, <1>5, <1>6, <1>8 DEF ModesTypes
<1>10. ModesFlags
  BY <1>6 DEF ModesFlags
<1> QED
  BY <1>6, <1>9, <1>10
  DEF ModesInv, ModesPrinted, CtrEncrypting, CbcEncrypting, CtrDecrypting,
      CbcDecrypting, Modes!RoundTrip, Modes!CipherIsReference, Modes!PanicHasACause

LEMMA IvIsBlock ==
  ASSUME ModesTypes PROVE IsList(iv) /\ Len(iv) = Block
BY IvBlock DEF ModesTypes

LEMMA MainKeeps ==
  ASSUME ModesInv, Modes!Main PROVE ModesInv'
<1>1. /\ ModesTypes /\ input = message /\ i = 0 /\ chain = iv /\ IsList(message)
      /\ blockmode \in {"CBC", "CTR", "cbc", "ctr"} /\ FirstCount \in 0..Counters - 1
      /\ iv = Modes!Iv(FirstCount) /\ i \in 0..Full(input) + 1
  BY DEF ModesInv, ModesFlags, ModesTypes, Modes!Main
<1>2. /\ UNCHANGED <<blockmode, message, iv, input, capacity, i, chain, cipher>>
      /\ modeStep' = IF blockmode \in {"CBC", "CTR"} THEN "encrypt" ELSE "done"
      /\ output' = IF blockmode = "CTR" THEN chain ELSE <<>>
  BY DEF Modes!Main, Modes!run
<1>3. ModesTypes' /\ FirstCount' = FirstCount
  BY <1>1, <1>2, TypesKept
<1>4. CASE blockmode \in {"CBC", "CTR"}
  <2>1. modeStep' = "encrypt"
    BY <1>2, <1>4
  <2>2. CtrEncrypting'
    <3> SUFFICES ASSUME blockmode = "CTR" PROVE CtrEncrypting'
      BY <1>2 DEF CtrEncrypting
    <3>1. output' = Join(iv, <<>>)
      BY <1>1, <1>2, IvIsBlock, JoinNothing DEF Join
    <3>2. Done(message, 0) = 0
      BY <1>1, Lengths, Places DEF Done
    <3>3. Begins(<<>>, Masked(message, FirstCount), Done(message, i))
      BY <1>1, <3>2, BeginsNothing
    <3>4. chain = Counted(FirstCount, i)
      BY <1>1, CounterStarts
    <3> QED
      BY <1>1, <1>2, <1>3, <3>1, <3>3, <3>4 DEF CtrEncrypting
  <2>3. CbcEncrypting'
    <3> SUFFICES ASSUME blockmode = "CBC" PROVE CbcEncrypting'
      BY <1>2 DEF CbcEncrypting
    <3>1. output' = <<>> /\ IsList(<<>>)
      BY <1>2, Tuples
    <3>2. CbcPart(<<>>, i, iv, message) /\ chain = CbcChain(iv, message)[i]
      BY <1>1, CbcNothing, ChainRule
    <3> QED
      BY <1>1, <1>2, <3>1, <3>2 DEF CbcEncrypting
  <2> QED
    BY <1>3, <2>1, <2>2, <2>3, NowEncrypting
<1>5. CASE ~ (blockmode \in {"CBC", "CTR"})
  <2>1. modeStep' = "done" /\ blockmode' # "CTR" /\ blockmode' # "CBC"
    BY <1>2, <1>5
  <2> QED
    BY <1>3, <2>1, NowDone DEF Modes!RoundTrip
<1> QED
  BY <1>4, <1>5

LEMMA CtrBlockMade ==
  ASSUME ModesTypes, Modes!CTRBlock, Modes!Fits(i), chain = Counted(FirstCount, i)
  PROVE  LET piece == Piece(input, FirstCount, i)
         IN  /\ output' = Join(output, piece) /\ IsList(piece)
             /\ chain' = Counted(FirstCount, i + 1)
             /\ i' = i + 1 /\ i + 1 \in 0..Full(input) + 1
             /\ UNCHANGED <<blockmode, message, iv, modeStep, input, capacity, cipher>>
             /\ \A made : Begins(made, Masked(input, FirstCount), Done(input, i)) =>
                  Begins(Join(made, piece), Masked(input, FirstCount), Done(input, i + 1))
<1> DEFINE piece == Piece(input, FirstCount, i)
           m == Modes!Xor(Modes!Slice(i), Modes!Aes(chain))
<1>1. /\ Full(input) \in Nat /\ i \in 0..Full(input) + 1 /\ IsList(input)
      /\ FirstCount \in 0..Counters - 1
  BY Lengths DEF ModesTypes
<1>2. i < Full(input) + 1
  BY DEF Modes!CTRBlock, Modes!CtrBlocks, Full
<1>3. i \in Nat /\ i \in 0..Full(input) /\ i + 1 \in 0..Full(input) + 1
      /\ (i = (Full(input) + 1) - 1 <=> i = Full(input))
  BY <1>1, <1>2
<1>4. /\ output' = output \o (IF i = (Full(input) + 1) - 1
                              THEN SubSeq(m, 1, Len(input) % Block) ELSE m)
      /\ chain' = Modes!Incremented(chain) /\ i' = i + 1
      /\ UNCHANGED <<blockmode, message, iv, modeStep, input, capacity, cipher>>
  <2>1. /\ output' = output \o (IF i = Modes!CtrBlocks - 1
                               THEN SubSeq(m, 1, Len(input) % Block) ELSE m)
        /\ chain' = Modes!Incremented(chain) /\ i' = i + 1
        /\ UNCHANGED <<Modes!run, modeStep, input, capacity, cipher>>
    BY Zenon DEF Modes!CTRBlock
  <2>2. Modes!CtrBlocks = Full(input) + 1
    BY DEF Modes!CtrBlocks, Full
  <2>3. output' = output \o (IF i = (Full(input) + 1) - 1
                              THEN SubSeq(m, 1, Len(input) % Block) ELSE m)
    <3> DEFINE cut == SubSeq(m, 1, Len(input) % Block)
    <3> HIDE DEF m, cut
    <3> QED
      BY <2>1, <2>2, Zenon DEF cut
  <2>4. UNCHANGED <<blockmode, message, iv, modeStep, input, capacity, cipher>>
    BY <2>1 DEF Modes!run
  <2> HIDE DEF m
  <2> QED
    BY <2>1, <2>3, <2>4
<1>5. m = Modes!Xor(SliceOf(input, i), Modes!Aes(Counted(FirstCount, i)))
  BY DEF Modes!Slice, SliceOf
<1> HIDE DEF m
<1>6. output' = Join(output, piece)
  BY <1>3, <1>4, <1>5 DEF Piece, Join, Rest
<1>7. /\ IsList(piece) /\ Done(input, i) + Len(piece) = Done(input, i + 1)
      /\ \A j \in 1..Len(piece) :
           piece[j] = Masked(input, FirstCount)[Done(input, i) + j]
  BY <1>1, <1>3, PieceFits
<1>8. chain' = Counted(FirstCount, i + 1)
  BY <1>1, <1>3, <1>4, CounterMoves
<1> HIDE DEF piece
<1>9. ASSUME NEW made, Begins(made, Masked(input, FirstCount), Done(input, i))
      PROVE  Begins(Join(made, piece), Masked(input, FirstCount), Done(input, i + 1))
  <2>1. Begins(Join(made, piece), Masked(input, FirstCount), Done(input, i) + Len(piece))
    BY <1>7, <1>9, BeginsMore
  <2> QED
    BY <1>7, <2>1
<1> QED
  BY <1>3, <1>4, <1>6, <1>7, <1>8, <1>9 DEF piece

LEMMA CtrBlockOr ==
  ASSUME ModesInv, Modes!CTRBlock, ~ Modes!Fits(i)
  PROVE  ModesInv'
<1>1. i < Full(input) + 1 /\ Modes!Panic
  BY DEF Modes!CTRBlock, Modes!CtrBlocks, Full
<1>2. Full(input) \in Nat /\ i \in 0..Full(input) + 1
  BY Lengths DEF ModesInv, ModesTypes
<1>3. i <= Full(input)
  BY <1>1, <1>2
<1> QED
  BY <1>1, <1>3, TooShort

LEMMA AllMasked ==
  ASSUME NEW s, IsList(s), NEW c, NEW made,
         Begins(made, Masked(s, c), Done(s, Full(s) + 1))
  PROVE  made = Masked(s, c)
<1>1. Full(s) \in Nat /\ ~ (Full(s) + 1 <= Full(s))
  BY Lengths
<1>2. Done(s, Full(s) + 1) = Len(s)
  BY <1>1 DEF Done
<1>3. IsList(Masked(s, c)) /\ Len(Masked(s, c)) = Len(s)
  BY MaskedUnits
<1> QED
  BY <1>2, <1>3, BeginsAll

(* The printed bytes of CTR, each hidden by the byte of its counter.       *)
LEMMA CtrIsReference ==
  ASSUME NEW m, IsList(m), NEW v, IsList(v), Len(v) = Block, NEW c,
         NEW whole, whole = Join(v, Masked(m, c))
  PROVE  /\ Len(whole) = Len(m) + Block
         /\ \A j \in 0..Len(m) - 1 :
              whole[Block + j + 1] = Modes!XorByte(m[j + 1], Pad(c, j))
<1> DEFINE made == Masked(m, c)
<1>1. Block \in Nat /\ Len(m) \in Nat
  BY ModesAssumption DEF IsList
<1>2. /\ IsList(made) /\ Len(made) = Len(m)
      /\ \A j \in 1..Len(m) : made[j] = Modes!XorByte(m[j], Pad(c, j - 1))
  BY MaskedUnits
<1> HIDE DEF made
<1>3. Len(whole) = Block + Len(m)
  BY <1>2, JoinIsList DEF made
<1>4. \A j \in 1..Len(m) : whole[Block + j] = made[j]
  <2>1. \A j \in 1..Len(made) : Join(v, made)[Len(v) + j] = made[j]
    <3>1. IsList(v) /\ IsList(made)
      BY <1>2
    <3> QED
      BY ONLY <3>1, JoinUnits
  <2> QED
    BY <1>2, <2>1 DEF made
<1>5. ASSUME NEW j \in 0..Len(m) - 1
      PROVE  whole[Block + j + 1] = Modes!XorByte(m[j + 1], Pad(c, j))
  <2>1. j + 1 \in 1..Len(m) /\ Block + (j + 1) = Block + j + 1 /\ j + 1 - 1 = j
    BY <1>1
  <2>2. whole[Block + (j + 1)] = made[j + 1]
    BY <1>4, <2>1
  <2>3. made[j + 1] = Modes!XorByte(m[j + 1], Pad(c, j + 1 - 1))
    BY <1>2, <2>1
  <2> QED
    BY <2>1, <2>2, <2>3
<1> QED
  BY <1>1, <1>3, <1>5

LEMMA CtrEncryptKeeps ==
  ASSUME ModesInv, Modes!CTREncrypt PROVE ModesInv'
<1>1. /\ ModesTypes /\ blockmode = "CTR" /\ modeStep = "encrypt" /\ input = message
      /\ chain = Counted(FirstCount, i) /\ IsList(message) /\ IsList(iv)
      /\ i \in 0..Full(input) + 1
  BY IvIsBlock DEF ModesInv, ModesTypes, CtrEncrypting, Modes!CTREncrypt
<1>2. PICK made : output = Join(iv, made)
                    /\ Begins(made, Masked(message, FirstCount), Done(message, i))
  BY <1>1 DEF ModesInv, CtrEncrypting
<1>3. IsList(made)
  BY <1>2 DEF Begins
<1>4. CASE Modes!CTRBlock /\ ~ Modes!Fits(i)
  BY <1>4, CtrBlockOr
<1>5. CASE Modes!CTRBlock /\ Modes!Fits(i)
  <2> DEFINE piece == Piece(input, FirstCount, i)  more == Join(made, piece)
  <2>1. /\ output' = Join(output, piece) /\ IsList(piece)
        /\ chain' = Counted(FirstCount, i + 1)
        /\ i' = i + 1 /\ i + 1 \in 0..Full(input) + 1
        /\ UNCHANGED <<blockmode, message, iv, modeStep, input, capacity, cipher>>
        /\ \A s : Begins(s, Masked(input, FirstCount), Done(input, i)) =>
             Begins(Join(s, piece), Masked(input, FirstCount), Done(input, i + 1))
    BY <1>1, <1>5, CtrBlockMade
  <2> HIDE DEF piece
  <2>2. Begins(more, Masked(message, FirstCount), Done(message, i + 1))
    BY <1>1, <1>2, <2>1
  <2>3. output' = Join(iv, more)
    BY <1>1, <1>2, <1>3, <2>1, JoinAgain
  <2> HIDE DEF more
  <2>4. ModesTypes' /\ FirstCount' = FirstCount
    BY <1>1, <2>1, TypesKept
  <2>5. CtrEncrypting'
    BY <1>1, <2>1, <2>2, <2>3, <2>4 DEF CtrEncrypting
  <2>6. CbcEncrypting'
    BY <1>1, <2>1 DEF CbcEncrypting
  <2> QED
    BY <1>1, <2>1, <2>4, <2>5, <2>6, NowEncrypting
<1>6. CASE /\ i = Modes!CtrBlocks /\ cipher' = output /\ modeStep' = "cipher"
           /\ UNCHANGED <<Modes!run, input, capacity, i, chain, output>>
  <2>1. i = Full(message) + 1
    BY <1>1, <1>6 DEF Modes!CtrBlocks, Full
  <2>2. made = Masked(message, FirstCount)
    BY <1>1, <1>2, <2>1, AllMasked
  <2>3. UNCHANGED <<blockmode, message, iv, input, capacity, i>> /\ modeStep' = "cipher"
    BY <1>6 DEF Modes!run
  <2>4. ModesTypes' /\ FirstCount' = FirstCount
    BY <1>1, <2>3, TypesKept
  <2>5. cipher' = Join(iv, made)
    BY <1>2, <1>6
  <2>6. Encrypted(made)'
    BY <1>1, <1>3, <2>2, <2>3, <2>4 DEF Encrypted
  <2>7. ModesPrinted'
    BY <2>3, <2>5, <2>6 DEF ModesPrinted
  <2>8. /\ Len(cipher') = Len(message) + Block
        /\ \A j \in 0..Len(message) - 1 :
             cipher'[Block + j + 1] = Modes!XorByte(message[j + 1], Pad(FirstCount, j))
    BY <1>1, <2>2, <2>5, IvIsBlock, CtrIsReference
  <2>9. \A j : Pad(FirstCount, j)
               = Modes!Aes(Modes!Iv((FirstCount + j \div Block) % Counters))[(j % Block) + 1]
    BY DEF Pad
  <2>10. Modes!CipherIsReference'
    BY <1>1, <2>3, <2>4, <2>8, <2>9 DEF Modes!CipherIsReference, Modes!CtrCount, FirstCount
  <2> QED
    BY <2>3, <2>4, <2>7, <2>10, NowPrinted
<1> QED
  BY <1>4, <1>5, <1>6 DEF Modes!CTREncrypt

LEMMA CtrDecryptKeeps ==
  ASSUME ModesInv, Modes!CTRDecrypt PROVE ModesInv'
<1>1. /\ ModesTypes /\ blockmode = "CTR" /\ modeStep = "decrypt" /\ IsList(input)
      /\ IsList(message) /\ input = Masked(message, FirstCount)
      /\ chain = Counted(FirstCount, i) /\ i \in 0..Full(input) + 1
      /\ Begins(output, Masked(input, FirstCount), Done(input, i))
  BY DEF ModesInv, ModesTypes, CtrDecrypting, Modes!CTRDecrypt
<1>2. CASE Modes!CTRBlock /\ ~ Modes!Fits(i)
  BY <1>2, CtrBlockOr
<1>3. CASE Modes!CTRBlock /\ Modes!Fits(i)
  <2> DEFINE piece == Piece(input, FirstCount, i)
  <2>1. /\ output' = Join(output, piece) /\ IsList(piece)
        /\ chain' = Counted(FirstCount, i + 1)
        /\ i' = i + 1 /\ i + 1 \in 0..Full(input) + 1
        /\ UNCHANGED <<blockmode, message, iv, modeStep, input, capacity, cipher>>
        /\ \A s : Begins(s, Masked(input, FirstCount), Done(input, i)) =>
             Begins(Join(s, piece), Masked(input, FirstCount), Done(input, i + 1))
    BY <1>1, <1>3, CtrBlockMade
  <2> HIDE DEF piece
  <2>2. Begins(output', Masked(input, FirstCount), Done(input, i + 1))
    BY <1>1, <2>1
  <2>4. ModesTypes' /\ FirstCount' = FirstCount
    BY <1>1, <2>1, TypesKept
  <2>5. CtrDecrypting'
    BY <1>1, <2>1, <2>2, <2>4 DEF CtrDecrypting
  <2>6. CbcDecrypting'
    BY <1>1, <2>1 DEF CbcDecrypting
  <2> QED
    BY <1>1, <2>1, <2>4, <2>5, <2>6, NowDecrypting
<1>4. CASE /\ i = Modes!CtrBlocks /\ modeStep' = "done"
           /\ UNCHANGED <<Modes!run, input, capacity, i, chain, output, cipher>>
  <2>1. i = Full(input) + 1
    BY <1>4 DEF Modes!CtrBlocks, Full
  <2>2. output = Masked(input, FirstCount)
    BY <1>1, <2>1, AllMasked
  <2>3. output = message
    BY <1>1, <2>2, MaskedTwice
  <2>4. UNCHANGED <<blockmode, message, iv, input, capacity, i, output>> /\ modeStep' = "done"
    BY <1>4 DEF Modes!run
  <2>5. ModesTypes'
    BY <1>1, <2>4, TypesKept
  <2>6. Modes!RoundTrip'
    BY <2>3, <2>4 DEF Modes!RoundTrip
  <2> QED
    BY <2>4, <2>5, <2>6, NowDone
<1> QED
  BY <1>2, <1>3, <1>4 DEF Modes!CTRDecrypt

LEMMA CbcCounts ==
  ASSUME ModesTypes
  PROVE  /\ Full(input) \in Nat /\ Rest(input) \in Nat /\ Rest(input) < Block
         /\ Block \in Nat \ {0} /\ i \in Nat /\ i <= Full(input) + 1
         /\ Modes!Padding = Block - Rest(input)
         /\ Modes!Padding = Block <=> Rest(input) = 0
         /\ Modes!CbcBlocks = IF Rest(input) = 0 THEN Full(input) ELSE Full(input) + 1
<1>1. /\ Full(input) \in Nat /\ Rest(input) \in Nat /\ Rest(input) < Block
      /\ Block \in Nat \ {0} /\ i \in 0..Full(input) + 1
  BY Lengths, ModesAssumption DEF ModesTypes
<1>2. Modes!Padding = Block - Rest(input)
  BY DEF Modes!Padding, Rest
<1>3. Modes!Padding = Block <=> Rest(input) = 0
  BY <1>1, <1>2
<1>4. Modes!CbcBlocks = IF Modes!Padding = Block THEN Full(input) ELSE Full(input) + 1
  BY DEF Modes!CbcBlocks, Full
<1> QED
  BY <1>1, <1>2, <1>3, <1>4

LEMMA PaddedIs ==
  ASSUME ModesTypes, Rest(input) # 0, i <= Full(input)
  PROVE  Modes!Padded(Modes!Slice(i)) = CbcBlock(input, i)
<1>1. /\ Full(input) \in Nat /\ Rest(input) \in Nat /\ Rest(input) < Block
      /\ Block \in Nat \ {0} /\ i \in 0..Full(input) /\ IsList(input)
      /\ Modes!Padding = Block - Rest(input) /\ Modes!CbcBlocks = Full(input) + 1
  BY CbcCounts DEF ModesTypes
<1>2. Modes!Slice(i) = SliceOf(input, i)
  BY DEF Modes!Slice, SliceOf
<1>3. /\ Modes!Padding < Block /\ Block - Modes!Padding = Rest(input)
      /\ i = Modes!CbcBlocks - 1 <=> i = Full(input)
  BY <1>1
<1> DEFINE b == SliceOf(input, i)
<1> HIDE DEF b
<1>4. Modes!Padded(b) =
        IF i = Full(input)
        THEN [j \in 1..Block |-> IF j > Rest(input) THEN Modes!Num(Block - Rest(input))
                                 ELSE b[j]]
        ELSE b
  <2>1. CASE i = Full(input)
    <3>1. Modes!Padded(b) =
            [j \in 1..Block |-> IF j > Block - Modes!Padding THEN Modes!Num(Modes!Padding)
                                ELSE b[j]]
      BY <1>3, <2>1 DEF Modes!Padded
    <3>2. Modes!Padding = Block - Rest(input) /\ Block - Modes!Padding = Rest(input)
      BY <1>1, <1>3
    <3> QED
      BY <2>1, <3>1, <3>2
  <2>2. CASE i # Full(input)
    BY <1>3, <2>2 DEF Modes!Padded
  <2> QED
    BY <2>1, <2>2
<1> QED
  BY <1>1, <1>2, <1>4, CbcBlockRead DEF b

LEMMA CbcEncryptKeeps ==
  ASSUME ModesInv, Modes!CBCEncryptBlock PROVE ModesInv'
<1>1. /\ ModesTypes /\ blockmode = "CBC" /\ modeStep = "encrypt" /\ input = message
      /\ IsList(output) /\ i < Modes!CbcBlocks
  BY DEF ModesInv, CbcEncrypting, Modes!CBCEncryptBlock
<1>2. i <= Full(input) /\ i \in Nat /\ i + 1 \in 0..Full(input) + 1
  BY <1>1, CbcCounts
<1>3. CASE ~ Modes!Fits(i)
  <2>1. Modes!Panic
    BY <1>3 DEF Modes!CBCEncryptBlock
  <2> QED
    BY <1>2, <1>3, <2>1, TooShort
<1>4. CASE Modes!Fits(i)
  <2> DEFINE cout == Modes!Aes(Modes!Xor(chain, Modes!Padded(Modes!Slice(i))))
  <2>1. /\ chain' = cout /\ output' = output \o cout /\ i' = i + 1
        /\ UNCHANGED <<Modes!run, modeStep, input, capacity, cipher>>
    BY <1>4, Zenon DEF Modes!CBCEncryptBlock
  <2>2. UNCHANGED <<blockmode, message, iv, modeStep, input, capacity, cipher>>
    BY <2>1 DEF Modes!run
  <2>3. IsList(cout)
    <3> DEFINE b == Modes!Xor(chain, Modes!Padded(Modes!Slice(i)))
    <3> HIDE DEF b
    <3>1. IsList(Modes!Aes(b))
      BY AesBlock
    <3> QED
      BY <3>1 DEF b
  <2>4. ASSUME Rest(message) # 0
        PROVE  /\ CbcPart(Join(output, cout), i + 1, iv, message)
               /\ cout = CbcChain(iv, message)[i + 1]
    <3>1. CbcPart(output, i, iv, message) /\ chain = CbcChain(iv, message)[i]
      BY <1>1, <2>4 DEF ModesInv, CbcEncrypting
    <3>2. Modes!Padded(Modes!Slice(i)) = CbcBlock(message, i)
      BY <1>1, <1>2, <2>4, PaddedIs
    <3> DEFINE before == CbcChain(iv, message)[i]  b == CbcBlock(message, i)
    <3>3. IsList(before) /\ Len(before) = Block
      BY <1>1, <1>2, IvIsBlock, ChainBlocks
    <3>4. IsList(b) /\ Len(b) = Block
      BY CbcBlockUnits
    <3>5. CbcChain(iv, message)[i + 1] = Modes!Aes(Modes!Xor(b, before))
      BY <1>2, ChainRule
    <3> HIDE DEF before, b
    <3>6. Modes!Xor(before, b) = Modes!Xor(b, before)
      BY <3>3, <3>4, XorSwap
    <3>7. cout = CbcChain(iv, message)[i + 1]
      BY <3>1, <3>2, <3>5, <3>6 DEF before, b
    <3> HIDE DEF cout
    <3>8. CbcPart(Join(output, CbcChain(iv, message)[i + 1]), i + 1, iv, message)
      BY <1>1, <1>2, <3>1, IvIsBlock, CbcMore
    <3> QED
      BY <3>7, <3>8
  <2> HIDE DEF cout
  <2>5. output' = Join(output, cout) /\ IsList(output')
    BY <1>1, <2>1, <2>3, JoinIsList DEF Join
  <2>6. ModesTypes' /\ FirstCount' = FirstCount
    BY <1>1, <1>2, <2>1, <2>2, TypesKept
  <2>7. CbcEncrypting'
    BY <1>1, <2>1, <2>2, <2>4, <2>5 DEF CbcEncrypting
  <2>8. CtrEncrypting'
    BY <1>1, <2>2 DEF CtrEncrypting
  <2> QED
    BY <1>1, <2>2, <2>6, <2>7, <2>8, NowEncrypting
<1> QED
  BY <1>3, <1>4

LEMMA CbcEndKeeps ==
  ASSUME ModesInv, Modes!CBCEncryptEnd PROVE ModesInv'
<1> DEFINE rest == IF Modes!Padding = Block THEN [j \in 1..Block |-> Modes!Num(Block)]
                   ELSE <<>>
<1>1. /\ ModesTypes /\ blockmode = "CBC" /\ modeStep = "encrypt" /\ input = message
      /\ IsList(output) /\ i = Modes!CbcBlocks
  BY DEF ModesInv, CbcEncrypting, Modes!CBCEncryptEnd
<1>2. /\ cipher' = (iv \o output) \o rest /\ modeStep' = "cipher"
      /\ UNCHANGED <<blockmode, message, iv, input, capacity, i>>
  BY DEF Modes!CBCEncryptEnd, Modes!run
<1>3. IsList(iv) /\ Len(iv) = Block
  BY <1>1, IvIsBlock
<1>4. IsList(rest)
  BY ModesAssumption, Tuples DEF IsList
<1>5. Rest(message) # 0 => rest = <<>>
  BY <1>1, CbcCounts
<1> HIDE DEF rest
<1>6a. PICK made : made = Join(output, rest)
  OBVIOUS
<1>6. cipher' = Join(iv, made)
  <2>1. cipher' = Join(Join(iv, output), rest)
    BY <1>2 DEF Join
  <2>2. Join(Join(iv, output), rest) = Join(iv, Join(output, rest))
    BY <1>1, <1>3, <1>4, JoinAgain
  <2> QED
    BY <1>6a, <2>1, <2>2
<1>7. IsList(made)
  BY <1>1, <1>4, <1>6a, JoinIsList
<1>8. ASSUME Rest(message) # 0
      PROVE  CbcPart(made, Full(message) + 1, iv, message)
  <2>1. CbcPart(output, i, iv, message)
    BY <1>1, <1>8 DEF ModesInv, CbcEncrypting
  <2>2. i = Full(message) + 1
    BY <1>1, <1>8, CbcCounts
  <2>3. made = output
    BY <1>1, <1>5, <1>6a, <1>8, JoinNothing DEF Join
  <2> QED
    BY <2>1, <2>2, <2>3
<1>9. ModesTypes' /\ FirstCount' = FirstCount
  <2>1. i \in 0..Full(input) + 1
    BY <1>1 DEF ModesTypes
  <2> QED
    BY <1>1, <1>2, <2>1, TypesKept
<1>10. Encrypted(made)'
  BY <1>1, <1>2, <1>7, <1>8 DEF Encrypted
<1>11. ModesPrinted'
  BY <1>2, <1>6, <1>10 DEF ModesPrinted
<1>12. ASSUME Rest(message) # 0
       PROVE  \A k \in 0..Len(cipher') \div Block - 1 :
                SubSeq(cipher', k * Block + 1, (k + 1) * Block) = CbcChain(iv, message)[k]
  <2> DEFINE n == Full(message) + 1
  <2>1. n \in Nat
    BY <1>1, CbcCounts
  <2>2. CbcPart(made, n, iv, message)
    BY <1>8, <1>12
  <2> HIDE DEF n
  <2>3a. Chained(Join(iv, made), n, iv, message)
    BY <1>3, <2>1, <2>2, CbcPrinted
  <2>3b. Chained(cipher', n, iv, message)
    BY <1>6, <2>3a
  <2>3. /\ Len(cipher') \div Block = n + 1
        /\ \A k \in 0..n :
             SubSeq(cipher', k * Block + 1, (k + 1) * Block) = CbcChain(iv, message)[k]
    BY <2>3b DEF Chained
  <2>4. n + 1 - 1 = n /\ (n + 1) - 1 = n
    BY <2>1
  <2> QED
    BY <2>3, <2>4
<1>13. Modes!Whole' <=> Rest(message) = 0
  BY <1>2 DEF Modes!Whole, Rest
<1>14. Modes!Cbc' = CbcChain(iv, message)
  <2>1. Modes!Cbc' = Modes!Cbc
    BY <1>2 DEF Modes!Cbc, Modes!CbcIn
  <2> QED
    BY <2>1, ChainOfModes
<1>15. Modes!CipherIsReference'
  BY <1>1, <1>2, <1>12, <1>13, <1>14 DEF Modes!CipherIsReference
<1> QED
  BY <1>2, <1>9, <1>11, <1>15, NowPrinted

LEMMA DecryptKeeps ==
  ASSUME ModesInv, Modes!Decrypt PROVE ModesInv'
<1>1. ModesTypes /\ modeStep = "cipher"
  BY DEF ModesInv, Modes!Decrypt
<1>2. PICK made : cipher = Join(iv, made) /\ Encrypted(made)
  BY <1>1 DEF ModesInv, ModesPrinted
<1>3. IsList(iv) /\ Len(iv) = Block /\ IsList(made) /\ IsList(message)
      /\ Block \in Nat \ {0} /\ Len(made) \in Nat
  BY <1>1, <1>2, IvIsBlock, ModesAssumption DEF Encrypted, ModesTypes, IsList
<1>4. Len(cipher) = Block + Len(made)
  BY <1>2, <1>3, JoinIsList
<1>5. SubSeq(cipher, 1, Block) = iv /\ SubSeq(cipher, Block + 1, Len(cipher)) = made
  BY <1>2, <1>3, Parts DEF Join
<1>6. /\ modeStep' = "decrypt" /\ chain' = iv /\ input' = made /\ i' = 0 /\ output' = <<>>
      /\ UNCHANGED <<blockmode, message, iv>>
  BY <1>5 DEF Modes!Decrypt, Modes!run
<1>7. capacity' \in Nat /\ capacity' >= Len(made)
  <2>1. PICK spare \in 0..Block : capacity' = Len(cipher) - Block + spare
    BY DEF Modes!Decrypt
  <2> QED
    BY <1>3, <1>4, <2>1
<1>8. FirstCount' = FirstCount
  BY <1>6 DEF FirstCount
<1>9. ModesTypes'
  <2>1. Full(made) \in Nat /\ 0 \in 0..Full(made) + 1
    BY <1>3, Lengths
  <2> QED
    BY <1>1, <1>3, <1>6, <1>7, <1>8, <2>1 DEF ModesTypes
<1>10. CtrDecrypting'
  <2> SUFFICES ASSUME blockmode = "CTR" PROVE CtrDecrypting'
    BY <1>6 DEF CtrDecrypting
  <2>1. made = Masked(message, FirstCount)
    BY <1>2 DEF Encrypted
  <2>2. Done(made, 0) = 0
    BY <1>3, Lengths, Places DEF Done
  <2>3. Begins(<<>>, Masked(made, FirstCount), Done(made, 0))
    BY <2>2, BeginsNothing
  <2>4. iv = Counted(FirstCount, 0)
    BY <1>1, CounterStarts DEF ModesTypes
  <2> QED
    BY <1>6, <1>8, <2>1, <2>3, <2>4 DEF CtrDecrypting
<1>11. CbcDecrypting'
  <2> SUFFICES ASSUME blockmode = "CBC", Rest(message) # 0 PROVE CbcDecrypting'
    BY <1>6 DEF CbcDecrypting
  <2>1. CbcPart(made, Full(message) + 1, iv, message)
    BY <1>2 DEF Encrypted
  <2>2. 0 <= Full(message) /\ 0 * Block = 0
    BY <1>3, Lengths, Places
  <2>3. Begins(<<>>, message, 0 * Block)
    BY <2>2, BeginsNothing
  <2>4. iv = CbcChain(iv, message)[0]
    BY ChainRule
  <2> QED
    BY <1>6, <2>1, <2>2, <2>3, <2>4 DEF CbcDecrypting
<1> QED
  BY <1>6, <1>9, <1>10, <1>11, NowDecrypting

(* What the loop of CBCDecrypt makes of a block, and where it stands.      *)
LEMMA CbcOpened ==
  ASSUME ModesInv, blockmode = "CBC", modeStep = "decrypt", Rest(message) # 0,
         i < Full(input)
  PROVE  /\ Full(input) = Full(message) + 1 /\ i \in 0..Full(message)
         /\ Modes!Slice(i) = CbcChain(iv, message)[i + 1]
         /\ Modes!Xor(Modes!AesInverse(Modes!Slice(i)), chain) = CbcBlock(message, i)
<1>1. /\ CbcPart(input, Full(message) + 1, iv, message) /\ ModesTypes
      /\ chain = CbcChain(iv, message)[i] /\ IsList(message)
  BY DEF ModesInv, CbcDecrypting, ModesTypes
<1>2. /\ IsList(input) /\ Len(input) = (Full(message) + 1) * Block
      /\ \A q \in Nat : q < Full(message) + 1 =>
           BlockOf(input, q) = CbcChain(iv, message)[q + 1]
  BY <1>1 DEF CbcPart
<1>3. Full(message) \in Nat /\ Block \in Nat \ {0} /\ i \in Nat
  BY <1>1, Lengths, CbcCounts
<1>4. Full(input) = Full(message) + 1
  <2> DEFINE n == Full(message) + 1
  <2>1. n \in Nat
    BY <1>3
  <2>2. Block * n = n * Block /\ n * Block \in Nat /\ 0 < Block
    BY <1>3, <2>1, Places
  <2> HIDE DEF n
  <2>3. Len(input) = Block * n + 0 /\ Len(input) \in Nat
    BY <1>2, <2>2 DEF n
  <2>4. Len(input) \div Block = n
    <3>1. n \in Int /\ 0 \in Nat /\ Block \in Nat \ {0}
      BY <1>3, <2>1
    <3> QED
      BY <2>2, <2>3, <3>1, DivUnique
  <2> QED
    BY <2>4 DEF Full, n
<1>5. i \in 0..Full(message) /\ i < Full(message) + 1
  BY <1>3, <1>4
<1>6. (i + 1) * Block <= Len(input)
  <2>1. Full(message) + 1 \in Nat
    BY <1>3
  <2> QED
    BY <1>2, <1>3, <1>5, <2>1, Places
<1>7. Modes!Slice(i) = BlockOf(input, i)
  <2>1. i * Block \in Nat /\ (i + 1) * Block = i * Block + Block /\ Len(input) \in Nat
    BY <1>2, <1>3, Places DEF IsList
  <2>2. \A j \in 1..Block : i * Block + j <= Len(input)
    BY <1>3, <1>6, <2>1
  <2> QED
    BY <2>2 DEF Modes!Slice, BlockOf
<1>8. Modes!Slice(i) = CbcChain(iv, message)[i + 1]
  BY <1>2, <1>3, <1>5, <1>7
<1>9. Modes!Xor(Modes!AesInverse(Modes!Slice(i)), chain) = CbcBlock(message, i)
  BY <1>1, <1>3, <1>8, ChainOpened
<1> QED
  BY <1>4, <1>5, <1>8, <1>9

LEMMA CbcDecryptKeeps ==
  ASSUME ModesInv, Modes!CBCDecryptBlock PROVE ModesInv'
<1> DEFINE m == Modes!Xor(Modes!AesInverse(Modes!Slice(i)), chain)
<1>1. /\ ModesTypes /\ blockmode = "CBC" /\ modeStep = "decrypt" /\ i < Full(input)
      /\ IsList(message)
  BY DEF ModesInv, ModesTypes, Modes!CBCDecryptBlock, Full
<1>2. /\ Full(input) \in Nat /\ i \in Nat /\ i + 1 \in 0..Full(input) + 1
      /\ i \in 0..Full(input) + 1 /\ Block \in Nat \ {0}
  <2>1. Full(input) \in Nat /\ i \in Nat /\ Block \in Nat \ {0}
    BY <1>1, CbcCounts
  <2> QED
    BY <1>1, <2>1
<1>3. /\ Full(message) \in Nat /\ Rest(message) \in Nat /\ Rest(message) < Block
      /\ Len(message) = Full(message) * Block + Rest(message)
      /\ Full(message) * Block \in Nat
  BY <1>1, Lengths, Places
<1>4. Rest(message) # 0 =>
        /\ Full(input) = Full(message) + 1 /\ i \in 0..Full(message)
        /\ Modes!Slice(i) = CbcChain(iv, message)[i + 1]
        /\ m = CbcBlock(message, i) /\ Begins(output, message, i * Block)
        /\ CbcPart(input, Full(message) + 1, iv, message)
  BY <1>1, CbcOpened DEF ModesInv, CbcDecrypting
<1>5. Modes!Whole <=> Rest(message) = 0
  BY DEF Modes!Whole, Rest
<1>6. CASE i # Full(input) - 1
  <2>1. /\ output' = output \o m /\ chain' = Modes!Slice(i) /\ i' = i + 1
        /\ UNCHANGED <<Modes!run, modeStep, input, capacity, cipher>>
    <3>1. i # Len(input) \div Block - 1
      BY <1>6 DEF Full
    <3> QED
      BY <3>1, Zenon DEF Modes!CBCDecryptBlock
  <2>2. UNCHANGED <<blockmode, message, iv, modeStep, input, capacity>>
    BY <2>1 DEF Modes!run
  <2>3. ModesTypes' /\ FirstCount' = FirstCount
    <3> HIDE DEF m
    <3> QED
      BY <1>1, <1>2, <2>1, <2>2, TypesKept
  <2> HIDE DEF m
  <2>4. ASSUME Rest(message) # 0
        PROVE  /\ i + 1 <= Full(message) /\ Begins(output', message, (i + 1) * Block)
    <3>1. i < Full(message)
      BY <1>2, <1>3, <1>4, <1>6, <2>4
    <3>2. \A j \in 1..Block : m[j] = message[i * Block + j]
      BY <1>1, <1>4, <2>4, <3>1, CbcBlockBegins
    <3>3. IsList(m) /\ Len(m) = Block
      BY <1>4, <2>4, CbcBlockUnits
    <3>4. Begins(Join(output, m), message, i * Block + Len(m))
      BY <1>4, <2>4, <3>2, <3>3, BeginsMore
    <3>5. i * Block + Len(m) = (i + 1) * Block
      BY <1>2, <3>3, Places
    <3>6. i + 1 <= Full(message)
      BY <1>2, <1>3, <3>1
    <3> QED
      BY <2>1, <3>4, <3>5, <3>6 DEF Join
  <2>5. CbcDecrypting'
    BY <1>1, <1>4, <2>1, <2>2, <2>4 DEF CbcDecrypting
  <2>6. CtrDecrypting'
    BY <1>1, <2>2 DEF CtrDecrypting
  <2> QED
    BY <1>1, <2>2, <2>3, <2>5, <2>6, NowDecrypting
<1>7. CASE i = Full(input) - 1
  <2>1. PICK padding \in Modes!Values(m[Block]) :
          IF padding > Block THEN Modes!Panic
          ELSE /\ output' = output \o SubSeq(m, 1, Block - padding)
               /\ modeStep' = "done" /\ chain' = Modes!Slice(i) /\ i' = i + 1
               /\ UNCHANGED <<Modes!run, input, capacity, cipher>>
    <3>1. ~ (i # Len(input) \div Block - 1)
      BY <1>7 DEF Full
    <3> QED
      BY <3>1, Zenon DEF Modes!CBCDecryptBlock
  <2>2. padding \in 0..2 * Block
    BY <2>1 DEF Modes!Values
  <2> HIDE DEF m
  <2>3. ASSUME Rest(message) # 0
        PROVE  /\ padding = Block - Rest(message)
               /\ i = Full(message) /\ m = CbcBlock(message, i)
               /\ \A j \in 1..Rest(message) : m[j] = message[i * Block + j]
    <3>1. i = Full(message)
      BY <1>2, <1>3, <1>4, <1>7, <2>3
    <3>2. /\ m = CbcBlock(message, i)
          /\ \A j \in 1..Rest(message) : m[j] = message[i * Block + j]
          /\ m[Block] = Modes!Num(Block - Rest(message))
      BY <1>1, <1>4, <2>3, <3>1, CbcBlockBegins
    <3>3. Block - Rest(message) \in 0..Block
      BY <1>2, <1>3
    <3>4. Modes!Values(m[Block]) = {Block - Rest(message)}
      BY <3>2, <3>3, ValuesOfNum
    <3> QED
      BY <2>1, <3>1, <3>2, <3>4
  <2>4. CASE padding > Block
    <3>1. Modes!Panic
      BY <2>1, <2>4
    <3>2. Rest(message) = 0
      BY <1>2, <1>3, <2>3, <2>4
    <3>3. UNCHANGED <<blockmode, message, iv, input, capacity, i>> /\ modeStep' = "panic"
      BY <3>1 DEF Modes!Panic, Modes!run
    <3>4. ModesTypes'
      BY <1>1, <1>2, <3>3, TypesKept
    <3>5. Modes!PanicHasACause'
      BY <1>1, <3>2, <3>3 DEF Modes!PanicHasACause, Modes!Whole, Rest
    <3> QED
      BY <3>3, <3>4, <3>5, NowPanic
  <2>5. CASE ~ (padding > Block)
    <3>1. /\ output' = output \o SubSeq(m, 1, Block - padding) /\ modeStep' = "done"
          /\ i' = i + 1 /\ UNCHANGED <<Modes!run, input, capacity>>
      BY <2>1, <2>5
    <3>2. UNCHANGED <<blockmode, message, iv, input, capacity>>
      BY <3>1 DEF Modes!run
    <3>3. ModesTypes'
      BY <1>1, <1>2, <3>1, <3>2, TypesKept
    <3>4. ASSUME Rest(message) # 0 PROVE output' = message
      <4> DEFINE cut == SubSeq(m, 1, Block - padding)
      <4>1. IsList(m) /\ Len(m) = Block /\ Block - padding = Rest(message)
        BY <1>2, <1>3, <2>3, <3>4, CbcBlockUnits
      <4>2. /\ IsList(cut) /\ Len(cut) = Rest(message) - 1 + 1
            /\ \A j \in 1..Rest(message) - 1 + 1 : cut[j] = m[1 + j - 1]
        <5>1. cut = SubSeq(m, 1, Rest(message))
          BY <4>1
        <5> HIDE DEF cut
        <5>2. 1 \in Nat /\ 1 >= 1 /\ 1 <= Rest(message) + 1 /\ Rest(message) <= Len(m)
          BY <1>2, <1>3, <4>1
        <5> QED
          BY <1>3, <4>1, <5>1, <5>2, Cut
      <4>3. output' = Join(output, cut)
        BY <3>1 DEF Join
      <4> HIDE DEF cut
      <4>4. Len(cut) = Rest(message) /\ \A j \in 1..Len(cut) : cut[j] = m[j]
        BY <1>3, <4>2
      <4>5. \A j \in 1..Len(cut) : cut[j] = message[i * Block + j]
        BY <2>3, <3>4, <4>4
      <4>6. Begins(Join(output, cut), message, i * Block + Len(cut))
        BY <1>4, <3>4, <4>2, <4>5, BeginsMore
      <4>7. i * Block + Len(cut) = Len(message)
        BY <1>3, <2>3, <3>4, <4>4
      <4> QED
        BY <1>1, <4>3, <4>6, <4>7, BeginsAll
    <3>5. Modes!RoundTrip'
      <4>1. Modes!Whole' <=> Rest(message) = 0
        BY <3>2 DEF Modes!Whole, Rest
      <4> QED
        BY <1>1, <3>2, <3>4, <4>1 DEF Modes!RoundTrip
    <3> QED
      BY <3>1, <3>3, <3>5, NowDone
  <2> QED
    BY <2>4, <2>5
<1> QED
  BY <1>6, <1>7

LEMMA ModesIdles ==
  ASSUME ModesInv, UNCHANGED modesVars PROVE ModesInv'
<1>1. UNCHANGED <<blockmode, message, modeStep, input, capacity, i, iv, chain, output,
                  cipher>>
  BY DEF modesVars
<1>2. FirstCount' = FirstCount
  BY <1>1 DEF FirstCount
<1>3. ModesTypes' /\ ModesFlags'
  BY <1>1, <1>2 DEF ModesInv, ModesTypes, ModesFlags
<1>4. CtrEncrypting' /\ CbcEncrypting' /\ CtrDecrypting' /\ CbcDecrypting'
  BY <1>1, <1>2 DEF ModesInv, CtrEncrypting, CbcEncrypting, CtrDecrypting, CbcDecrypting
<1>5. ModesPrinted'
  BY <1>1, <1>2 DEF ModesInv, ModesPrinted, Encrypted
<1>6. Modes!RoundTrip' /\ Modes!PanicHasACause'
  BY <1>1 DEF ModesInv, Modes!RoundTrip, Modes!PanicHasACause, Modes!Whole
<1>7. Modes!CipherIsReference'
  <2>1. Modes!Cbc' = Modes!Cbc
    BY <1>1 DEF Modes!Cbc, Modes!CbcIn
  <2> QED
    BY <1>1, <2>1 DEF ModesInv, Modes!CipherIsReference, Modes!Whole, Modes!CtrCount
<1> QED
  BY <1>3, <1>4, <1>5, <1>6, <1>7 DEF ModesInv

LEMMA ModesInvariant == SpecAny => []ModesInv
<1>1. InitAny => ModesInv
  <2> SUFFICES ASSUME Modes!Init PROVE ModesInv
    BY DEF InitAny, ModesIdle
  <2> QED
    BY ModesStart
<1>2. ModesInv /\ [NextAny]_all => ModesInv'
  <2> SUFFICES ASSUME ModesInv, [NextAny]_all PROVE ModesInv'
    OBVIOUS
  <2>1. CASE Modes!Next
    BY <2>1, MainKeeps, DecryptKeeps, CbcEncryptKeeps, CbcEndKeeps, CbcDecryptKeeps,
       CtrEncryptKeeps, CtrDecryptKeeps
       DEF Modes!Next
  <2>2. CASE UNCHANGED modesVars
    BY <2>2, ModesIdles
  <2> QED
    BY <2>1, <2>2 DEF NextAny, all
<1> QED
  BY <1>1, <1>2, PTL DEF SpecAny

(* What CBC and CTR print is the mode the command names and decrypts to    *)
(* the message, whatever the block and the message; a panic has a cause.   *)
THEOREM ModesOfBlocks == SpecAny => []ModesRoundTrip
<1>1. ModesInv => ModesRoundTrip
  BY ModesTypesHold DEF ModesInv, ModesRoundTrip
<1> QED
  BY <1>1, ModesInvariant, PTL
=============================================================================
