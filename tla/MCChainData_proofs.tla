-------------------------- MODULE MCChainData_proofs --------------------------
(***************************************************************************)
(* Proofs about MCChainData: the Merkle root, for lists of any length and  *)
(* any number of calls; and the parsers, for blocks of any counts and      *)
(* lengths that eight bytes hold, in whichever form they are written and   *)
(* wherever they are cut, for bytes of any number of values above three,   *)
(* and for any script.                                                     *)
(***************************************************************************)
EXTENDS MCChainData, TLAPS, SequenceTheorems, WellFoundedInduction

(***************************************************************************)
(* Induction, with a set for the predicate.                                *)
(***************************************************************************)
LEMMA SmallestElement ==
  ASSUME NEW T \in SUBSET Nat, T # {}
  PROVE  \E n \in T : \A m \in T : n <= m
<1> DEFINE R == OpToRel(<, Nat)
<1>1. IsWellFoundedOn(R, Nat)
  BY NatLessThanWellFounded, Zenon
<1>2. \A m, n \in Nat : m < n => <<m, n>> \in R
  BY DEF OpToRel
<1> HIDE DEF R
<1>3. T \subseteq Nat
  OBVIOUS
<1>4. PICK n \in T : \A m \in T : ~ (<<m, n>> \in R)
  BY <1>1, <1>3, WFMin
<1>5. ASSUME NEW m \in T PROVE n <= m
  <2>1. m \in Nat /\ n \in Nat
    BY <1>3
  <2>2. ~ (m < n)
    BY <1>2, <1>4, <2>1
  <2> QED
    BY <2>1, <2>2
<1> QED
  BY <1>5

LEMMA Induct ==
  ASSUME NEW S, 0 \in S, \A n \in Nat : n \in S => n + 1 \in S
  PROVE  Nat \subseteq S
<1> DEFINE T == Nat \ S
<1> SUFFICES ASSUME T # {} PROVE FALSE
  OBVIOUS
<1>1. T \in SUBSET Nat
  OBVIOUS
<1>2. \A n : n \in T <=> n \in Nat /\ n \notin S
  OBVIOUS
<1> HIDE DEF T
<1>3. PICK n \in T : \A m \in T : n <= m
  BY <1>1, SmallestElement
<1>4. n # 0 /\ n - 1 \in Nat /\ ~(n <= n - 1) /\ n - 1 + 1 = n
  BY <1>2, <1>3
<1>5. n - 1 \in S
  BY <1>2, <1>3, <1>4
<1> QED
  BY <1>2, <1>4, <1>5

(***************************************************************************)
(* The levels of the tree.                                                 *)
(***************************************************************************)

(* Count is the function its recursive definition asks for.                *)
LEMMA CountIs ==
  ASSUME MaxLeaves \in Nat
  PROVE  Count = [k \in 0..MaxLeaves |->
                    IF k = 0 THEN size ELSE (Count[k - 1] + 1) \div 2]
<1> DEFINE up(c) == (c + 1) \div 2
           IsCount(f, m) == f = [k \in 0..m |-> IF k = 0 THEN size ELSE up(f[k - 1])]
           S == {m \in Nat : \E f : IsCount(f, m)}
<1>1. Count = CHOOSE f : IsCount(f, MaxLeaves)
  BY Zenon DEF Count
<1> HIDE DEF up
<1>2. 0 \in S
  <2> DEFINE f == [k \in 0..0 |-> size]
  <2>1. IsCount(f, 0)
    OBVIOUS
  <2> QED
    BY <2>1
<1>3. ASSUME NEW m \in Nat, m \in S PROVE m + 1 \in S
  <2>1. PICK f : IsCount(f, m)
    BY <1>3
  <2> DEFINE longer == [k \in 0..m + 1 |-> IF k <= m THEN f[k] ELSE up(f[m])]
  <2>2. ASSUME NEW k \in 0..m + 1
        PROVE  longer[k] = IF k = 0 THEN size ELSE up(longer[k - 1])
    <3>1. CASE k <= m
      <4>1. longer[k] = f[k] /\ (k # 0 => longer[k - 1] = f[k - 1]) /\ k \in 0..m
        BY <3>1
      <4> HIDE DEF longer
      <4> QED
        BY <2>1, <4>1
    <3>2. CASE k = m + 1
      <4>1. longer[k] = up(f[m]) /\ longer[k - 1] = f[m] /\ k # 0
        BY <3>2
      <4> HIDE DEF longer
      <4> QED
        BY <4>1
    <3> QED
      BY <3>1, <3>2
  <2>3. IsCount(longer, m + 1)
    <3>1. longer = [k \in 0..m + 1 |-> longer[k]]
      OBVIOUS
    <3> HIDE DEF longer
    <3> QED
      BY <2>2, <3>1
  <2> HIDE DEF longer, IsCount
  <2> QED
    BY <2>3
<1>4. MaxLeaves \in S
  <2> HIDE DEF S
  <2>1. Nat \subseteq S
    BY <1>2, <1>3, Induct
  <2> QED
    BY <2>1
<1>5. PICK f : IsCount(f, MaxLeaves)
  <2> HIDE DEF IsCount
  <2> QED
    BY <1>4
<1>6. IsCount(Count, MaxLeaves)
  <2> HIDE DEF IsCount
  <2> QED
    BY <1>1, <1>5, Zenon
<1> QED
  BY <1>6, Zenon DEF up

(* And so is Tree.                                                         *)
LEMMA TreeIs ==
  ASSUME MaxLeaves \in Nat
  PROVE  Tree = [k \in 0..MaxLeaves |->
                   IF k = 0 THEN [j \in Nat |-> Leaf(j + 1)]
                   ELSE [j \in Nat |->
                           DHash(Tree[k - 1][2 * j],
                                 Tree[k - 1][IF 2 * j + 1 < Count[k - 1]
                                             THEN 2 * j + 1 ELSE 2 * j])]]
<1> DEFINE first == [j \in Nat |-> Leaf(j + 1)]
           up(k, t) == [j \in Nat |->
                          DHash(t[2 * j], t[IF 2 * j + 1 < Count[k - 1]
                                            THEN 2 * j + 1 ELSE 2 * j])]
           IsTree(f, m) == f = [k \in 0..m |-> IF k = 0 THEN first ELSE up(k, f[k - 1])]
           S == {m \in Nat : \E f : IsTree(f, m)}
<1>1. Tree = CHOOSE f : IsTree(f, MaxLeaves)
  BY Zenon DEF Tree
<1> HIDE DEF up, first
<1>2. 0 \in S
  <2> DEFINE f == [k \in 0..0 |-> first]
  <2>1. IsTree(f, 0)
    OBVIOUS
  <2> QED
    BY <2>1
<1>3. ASSUME NEW m \in Nat, m \in S PROVE m + 1 \in S
  <2>1. PICK f : IsTree(f, m)
    BY <1>3
  <2> DEFINE longer == [k \in 0..m + 1 |-> IF k <= m THEN f[k] ELSE up(k, f[m])]
  <2>2. ASSUME NEW k \in 0..m + 1
        PROVE  longer[k] = IF k = 0 THEN first ELSE up(k, longer[k - 1])
    <3>1. CASE k <= m
      <4>1. longer[k] = f[k] /\ (k # 0 => longer[k - 1] = f[k - 1]) /\ k \in 0..m
        BY <3>1
      <4> HIDE DEF longer
      <4> QED
        BY <2>1, <4>1
    <3>2. CASE k = m + 1
      <4>1. longer[k] = up(k, f[m]) /\ longer[k - 1] = f[m] /\ k # 0
        BY <3>2
      <4> HIDE DEF longer
      <4> QED
        BY <4>1
    <3> QED
      BY <3>1, <3>2
  <2>3. IsTree(longer, m + 1)
    <3>1. longer = [k \in 0..m + 1 |-> longer[k]]
      OBVIOUS
    <3> HIDE DEF longer
    <3> QED
      BY <2>2, <3>1
  <2> HIDE DEF longer, IsTree
  <2> QED
    BY <2>3
<1>4. MaxLeaves \in S
  <2> HIDE DEF S
  <2>1. Nat \subseteq S
    BY <1>2, <1>3, Induct
  <2> QED
    BY <2>1
<1>5. PICK f : IsTree(f, MaxLeaves)
  <2> HIDE DEF IsTree
  <2> QED
    BY <1>4
<1>6. IsTree(Tree, MaxLeaves)
  <2> HIDE DEF IsTree
  <2> QED
    BY <1>1, <1>5, Zenon
<1> QED
  BY <1>6, Zenon DEF up, first
(* Half of a list of two or more, rounded up, is a shorter one.            *)
LEMMA Half ==
  ASSUME NEW n \in Nat, n > 0
  PROVE  /\ (n + 1) \div 2 \in Nat /\ (n + 1) \div 2 > 0
         /\ n = 1 => (n + 1) \div 2 = 1
         /\ n > 1 => (n + 1) \div 2 < n
         /\ (n + (n % 2)) \div 2 = (n + 1) \div 2
         /\ n % 2 \in {0, 1}
         /\ (n + (n % 2)) % 2 = 0
OBVIOUS

(* The levels shrink to one node.                                          *)
LEMMA Levels ==
  ASSUME MaxLeaves \in Nat, size \in 0..MaxLeaves, size > 0
  PROVE  /\ Count[0] = size
         /\ \A k \in 0..MaxLeaves : Count[k] \in Nat /\ Count[k] > 0
         /\ \A k \in 1..MaxLeaves : Count[k] = (Count[k - 1] + 1) \div 2
         /\ \A k \in 0..MaxLeaves : Count[k] = 1 \/ Count[k] + k <= size
<1>1. Count[0] = size /\ \A k \in 1..MaxLeaves : Count[k] = (Count[k - 1] + 1) \div 2
  <2> DEFINE c == Count
  <2>1. c = [k \in 0..MaxLeaves |-> IF k = 0 THEN size ELSE (c[k - 1] + 1) \div 2]
    BY CountIs
  <2> HIDE DEF c
  <2>2. 0 \in 0..MaxLeaves
    OBVIOUS
  <2>3. c[0] = size
    BY <2>1, <2>2
  <2>4. ASSUME NEW k \in 1..MaxLeaves PROVE c[k] = (c[k - 1] + 1) \div 2
    <3>1. k \in 0..MaxLeaves /\ k # 0
      OBVIOUS
    <3> QED
      BY <2>1, <3>1
  <2> QED
    BY <2>3, <2>4 DEF c
<1> DEFINE Good(k) == /\ Count[k] \in Nat /\ Count[k] > 0
                      /\ Count[k] = 1 \/ Count[k] + k <= size
           S == {k \in Nat : k <= MaxLeaves => Good(k)}
<1>2. 0 \in S
  BY <1>1
<1>3. ASSUME NEW k \in Nat, k \in S PROVE k + 1 \in S
  <2> SUFFICES ASSUME k + 1 <= MaxLeaves PROVE Good(k + 1)
    OBVIOUS
  <2>1. Count[k] \in Nat /\ Count[k] > 0 /\ (Count[k] = 1 \/ Count[k] + k <= size)
    BY <1>3
  <2>2. Count[k + 1] = (Count[k] + 1) \div 2
    <3>1. k + 1 \in 1..MaxLeaves /\ k + 1 - 1 = k
      OBVIOUS
    <3> QED
      BY <1>1, <3>1
  <2>3. /\ Count[k + 1] \in Nat /\ Count[k + 1] > 0
        /\ Count[k] = 1 => Count[k + 1] = 1
        /\ Count[k] > 1 => Count[k + 1] < Count[k]
    BY <2>1, <2>2, Half
  <2> QED
    BY <2>1, <2>3
<1>4. Nat \subseteq S
  <2> HIDE DEF S
  <2> QED
    BY <1>2, <1>3, Induct
<1>5. ASSUME NEW k \in 0..MaxLeaves PROVE Good(k)
  BY <1>4
<1> QED
  BY <1>1, <1>5

(* The height is the first level of one node.                              *)
LEMMA HeightIs ==
  ASSUME MaxLeaves \in Nat, size \in 0..MaxLeaves, size > 0
  PROVE  /\ Height \in 0..MaxLeaves
         /\ Count[Height] = 1
         /\ \A l \in 0..Height - 1 : Count[l] > 1
<1> DEFINE One == {k \in 0..MaxLeaves : Count[k] = 1}
<1>1. size - 1 \in One
  <2>1. size - 1 \in 0..MaxLeaves /\ size - 1 + 1 = size
    OBVIOUS
  <2>2. Count[size - 1] \in Nat /\ Count[size - 1] > 0
        /\ (Count[size - 1] = 1 \/ Count[size - 1] + (size - 1) <= size)
    BY <2>1, Levels
  <2> QED
    BY <2>1, <2>2
<1>2. One \in SUBSET Nat /\ One # {}
  BY <1>1
<1>3. \A k : k \in One <=> k \in 0..MaxLeaves /\ Count[k] = 1
  OBVIOUS
<1> HIDE DEF One
<1>4. PICK n \in One : \A m \in One : n <= m
  BY <1>2, SmallestElement
<1>5. ASSUME NEW l \in 0..n - 1 PROVE Count[l] > 1
  <2>1. n \in 0..MaxLeaves
    BY <1>3, <1>4
  <2>2. l \in 0..MaxLeaves /\ ~ (n <= l)
    BY <2>1
  <2>3. l \notin One
    BY <1>4, <2>2
  <2>4. Count[l] # 1
    BY <1>3, <2>2, <2>3
  <2>5. Count[l] \in Nat /\ Count[l] > 0
    BY <2>2, Levels
  <2> QED
    BY <2>4, <2>5
<1>6. \E k \in 0..MaxLeaves : Count[k] = 1 /\ \A l \in 0..k - 1 : Count[l] > 1
  BY <1>3, <1>4, <1>5
<1> QED
  BY <1>6, Zenon DEF Height
(***************************************************************************)
(* A level of the tree, as recurseNodes holds it and pads it.              *)
(***************************************************************************)
Level(k) == [i \in 1..Count[k] |-> Tree[k][i - 1]]

PaddedLevel(k) ==
  [i \in 1..Count[k] + (Count[k] % 2) |->
     Tree[k][IF i <= Count[k] THEN i - 1 ELSE Count[k] - 1]]

(* The length of a list given place by place.                              *)
LEMMA ListLen ==
  ASSUME NEW n \in Nat, NEW list, DOMAIN list = 1..n
  PROVE  Len(list) = n
<1>1. \E k \in Nat : DOMAIN list = 1..k
  OBVIOUS
<1> QED
  OBVIOUS

(* The push (merkle-tree.js 42).                                           *)
LEMMA PadList ==
  ASSUME NEW n \in Nat, n > 0, NEW t, n % 2 \in {0, 1}
  PROVE  Padded([i \in 1..n |-> t[i - 1]]) =
           [i \in 1..n + (n % 2) |-> t[IF i <= n THEN i - 1 ELSE n - 1]]
<1> DEFINE list == [i \in 1..n |-> t[i - 1]]
           longer == [i \in 1..n + (n % 2) |-> t[IF i <= n THEN i - 1 ELSE n - 1]]
<1>1. Len(list) = n /\ DOMAIN list = 1..n /\ \A i \in 1..n : list[i] = t[i - 1]
  <2>1. DOMAIN list = 1..n /\ \A i \in 1..n : list[i] = t[i - 1]
    OBVIOUS
  <2> HIDE DEF list
  <2> QED
    BY <2>1, ListLen
<1>2. CASE n % 2 = 1
  <2>1. Padded(list) = Append(list, list[n])
    BY <1>1, <1>2 DEF Padded
  <2>2. list[n] = t[n - 1]
    BY <1>1
  <2>3. Append(list, list[n]) = [i \in 1..n + 1 |-> IF i = n + 1 THEN list[n] ELSE list[i]]
    <3> HIDE DEF list
    <3> QED
      BY <1>1
  <2>4. \A i \in 1..n + 1 : (IF i = n + 1 THEN list[n] ELSE list[i])
                              = t[IF i <= n THEN i - 1 ELSE n - 1]
    <3> HIDE DEF list
    <3> QED
      BY <1>1, <2>2
  <2>5. longer = [i \in 1..n + 1 |-> t[IF i <= n THEN i - 1 ELSE n - 1]]
    BY <1>2
  <2>6. Append(list, list[n]) = [i \in 1..n + 1 |-> t[IF i <= n THEN i - 1 ELSE n - 1]]
    <3> HIDE DEF list
    <3> QED
      BY <2>3, <2>4
  <2> QED
    BY <2>1, <2>5, <2>6, Zenon
<1>3. CASE n % 2 = 0
  <2>1. Padded(list) = list
    BY <1>1, <1>3 DEF Padded
  <2>2. list = longer
    BY <1>3
  <2> QED
    BY <2>1, <2>2
<1> QED
  BY <1>2, <1>3
LEMMA LevelPadded ==
  ASSUME MaxLeaves \in Nat, size \in 0..MaxLeaves, size > 0, NEW k \in 0..MaxLeaves
  PROVE  /\ Padded(Level(k)) = PaddedLevel(k)
         /\ Padded(PaddedLevel(k)) = PaddedLevel(k)
         /\ Len(Level(k)) = Count[k]
         /\ Len(PaddedLevel(k)) = Count[k] + (Count[k] % 2)
<1> DEFINE n == Count[k]
           t == Tree[k]
           longer == [i \in 1..n + (n % 2) |-> t[IF i <= n THEN i - 1 ELSE n - 1]]
<1>1. n \in Nat /\ n > 0
  BY Levels
<1>2. n % 2 \in {0, 1} /\ (n + (n % 2)) % 2 = 0 /\ n + (n % 2) \in Nat
  <2> HIDE DEF n
  <2>1. n % 2 \in {0, 1} /\ (n + (n % 2)) % 2 = 0
    BY <1>1, Half
  <2> QED
    BY <1>1, <2>1
<1>3. Level(k) = [i \in 1..n |-> t[i - 1]] /\ PaddedLevel(k) = longer
  BY DEF Level, PaddedLevel
<1> HIDE DEF n, t
<1>4. Len(longer) = n + (n % 2)
  <2>1. DOMAIN longer = 1..n + (n % 2)
    OBVIOUS
  <2> HIDE DEF longer
  <2> QED
    BY <1>2, <2>1, ListLen
<1>5. Padded(longer) = longer
  BY <1>2, <1>4 DEF Padded
<1>6. Padded([i \in 1..n |-> t[i - 1]]) = longer
  BY <1>1, <1>2, PadList
<1>7. Len([i \in 1..n |-> t[i - 1]]) = n
  <2> DEFINE list == [i \in 1..n |-> t[i - 1]]
  <2>1. DOMAIN list = 1..n
    OBVIOUS
  <2> HIDE DEF list
  <2>2. Len(list) = n
    BY <1>1, <2>1, ListLen
  <2> QED
    BY <2>2 DEF list
<1> HIDE DEF longer
<1> QED
  BY <1>3, <1>4, <1>5, <1>6, <1>7 DEF n

(* Pairing a padded level makes the next one (43-49).                      *)
LEMMA NextLevel ==
  ASSUME MaxLeaves \in Nat, size \in 0..MaxLeaves, size > 0,
         NEW k \in 0..MaxLeaves, k + 1 <= MaxLeaves
  PROVE  Pairs(PaddedLevel(k)) = Level(k + 1)
<1> DEFINE n == Count[k]
           list == PaddedLevel(k)
           m == Count[k + 1]
           t == Tree[k]
           u == Tree[k + 1]
           child(j) == IF 2 * j + 1 < n THEN 2 * j + 1 ELSE 2 * j
<1>1. n \in Nat /\ n > 0 /\ m \in Nat /\ m = (n + 1) \div 2
  <2>1. k + 1 \in 0..MaxLeaves /\ k + 1 \in 1..MaxLeaves /\ k + 1 - 1 = k
    OBVIOUS
  <2> QED
    BY <2>1, Levels
<1>2. u = [j \in Nat |-> DHash(t[2 * j], t[child(j)])]
  <2>1. k + 1 \in 0..MaxLeaves /\ k + 1 # 0 /\ k + 1 - 1 = k
    OBVIOUS
  <2> DEFINE T == Tree
             first == [j \in Nat |-> Leaf(j + 1)]
             up(c, s) == [j \in Nat |->
                            DHash(s[2 * j], s[IF 2 * j + 1 < c
                                              THEN 2 * j + 1 ELSE 2 * j])]
  <2>2. T = [l \in 0..MaxLeaves |->
               IF l = 0 THEN first ELSE up(Count[l - 1], T[l - 1])]
    BY TreeIs
  <2> HIDE DEF T, first, up
  <2>3. T[k + 1] = up(Count[k], T[k])
    BY <2>1, <2>2
  <2> QED
    BY <2>3, Zenon DEF T, up
<1>3. /\ Len(list) = n + (n % 2)
      /\ \A i \in 1..n + (n % 2) : list[i] = t[IF i <= n THEN i - 1 ELSE n - 1]
  <2>1. Len(list) = n + (n % 2)
    BY LevelPadded
  <2> QED
    BY <2>1 DEF PaddedLevel
<1>4. Level(k + 1) = [i \in 1..m |-> u[i - 1]]
  BY DEF Level
<1> HIDE DEF list, m, n, t, u
<1>5. Len(list) \div 2 = m /\ n % 2 \in {0, 1} /\ n <= 2 * m /\ n + (n % 2) = 2 * m
  BY <1>1, <1>3
<1>6. ASSUME NEW i \in 1..m
      PROVE  DHash(list[2 * i - 1], list[2 * i]) = u[i - 1]
  <2>1. i - 1 \in Nat /\ 2 * i - 1 \in 1..n + (n % 2) /\ 2 * i \in 1..n + (n % 2)
        /\ 2 * i - 1 <= n
    BY <1>1, <1>5
  <2>2. list[2 * i - 1] = t[2 * (i - 1)]
    <3>1. 2 * i - 1 - 1 = 2 * (i - 1)
      OBVIOUS
    <3> QED
      BY <1>3, <2>1, <3>1
  <2>3. list[2 * i] = t[child(i - 1)]
    <3>1. (IF 2 * i <= n THEN 2 * i - 1 ELSE n - 1) = child(i - 1)
      BY <1>1, <1>5, <2>1
    <3> HIDE DEF child
    <3> QED
      BY <1>3, <2>1, <3>1
  <2>4. u[i - 1] = DHash(t[2 * (i - 1)], t[child(i - 1)])
    <3> HIDE DEF child
    <3> QED
      BY <1>2, <2>1
  <2> QED
    BY <2>2, <2>3, <2>4
<1>7. Pairs(list) = [i \in 1..m |-> DHash(list[2 * i - 1], list[2 * i])]
  BY <1>5 DEF Pairs
<1> QED
  BY <1>4, <1>6, <1>7 DEF list
(***************************************************************************)
(* The calls.                                                              *)
(***************************************************************************)

(* The caller's list is as it was made, or padded by an earlier call.      *)
LeavesKept ==
  leaves = [i \in 1..size |-> Leaf(i)] \/ (size > 1 /\ leaves = PaddedLevel(0))

(* The call at some depth holds that level of the tree, and every level    *)
(* below it had more than one node.                                        *)
AtLevel ==
  /\ \A l \in 0..depth - 1 : Count[l] > 1
  /\ nodes = IF depth = 0 THEN leaves ELSE Level(depth)

MerkleInv ==
  /\ RootIsTheTrees
  /\ LeavesKept
  /\ state = "recursing" =>
       IF size = 0 THEN nodes = <<>> ELSE AtLevel

LEMMA FirstLevel ==
  ASSUME MaxLeaves \in Nat, size \in 0..MaxLeaves, size > 0
  PROVE  [i \in 1..size |-> Leaf(i)] = Level(0)
<1>1. 0 \in 0..MaxLeaves
  OBVIOUS
<1> DEFINE T == Tree
           first == [j \in Nat |-> Leaf(j + 1)]
           up(c, s) == [j \in Nat |->
                          DHash(s[2 * j], s[IF 2 * j + 1 < c
                                            THEN 2 * j + 1 ELSE 2 * j])]
<1>2. T = [l \in 0..MaxLeaves |->
             IF l = 0 THEN first ELSE up(Count[l - 1], T[l - 1])]
  BY TreeIs
<1> HIDE DEF T, up, first
<1>3. T[0] = first
  BY <1>1, <1>2
<1>4. Level(0) = [i \in 1..size |-> first[i - 1]]
  BY <1>3, Levels DEF Level, T
<1>5. ASSUME NEW i \in 1..size PROVE first[i - 1] = Leaf(i)
  <2>1. i - 1 \in Nat /\ i - 1 + 1 = i
    OBVIOUS
  <2> QED
    BY <2>1 DEF first
<1> QED
  BY <1>4, <1>5

LEMMA LeavesLen ==
  ASSUME MaxLeaves \in Nat, size \in 0..MaxLeaves, LeavesKept
  PROVE  /\ Len(leaves) \in {size, size + (size % 2)}
         /\ size = 1 => Len(leaves) = 1
         /\ size > 1 => Len(leaves) > 1
         /\ size > 0 => Padded(leaves) = PaddedLevel(0)
<1>1. CASE size = 0
  <2>1. leaves = [i \in 1..0 |-> Leaf(i)]
    BY <1>1 DEF LeavesKept
  <2>2. DOMAIN leaves = 1..0
    BY <2>1
  <2>3. Len(leaves) = 0
    BY <2>2, ListLen
  <2> QED
    BY <1>1, <2>3
<1>2. CASE size > 0
  <2>1. 0 \in 0..MaxLeaves /\ Count[0] = size /\ size \in Nat
    BY <1>2, Levels
  <2>2. leaves = Level(0) \/ (size > 1 /\ leaves = PaddedLevel(0))
    BY <1>2, FirstLevel DEF LeavesKept
  <2>3. /\ Padded(Level(0)) = PaddedLevel(0)
        /\ Padded(PaddedLevel(0)) = PaddedLevel(0)
        /\ Len(Level(0)) = size
        /\ Len(PaddedLevel(0)) = size + (size % 2)
    BY <1>2, <2>1, LevelPadded
  <2>4. size % 2 \in {0, 1}
    BY <2>1, <1>2, Half
  <2> DEFINE n == Len(leaves)
  <2>5. Padded(leaves) = PaddedLevel(0)
    BY <2>2, <2>3, Zenon
  <2>6. n = size \/ (size > 1 /\ n = size + (size % 2))
    BY <2>2, <2>3, Zenon
  <2> HIDE DEF n
  <2>7. /\ n \in {size, size + (size % 2)}
        /\ size = 1 => n = 1
        /\ size > 1 => n > 1
    BY <1>2, <2>1, <2>4, <2>6
  <2> QED
    BY <2>5, <2>7 DEF n
<1> QED
  BY <1>1, <1>2
(* A call that has more than one node goes on below the height of the tree.*)
LEMMA BelowHeight ==
  ASSUME MaxLeaves \in Nat, size \in 0..MaxLeaves, size > 0,
         depth \in Nat, \A l \in 0..depth - 1 : Count[l] > 1
  PROVE  /\ depth <= Height /\ depth \in 0..MaxLeaves
         /\ Count[depth] # 1 => depth + 1 <= Height /\ Count[depth] > 1
         /\ Count[depth] = 1 => depth = Height
<1>1. /\ Height \in 0..MaxLeaves /\ Count[Height] = 1
      /\ \A l \in 0..Height - 1 : Count[l] > 1
  BY HeightIs
<1> DEFINE top == Height
           n == depth
<1> HIDE DEF top, n
<1>2. n \in Nat /\ top \in 0..MaxLeaves /\ Count[top] = 1
      /\ (\A l \in 0..top - 1 : Count[l] > 1) /\ \A l \in 0..n - 1 : Count[l] > 1
  BY <1>1 DEF top, n
<1>3. n <= top
  <2> SUFFICES ASSUME n > top PROVE FALSE
    BY <1>2
  <2>1. top \in 0..n - 1
    BY <1>2
  <2>2. Count[top] > 1
    BY <1>2, <2>1
  <2> QED
    BY <1>2, <2>2
<1>4. n \in 0..MaxLeaves
  BY <1>2, <1>3
<1>5. Count[n] \in Nat /\ Count[n] > 0
  BY <1>4, Levels
<1>6. ASSUME Count[n] # 1 PROVE n + 1 <= top /\ Count[n] > 1
  <2>1. n # top
    BY <1>2, <1>6
  <2> QED
    BY <1>2, <1>3, <1>5, <1>6, <2>1
<1>7. ASSUME Count[n] = 1 PROVE n = top
  <2> SUFFICES ASSUME n # top PROVE FALSE
    OBVIOUS
  <2>1. n \in 0..top - 1
    BY <1>2, <1>3
  <2>2. Count[n] > 1
    BY <1>2, <2>1
  <2> QED
    BY <1>7, <2>2
<1> QED
  BY <1>3, <1>4, <1>6, <1>7 DEF n, top

(* What the innermost call holds.                                          *)
LEMMA NodesAtLevel ==
  ASSUME MaxLeaves \in Nat, size \in 0..MaxLeaves, size > 0, depth \in Nat,
         LeavesKept, AtLevel
  PROVE  /\ Len(nodes) # 1 => Count[depth] # 1
         /\ Len(nodes) = 1 => Count[depth] = 1 /\ nodes = Level(depth)
         /\ Padded(nodes) = PaddedLevel(depth)
<1>1. depth \in 0..MaxLeaves
  BY BelowHeight DEF AtLevel
<1>2. CASE depth = 0
  <2>1. nodes = leaves /\ Count[depth] = size
    BY <1>2, Levels DEF AtLevel
  <2>2. Len(nodes) \in {size, size + (size % 2)} /\ (size = 1 => Len(nodes) = 1)
        /\ (size > 1 => Len(nodes) > 1) /\ Padded(nodes) = PaddedLevel(depth)
    BY <1>2, <2>1, LeavesLen
  <2>3. size = 1 => nodes = Level(depth)
    BY <1>2, <2>1, FirstLevel DEF LeavesKept
  <2> DEFINE n == Len(nodes)
  <2> HIDE DEF n
  <2>4. (size = 1 => n = 1) /\ (size > 1 => n > 1) /\ size \in Nat
    BY <2>2 DEF n
  <2>5. (n # 1 => size # 1) /\ (n = 1 => size = 1)
    BY <2>4
  <2> QED
    BY <2>1, <2>2, <2>3, <2>5 DEF n
<1>3. CASE depth # 0
  <2>1. nodes = Level(depth)
    BY <1>3 DEF AtLevel
  <2> QED
    BY <1>1, <2>1, LevelPadded
<1> QED
  BY <1>2, <1>3
(* The tree is that of the leaves the list was made with.                  *)
LEMMA SameTree ==
  ASSUME size' = size
  PROVE  /\ Count' = Count /\ Tree' = Tree /\ Height' = Height
         /\ \A k : Level(k)' = Level(k) /\ PaddedLevel(k)' = PaddedLevel(k)
<1>1. Count' = Count
  BY ZenonT(60) DEF Count
<1>2. Tree' = Tree
  BY <1>1, ZenonT(60) DEF Tree
<1>3. Height' = Height
  BY <1>1, ZenonT(60) DEF Height
<1> QED
  BY <1>1, <1>2, <1>3 DEF Level, PaddedLevel

LEMMA MerkleStarts == Init => MerkleInv
<1> SUFFICES ASSUME Init PROVE MerkleInv
  OBVIOUS
<1>1. MaxLeaves \in Nat /\ StackDepth \in Nat /\ StackDepth > MaxLeaves
      /\ MaxCalls \in Nat /\ size \in 0..MaxLeaves
  BY BoundsAssumption DEF Init
<1>2. LeavesKept
  BY DEF Init, LeavesKept
<1>3. TypeOK
  BY <1>1, <1>2, LeavesLen DEF Init, TypeOK
<1>4. RootIsReference /\ state # "recursing"
  BY DEF Init, RootIsReference
<1>5. DepthIsHeight
  <2>1. size > 0 => Height \in 0..MaxLeaves
    BY <1>1, HeightIs
  <2> DEFINE top == Height
  <2> HIDE DEF top
  <2>2. size > 0 => depth <= top
    BY <1>1, <2>1 DEF Init, top
  <2> QED
    BY <2>2 DEF Init, DepthIsHeight, top
<1> QED
  BY <1>2, <1>3, <1>4, <1>5 DEF MerkleInv, RootIsTheTrees

LEMMA CallKeeps ==
  ASSUME MerkleInv, MerkleRoot
  PROVE  MerkleInv'
<1>1. MaxLeaves \in Nat /\ StackDepth \in Nat /\ StackDepth > MaxLeaves
      /\ MaxCalls \in Nat /\ size \in 0..MaxLeaves
      /\ TypeOK /\ LeavesKept
  BY BoundsAssumption DEF MerkleInv, RootIsTheTrees, TypeOK
<1>2. /\ calls' = calls + 1 /\ calls < MaxCalls /\ nodes' = leaves
      /\ depth' = 0 /\ state' = "recursing" /\ size' = size /\ leaves' = leaves
  BY DEF MerkleRoot
<1>3. LeavesKept'
  BY <1>1, <1>2, SameTree DEF LeavesKept
<1>4. TypeOK'
  BY <1>1, <1>2 DEF TypeOK
<1>5. RootIsReference'
  BY <1>2 DEF RootIsReference
<1>6. DepthIsHeight'
  <2>1. size > 0 => Height \in 0..MaxLeaves
    BY <1>1, HeightIs
  <2>2. Height' = Height
    BY <1>2, SameTree
  <2> DEFINE top == Height
  <2> HIDE DEF top
  <2>3. size > 0 => 0 <= top
    BY <1>1, <2>1 DEF top
  <2> QED
    BY <1>2, <2>2, <2>3 DEF DepthIsHeight, top
<1>7. size = 0 => leaves = <<>>
  <2> SUFFICES ASSUME size = 0 PROVE leaves = <<>>
    OBVIOUS
  <2>1. leaves = [i \in 1..0 |-> Leaf(i)]
    BY <1>1 DEF LeavesKept
  <2> QED
    BY <2>1
<1>8. AtLevel'
  <2>1. \A l \in 0..-1 : FALSE
    OBVIOUS
  <2> QED
    BY <1>2, <2>1 DEF AtLevel
<1> QED
  BY <1>2, <1>3, <1>4, <1>5, <1>6, <1>7, <1>8 DEF MerkleInv, RootIsTheTrees

LEMMA RecurseKeeps ==
  ASSUME MerkleInv, RecurseNodes
  PROVE  MerkleInv'
<1>1. MaxLeaves \in Nat /\ StackDepth \in Nat /\ StackDepth > MaxLeaves
      /\ MaxCalls \in Nat /\ size \in 0..MaxLeaves /\ depth \in 0..StackDepth
      /\ TypeOK /\ LeavesKept
  BY BoundsAssumption DEF MerkleInv, RootIsTheTrees, TypeOK
<1>2. /\ state = "recursing" /\ Len(nodes) # 1 /\ depth < StackDepth
      /\ nodes' = Pairs(Padded(nodes))
      /\ leaves' = IF depth = 0 THEN Padded(nodes) ELSE leaves
      /\ depth' = depth + 1 /\ size' = size /\ state' = state /\ calls' = calls
  BY DEF RecurseNodes
<1>3. RootIsReference'
  BY <1>2 DEF RootIsReference
<1>4. CASE size = 0
  <2>1. nodes = <<>>
    BY <1>2, <1>4 DEF MerkleInv
  <2>2. Padded(nodes) = <<>>
    BY <2>1 DEF Padded
  <2>3. nodes' = <<>>
    BY <1>2, <2>2 DEF Pairs
  <2>4. leaves = <<>>
    <3>1. leaves = [i \in 1..0 |-> Leaf(i)]
      BY <1>1, <1>4 DEF LeavesKept
    <3> QED
      BY <3>1
  <2>5. leaves' = leaves
    BY <1>2, <2>2, <2>4
  <2>6. LeavesKept'
    BY <1>1, <1>2, <1>4, <2>5 DEF LeavesKept
  <2>7. TypeOK'
    BY <1>1, <1>2, <2>5 DEF TypeOK
  <2>8. DepthIsHeight'
    BY <1>1, <1>2, <1>4 DEF DepthIsHeight
  <2> QED
    BY <1>2, <1>3, <1>4, <2>3, <2>6, <2>7, <2>8 DEF MerkleInv, RootIsTheTrees
<1>5. CASE size # 0
  <2>1. size > 0 /\ AtLevel /\ depth \in Nat
    BY <1>1, <1>2, <1>5 DEF MerkleInv
  <2>2. Count[depth] # 1 /\ Padded(nodes) = PaddedLevel(depth)
    BY <1>1, <1>2, <2>1, NodesAtLevel
  <2>3. /\ depth \in 0..MaxLeaves /\ depth + 1 <= Height /\ Count[depth] > 1
        /\ Height \in 0..MaxLeaves
    BY <1>1, <2>1, <2>2, BelowHeight, HeightIs DEF AtLevel
  <2> DEFINE top == Height
  <2> HIDE DEF top
  <2>4. depth + 1 <= MaxLeaves /\ depth + 1 <= top
    BY <1>1, <2>3 DEF top
  <2>5. nodes' = Level(depth + 1)
    BY <1>1, <1>2, <2>1, <2>2, <2>3, <2>4, NextLevel
  <2>6. /\ Count' = Count /\ Tree' = Tree /\ Height' = Height
        /\ \A k : Level(k)' = Level(k) /\ PaddedLevel(k)' = PaddedLevel(k)
    BY <1>2, SameTree
  <2>7. AtLevel'
    <3>1. nodes' = Level(depth)'
      <4>1. Level(depth + 1) = [i \in 1..Count[depth + 1] |-> Tree[depth + 1][i - 1]]
        BY DEF Level
      <4>2. Level(depth)' = [i \in 1..Count'[depth'] |-> Tree'[depth'][i - 1]]
        BY DEF Level
      <4> QED
        BY <1>2, <2>5, <2>6, <4>1, <4>2, Zenon
    <3>2. \A l \in 0..depth' - 1 : Count'[l] > 1
      <4> SUFFICES ASSUME NEW l \in 0..depth' - 1 PROVE Count[l] > 1
        BY <2>6
      <4>1. l \in 0..depth - 1 \/ l = depth
        BY <1>2, <2>1
      <4> QED
        BY <2>1, <2>3, <4>1 DEF AtLevel
    <3>3. depth' # 0
      BY <1>2, <2>1
    <3> QED
      BY <3>1, <3>2, <3>3 DEF AtLevel
  <2>8. LeavesKept'
    <3>1. CASE depth = 0
      <4>1. Count[0] = size
        BY <1>1, <2>1, Levels
      <4>2. size' > 1
        BY <1>2, <2>3, <3>1, <4>1
      <4>3. leaves' = PaddedLevel(0)'
        BY <1>2, <2>2, <2>6, <3>1
      <4> QED
        BY <4>2, <4>3 DEF LeavesKept
    <3>2. CASE depth # 0
      BY <1>1, <1>2, <2>6, <3>2 DEF LeavesKept
    <3> QED
      BY <3>1, <3>2
  <2>9. TypeOK'
    <3>1. Len(leaves)' \in {size, size + (size % 2)}
      <4>1. CASE depth = 0
        <5>1. Len(PaddedLevel(0)) = size + (size % 2)
          BY <1>1, <2>1, <2>3, <4>1, LevelPadded, Levels
        <5> QED
          BY <1>2, <2>2, <4>1, <5>1
      <4>2. CASE depth # 0
        BY <1>1, <1>2, <4>2 DEF TypeOK
      <4> QED
        BY <4>1, <4>2
    <3> QED
      BY <1>1, <1>2, <3>1 DEF TypeOK
  <2>10. DepthIsHeight'
    BY <1>2, <2>4, <2>6 DEF DepthIsHeight, top
  <2> QED
    BY <1>2, <1>3, <1>5, <2>7, <2>8, <2>9, <2>10 DEF MerkleInv, RootIsTheTrees
<1> QED
  BY <1>4, <1>5
LEMMA ReturnKeeps ==
  ASSUME MerkleInv, Return
  PROVE  MerkleInv'
<1>1. MaxLeaves \in Nat /\ StackDepth \in Nat /\ size \in 0..MaxLeaves
      /\ depth \in Nat /\ TypeOK /\ LeavesKept /\ DepthIsHeight
  BY BoundsAssumption DEF MerkleInv, RootIsTheTrees, TypeOK
<1>2. /\ state = "recursing" /\ Len(nodes) = 1 /\ state' = "returned"
      /\ size' = size /\ leaves' = leaves /\ nodes' = nodes
      /\ depth' = depth /\ calls' = calls
  BY DEF Return
<1>3. /\ Tree' = Tree /\ Height' = Height
      /\ PaddedLevel(0)' = PaddedLevel(0)
  BY <1>2, SameTree
<1>4. TypeOK' /\ LeavesKept' /\ DepthIsHeight'
  BY <1>1, <1>2, <1>3 DEF TypeOK, LeavesKept, DepthIsHeight
<1>5. ASSUME size > 0 PROVE nodes[1] = Tree[Height][0]
  <2>1. AtLevel
    BY <1>2, <1>5, <1>1 DEF MerkleInv
  <2>2. Count[depth] = 1 /\ nodes = Level(depth)
    BY <1>1, <1>2, <1>5, <2>1, NodesAtLevel
  <2>3. depth = Height
    BY <1>1, <1>5, <2>1, <2>2, BelowHeight DEF AtLevel
  <2>4. nodes[1] = Tree[depth][0]
    BY <2>2 DEF Level
  <2> QED
    BY <2>3, <2>4
<1>6. RootIsReference'
  BY <1>2, <1>3, <1>5 DEF RootIsReference
<1> QED
  BY <1>2, <1>4, <1>6 DEF MerkleInv, RootIsTheTrees

(* The stack is used up only for an empty list.                            *)
LEMMA OverflowKeeps ==
  ASSUME MerkleInv, Overflow
  PROVE  MerkleInv'
<1>1. MaxLeaves \in Nat /\ StackDepth \in Nat /\ StackDepth > MaxLeaves
      /\ size \in 0..MaxLeaves /\ depth \in Nat
      /\ TypeOK /\ LeavesKept /\ DepthIsHeight
  BY BoundsAssumption DEF MerkleInv, RootIsTheTrees, TypeOK
<1>2. /\ state = "recursing" /\ depth = StackDepth /\ state' = "threw"
      /\ size' = size /\ leaves' = leaves /\ nodes' = nodes
      /\ depth' = depth /\ calls' = calls
  BY DEF Overflow
<1>3. Height' = Height /\ PaddedLevel(0)' = PaddedLevel(0)
  BY <1>2, SameTree
<1>4. TypeOK' /\ LeavesKept' /\ RootIsReference'
  BY <1>1, <1>2, <1>3 DEF TypeOK, LeavesKept, RootIsReference
<1>5. size = 0
  <2> SUFFICES ASSUME size # 0 PROVE FALSE
    OBVIOUS
  <2>1. size > 0 /\ AtLevel
    BY <1>1, <1>2 DEF MerkleInv
  <2>2. depth \in 0..MaxLeaves
    BY <1>1, <2>1, BelowHeight DEF AtLevel
  <2> QED
    BY <1>1, <1>2, <2>2
<1>6. DepthIsHeight'
  BY <1>2, <1>5 DEF DepthIsHeight
<1> QED
  BY <1>2, <1>4, <1>6 DEF MerkleInv, RootIsTheTrees

LEMMA MerkleStutters ==
  ASSUME MerkleInv, UNCHANGED vars
  PROVE  MerkleInv'
<1>1. /\ size' = size /\ leaves' = leaves /\ nodes' = nodes
      /\ depth' = depth /\ calls' = calls /\ state' = state
  BY DEF vars
<1>2. /\ Count' = Count /\ Tree' = Tree /\ Height' = Height
      /\ \A k : Level(k)' = Level(k) /\ PaddedLevel(k)' = PaddedLevel(k)
  BY <1>1, SameTree
<1>3. TypeOK' /\ RootIsReference' /\ DepthIsHeight' /\ LeavesKept'
  BY <1>1, <1>2
     DEF MerkleInv, RootIsTheTrees, TypeOK, RootIsReference, DepthIsHeight, LeavesKept
<1>4. AtLevel => AtLevel'
  <2>1. Level(depth)' = [i \in 1..Count'[depth'] |-> Tree'[depth'][i - 1]]
        /\ Level(depth) = [i \in 1..Count[depth] |-> Tree[depth][i - 1]]
    BY DEF Level
  <2>2. Level(depth)' = Level(depth)
    BY <1>1, <1>2, <2>1, Zenon
  <2> QED
    BY <1>1, <1>2, <2>2 DEF AtLevel
<1> QED
  BY <1>1, <1>3, <1>4 DEF MerkleInv, RootIsTheTrees

(* For every list, however often merkleRoot is called on it: the root is   *)
(* that of the tree over the leaves the list was made with, though a call  *)
(* pads the list (merkle-tree.js 42); only an empty list overflows the     *)
(* stack, and no other list needs more calls than its tree has levels.     *)
THEOREM RootOfTheTree == SpecAny => []RootIsTheTrees
<1>1. InitAny => MerkleInv
  BY MerkleStarts DEF InitAny
<1>2. MerkleInv /\ [NextAny]_all => MerkleInv'
  <2> SUFFICES ASSUME MerkleInv, [NextAny]_all PROVE MerkleInv'
    OBVIOUS
  <2>1. Next \/ UNCHANGED vars
    BY DEF NextAny, all
  <2> QED
    BY <2>1, CallKeeps, RecurseKeeps, ReturnKeeps, OverflowKeeps, MerkleStutters
       DEF Next
<1>3. MerkleInv => RootIsTheTrees
  BY DEF MerkleInv
<1> QED
  BY <1>1, <1>2, <1>3, PTL DEF SpecAny

(****************************************************************************)
(* Lists, and the list of them all, one after the other: FlattenSeq of    *)
(* the community modules, which the writer of a block is built from.       *)
(****************************************************************************)
IsFlattening(f, s) ==
  f = [j \in 1..Len(s) |-> IF j = 1 THEN s[j] ELSE f[j - 1] \o s[j]]

LEMMA FlatteningExists ==
  ASSUME NEW S, NEW s \in Seq(S)
  PROVE  \E f : IsFlattening(f, s)
<1> DEFINE Up(f, m) ==
      f = [j \in 1..m |-> IF j = 1 THEN s[j] ELSE f[j - 1] \o s[j]]
           T == {m \in Nat : \E f : Up(f, m)}
<1>1. 0 \in T
  <2>1. Up([j \in 1..0 |-> {}], 0)
    OBVIOUS
  <2> QED
    BY <2>1
<1>2. ASSUME NEW m \in Nat, m \in T PROVE m + 1 \in T
  <2>1. PICK f : Up(f, m)
    BY <1>2
  <2> DEFINE g == [j \in 1..m + 1 |->
                     IF j = 1 THEN s[j] ELSE f[j - 1] \o s[j]]
  <2>0. \A j \in 1..m : f[j] = IF j = 1 THEN s[j] ELSE f[j - 1] \o s[j]
    BY <2>1
  <2>2. \A j \in 1..m : g[j] = f[j]
    BY <2>0
  <2>3. \A j \in 1..m + 1 : j # 1 => j - 1 \in 1..m
    OBVIOUS
  <2>4. g = [j \in 1..m + 1 |-> IF j = 1 THEN s[j] ELSE g[j - 1] \o s[j]]
    BY <2>2, <2>3
  <2> HIDE DEF g
  <2>5. Up(g, m + 1)
    BY <2>4
  <2> HIDE DEF Up
  <2>6. (\E a : Up(a, m + 1)) /\ m + 1 \in Nat
    BY <2>5
  <2> QED
    BY <2>6
<1>3. Len(s) \in T
  <2> HIDE DEF T
  <2>1. Nat \subseteq T
    BY <1>1, <1>2, Induct
  <2> QED
    BY <2>1
<1> QED
  BY <1>3 DEF IsFlattening

LEMMA FlattenSeqIs ==
  ASSUME NEW S, NEW s \in Seq(S), s # <<>>
  PROVE  \E f : /\ Parsing!FlattenSeq(s) = f[Len(s)]
                /\ f[1] = s[1]
                /\ \A j \in 1..Len(s) - 1 : f[j + 1] = f[j] \o s[j + 1]
<1> DEFINE f == CHOOSE f : IsFlattening(f, s)
<1>1. IsFlattening(f, s)
  BY FlatteningExists, Zenon
<1>2. Len(s) # 0
  OBVIOUS
<1>3. Parsing!FlattenSeq(s) = f[Len(s)]
  BY <1>2, Zenon DEF Parsing!FlattenSeq, IsFlattening
<1> DEFINE n == Len(s)
<1>4. \A j \in 1..n : f[j] = IF j = 1 THEN s[j] ELSE f[j - 1] \o s[j]
  <2> HIDE DEF f
  <2> QED
    BY <1>1 DEF IsFlattening
<1>5. n \in Nat /\ n # 0
  BY <1>2
<1> HIDE DEF f, n
<1>6. f[1] = s[1]
  BY <1>4, <1>5
<1>7. ASSUME NEW j \in 1..n - 1 PROVE f[j + 1] = f[j] \o s[j + 1]
  <2> DEFINE k == j + 1
  <2>1. k \in 1..n /\ k # 1 /\ k - 1 = j
    BY <1>5
  <2> HIDE DEF k
  <2>2. f[k] = f[j] \o s[k]
    BY <1>4, <2>1
  <2> QED
    BY <2>2 DEF k
<1> QED
  BY <1>3, <1>6, <1>7 DEF n

LEMMA FlattenEmpty == Parsing!FlattenSeq(<<>>) = <<>>
BY DEF Parsing!FlattenSeq

LEMMA FlattenType ==
  ASSUME NEW S, NEW s \in Seq(Seq(S))
  PROVE  Parsing!FlattenSeq(s) \in Seq(S)
<1>1. CASE s = <<>>
  <2>1. Parsing!FlattenSeq(s) = <<>>
    BY <1>1, FlattenEmpty
  <2> QED
    BY <2>1
<1>2. CASE s # <<>>
  <2>1. PICK f : /\ Parsing!FlattenSeq(s) = f[Len(s)]
                 /\ f[1] = s[1]
                 /\ \A j \in 1..Len(s) - 1 : f[j + 1] = f[j] \o s[j + 1]
    BY <1>2, FlattenSeqIs
  <2> DEFINE n == Len(s)
             T == {m \in Nat : m \in 1..n => f[m] \in Seq(S)}
  <2>2. n \in Nat /\ n # 0
    BY <1>2
  <2>3. \A j \in 1..n : s[j] \in Seq(S)
    OBVIOUS
  <2>4. 0 \in T
    OBVIOUS
  <2>5. ASSUME NEW m \in Nat, m \in T PROVE m + 1 \in T
    <3> SUFFICES ASSUME m + 1 \in 1..n PROVE f[m + 1] \in Seq(S)
      OBVIOUS
    <3>1. CASE m = 0
      BY <2>1, <2>3, <3>1
    <3>2. CASE m # 0
      <4>1. m \in 1..n /\ m \in 1..n - 1
        BY <2>2, <3>2
      <4>2. f[m] \in Seq(S) /\ f[m + 1] = f[m] \o s[m + 1]
            /\ s[m + 1] \in Seq(S)
        BY <2>1, <2>3, <2>5, <4>1
      <4> QED
        BY <4>2
    <3> QED
      BY <3>1, <3>2
  <2>6. n \in T
    <3> HIDE DEF T
    <3>1. Nat \subseteq T
      BY <2>4, <2>5, Induct
    <3> QED
      BY <2>2, <3>1
  <2> QED
    BY <2>1, <2>2, <2>6
<1> QED
  BY <1>1, <1>2

LEMMA FlattenAppend ==
  ASSUME NEW S, NEW s \in Seq(Seq(S)), NEW x \in Seq(S)
  PROVE  Parsing!FlattenSeq(Append(s, x)) = Parsing!FlattenSeq(s) \o x
<1> DEFINE n == Len(s)  t == Append(s, x)
<1>1. /\ t \in Seq(Seq(S)) /\ Len(t) = n + 1 /\ t # <<>> /\ n \in Nat
      /\ t[n + 1] = x /\ \A j \in 1..n : t[j] = s[j]
  BY AppendProperties
<1> HIDE DEF t
<1>2. PICK g : /\ Parsing!FlattenSeq(t) = g[Len(t)]
               /\ g[1] = t[1]
               /\ \A j \in 1..Len(t) - 1 : g[j + 1] = g[j] \o t[j + 1]
  BY <1>1, FlattenSeqIs
<1>3. /\ Parsing!FlattenSeq(t) = g[n + 1]
      /\ \A j \in 1..n : g[j + 1] = g[j] \o t[j + 1]
  <2>1. Len(t) - 1 = n /\ Len(t) = n + 1
    BY <1>1
  <2> QED
    BY <1>2, <2>1
<1>4. CASE n = 0
  <2>1. s = <<>> /\ Parsing!FlattenSeq(s) = <<>>
    BY <1>4, FlattenEmpty
  <2>2. g[1] = x
    BY <1>1, <1>2, <1>4
  <2>3. <<>> \o x = x
    BY ConcatEmptySeq
  <2> QED
    BY <1>3, <1>4, <2>1, <2>2, <2>3 DEF t
<1>5. CASE n # 0
  <2>0. s # <<>>
    BY <1>5
  <2>1. PICK f : /\ Parsing!FlattenSeq(s) = f[Len(s)]
                 /\ f[1] = s[1]
                 /\ \A j \in 1..Len(s) - 1 : f[j + 1] = f[j] \o s[j + 1]
    BY <2>0, FlattenSeqIs
  <2> DEFINE T == {m \in Nat : m \in 1..n => g[m] = f[m]}
  <2>3. 0 \in T
    OBVIOUS
  <2>4. ASSUME NEW m \in Nat, m \in T PROVE m + 1 \in T
    <3> SUFFICES ASSUME m + 1 \in 1..n PROVE g[m + 1] = f[m + 1]
      OBVIOUS
    <3>1. CASE m = 0
      BY <1>1, <1>2, <2>1, <3>1
    <3>2. CASE m # 0
      <4>1. m \in 1..n /\ m \in 1..n - 1
        BY <1>1, <3>2
      <4>2. g[m + 1] = g[m] \o t[m + 1] /\ f[m + 1] = f[m] \o s[m + 1]
        BY <1>3, <2>1, <4>1
      <4>3. g[m] = f[m] /\ t[m + 1] = s[m + 1]
        BY <1>1, <2>4, <4>1
      <4> QED
        BY <4>2, <4>3
    <3> QED
      BY <3>1, <3>2
  <2>5. n \in T
    <3> HIDE DEF T
    <3>1. Nat \subseteq T
      BY <2>3, <2>4, Induct
    <3> QED
      BY <1>1, <3>1
  <2>6. g[n] = f[n]
    BY <1>1, <1>5, <2>5
  <2>7. g[n + 1] = g[n] \o x
    <3>1. n \in 1..n
      BY <1>1, <1>5
    <3>2. g[n + 1] = g[n] \o t[n + 1]
      BY <1>3, <3>1
    <3> QED
      BY <1>1, <3>2
  <2> QED
    BY <1>3, <2>1, <2>6, <2>7 DEF t
<1> QED
  BY <1>4, <1>5

IsList(s) == Len(s) \in Nat /\ s = [j \in 1..Len(s) |-> s[j]]

LEMMA ListIsSeq ==
  ASSUME NEW s, IsList(s)
  PROVE  s \in Seq({s[j] : j \in 1..Len(s)})
<1> DEFINE n == Len(s)  S == {s[j] : j \in 1..n}
<1>1. n \in Nat /\ s = [j \in 1..n |-> s[j]]
  BY DEF IsList
<1>2. \A j \in 1..n : s[j] \in S
  OBVIOUS
<1> HIDE DEF n, S
<1>3. s \in [1..n -> S]
  BY <1>1, <1>2
<1>4. s \in Seq(S)
  BY <1>1, <1>3
<1> QED
  BY <1>4 DEF n, S

LEMMA SeqIsList ==
  ASSUME NEW S, NEW s \in Seq(S)
  PROVE  IsList(s)
BY DEF IsList

LEMMA Same ==
  ASSUME NEW a, IsList(a), NEW b, IsList(b), Len(a) = Len(b),
         \A j \in 1..Len(a) : a[j] = b[j]
  PROVE  a = b
BY DEF IsList

LEMMA Joined ==
  ASSUME NEW a, IsList(a), NEW b, IsList(b)
  PROVE  /\ IsList(a \o b) /\ Len(a \o b) = Len(a) + Len(b)
         /\ \A j \in 1..Len(a) : (a \o b)[j] = a[j]
         /\ \A j \in 1..Len(b) : (a \o b)[Len(a) + j] = b[j]
<1> DEFINE S == {a[j] : j \in 1..Len(a)} \cup {b[j] : j \in 1..Len(b)}
<1>1. a \in Seq(S) /\ b \in Seq(S)
  <2>1. a \in Seq({a[j] : j \in 1..Len(a)}) /\ b \in Seq({b[j] : j \in 1..Len(b)})
    BY ListIsSeq
  <2> QED
    BY <2>1
<1> HIDE DEF S
<1>2. a \o b \in Seq(S) /\ Len(a \o b) = Len(a) + Len(b)
  BY <1>1
<1>3. IsList(a \o b)
  BY <1>2, SeqIsList
<1>4. Len(a) \in Nat /\ Len(b) \in Nat
  BY <1>1
<1> QED
  BY <1>1, <1>2, <1>3, <1>4

LEMMA Cut ==
  ASSUME NEW s, IsList(s), NEW m \in Nat, NEW n \in Nat, m >= 1, m <= n + 1, n <= Len(s)
  PROVE  /\ IsList(SubSeq(s, m, n)) /\ Len(SubSeq(s, m, n)) = n - m + 1
         /\ \A j \in 1..n - m + 1 : SubSeq(s, m, n)[j] = s[m + j - 1]
<1> DEFINE S == {s[j] : j \in 1..Len(s)}
<1>1. s \in Seq(S)
  BY ListIsSeq
<1> HIDE DEF S
<1>2. SubSeq(s, m, n) \in Seq(S)
  BY <1>1
<1>3. IsList(SubSeq(s, m, n))
  BY <1>2, SeqIsList
<1> QED
  BY <1>1, <1>3

LEMMA Lengthened ==
  ASSUME NEW a, IsList(a), NEW u
  PROVE  /\ IsList(Append(a, u)) /\ Len(Append(a, u)) = Len(a) + 1
         /\ \A j \in 1..Len(a) : Append(a, u)[j] = a[j]
         /\ Append(a, u)[Len(a) + 1] = u
<1> DEFINE S == {a[j] : j \in 1..Len(a)} \cup {u}
<1>1. a \in Seq(S) /\ u \in S
  <2>1. a \in Seq({a[j] : j \in 1..Len(a)})
    BY ListIsSeq
  <2> QED
    BY <2>1
<1> HIDE DEF S
<1>2. Append(a, u) \in Seq(S)
  BY <1>1
<1>3. IsList(Append(a, u))
  BY <1>2, SeqIsList
<1> QED
  BY <1>1, <1>3

Begins(a, b) ==
  /\ IsList(a) /\ IsList(b) /\ Len(a) <= Len(b)
  /\ \A j \in 1..Len(a) : b[j] = a[j]

LEMMA BeginsSelf ==
  ASSUME NEW a, IsList(a)
  PROVE  Begins(a, a)
BY DEF Begins, IsList

LEMMA BeginsJoin ==
  ASSUME NEW a, IsList(a), NEW b, IsList(b)
  PROVE  Begins(a, a \o b)
<1>1. /\ IsList(a \o b) /\ Len(a \o b) = Len(a) + Len(b)
      /\ \A j \in 1..Len(a) : (a \o b)[j] = a[j]
  BY Joined
<1>2. Len(a) \in Nat /\ Len(b) \in Nat
  BY DEF IsList
<1> QED
  BY <1>1, <1>2 DEF Begins

LEMMA BeginsTwice ==
  ASSUME NEW a, NEW b, NEW c, Begins(a, b), Begins(b, c)
  PROVE  Begins(a, c)
<1>1. Len(a) \in Nat /\ Len(b) \in Nat /\ Len(c) \in Nat
  BY DEF Begins, IsList
<1>2. \A j \in 1..Len(a) : j \in 1..Len(b)
  BY <1>1 DEF Begins
<1> QED
  BY <1>1, <1>2 DEF Begins

LEMMA FirstBegins ==
  ASSUME NEW s, IsList(s), NEW n \in Nat, n <= Len(s)
  PROVE  /\ Begins(SubSeq(s, 1, n), s) /\ Len(SubSeq(s, 1, n)) = n
<1> DEFINE t == SubSeq(s, 1, n)
<1>1. /\ IsList(t) /\ Len(t) = n - 1 + 1
      /\ \A j \in 1..n - 1 + 1 : t[j] = s[1 + j - 1]
  BY Cut
<1> HIDE DEF t
<1>2. Len(t) = n /\ \A j \in 1..n : t[j] = s[j]
  BY <1>1
<1>3. Begins(t, s) /\ Len(t) = n
  BY <1>1, <1>2 DEF Begins
<1> QED
  BY <1>3 DEF t

AllLists(U) == IsList(U) /\ \A k \in 1..Len(U) : IsList(U[k])

LEMMA ListOfLists ==
  ASSUME NEW U, AllLists(U)
  PROVE  \E S : U \in Seq(Seq(S))
<1> DEFINE S == UNION {{U[k][j] : j \in 1..Len(U[k])} : k \in 1..Len(U)}
<1>1. ASSUME NEW k \in 1..Len(U)
      PROVE  U[k] \in Seq(S)
  <2> DEFINE R == {U[k][j] : j \in 1..Len(U[k])}
  <2>1. U[k] \in Seq(R)
    BY ListIsSeq DEF AllLists
  <2>2. R \subseteq S
    OBVIOUS
  <2> HIDE DEF R, S
  <2> QED
    BY <2>1, <2>2
<1> HIDE DEF S
<1>2. Len(U) \in Nat /\ U = [k \in 1..Len(U) |-> U[k]]
  BY DEF AllLists, IsList
<1>3. U \in [1..Len(U) -> Seq(S)]
  BY <1>1, <1>2
<1>4. U \in Seq(Seq(S))
  BY <1>2, <1>3
<1> QED
  BY <1>4

LEMMA FlattenOne ==
  ASSUME NEW U, AllLists(U), NEW x, IsList(x)
  PROVE  /\ IsList(Parsing!FlattenSeq(U))
         /\ Parsing!FlattenSeq(Append(U, x)) = Parsing!FlattenSeq(U) \o x
         /\ Len(Parsing!FlattenSeq(Append(U, x))) = Len(Parsing!FlattenSeq(U)) + Len(x)
         /\ AllLists(Append(U, x))
<1>1. PICK S : U \in Seq(Seq(S))
  BY ListOfLists
<1> DEFINE R == S \cup {x[j] : j \in 1..Len(x)}
<1>2. x \in Seq(R)
  <2>1. x \in Seq({x[j] : j \in 1..Len(x)})
    BY ListIsSeq
  <2> QED
    BY <2>1
<1>3. U \in Seq(Seq(R))
  <2>1. S \subseteq R
    OBVIOUS
  <2> HIDE DEF R
  <2>2. \A k \in 1..Len(U) : U[k] \in Seq(R)
    BY <1>1, <2>1
  <2> QED
    BY <1>1, <2>2
<1> HIDE DEF R
<1>4. /\ Parsing!FlattenSeq(U) \in Seq(R)
      /\ Parsing!FlattenSeq(Append(U, x)) = Parsing!FlattenSeq(U) \o x
  BY <1>2, <1>3, FlattenType, FlattenAppend
<1>5. IsList(Parsing!FlattenSeq(U))
  BY <1>4, SeqIsList
<1>6. AllLists(Append(U, x))
  <2> DEFINE V == Append(U, x)
  <2>1. /\ IsList(V) /\ Len(V) = Len(U) + 1 /\ \A j \in 1..Len(U) : V[j] = U[j]
        /\ V[Len(U) + 1] = x
    BY Lengthened DEF AllLists
  <2>2. Len(U) \in Nat
    BY DEF AllLists, IsList
  <2> HIDE DEF V
  <2>3. \A k \in 1..Len(V) : k \in 1..Len(U) \/ k = Len(U) + 1
    BY <2>1, <2>2
  <2>4. AllLists(V)
    BY <2>1, <2>3 DEF AllLists
  <2> QED
    BY <2>4 DEF V
<1>7. Len(Parsing!FlattenSeq(U) \o x) = Len(Parsing!FlattenSeq(U)) + Len(x)
  BY <1>5, Joined
<1> QED
  BY <1>4, <1>5, <1>6, <1>7

IsFronts(front, U) ==
  /\ front[0] = <<>>
  /\ \A k \in 1..Len(U) : front[k] = front[k - 1] \o U[k]
  /\ front[Len(U)] = Parsing!FlattenSeq(U)
  /\ \A k \in 0..Len(U) :
        /\ Begins(front[k], Parsing!FlattenSeq(U))
        /\ IsList(front[k]) /\ Len(front[k]) \in Nat
  /\ \A k \in 1..Len(U) : Len(front[k]) = Len(front[k - 1]) + Len(U[k])
  /\ IsList(Parsing!FlattenSeq(U)) /\ Len(Parsing!FlattenSeq(U)) \in Nat

LEMMA Fronts ==
  ASSUME NEW U, AllLists(U)
  PROVE  \E front : IsFronts(front, U)
<1> DEFINE n == Len(U)
           front == [k \in 0..n |-> Parsing!FlattenSeq(SubSeq(U, 1, k))]
<1>1. n \in Nat /\ IsList(U)
  BY DEF AllLists, IsList
<1>2. ASSUME NEW k \in 0..n
      PROVE  AllLists(SubSeq(U, 1, k)) /\ Len(SubSeq(U, 1, k)) = k
             /\ IsList(front[k]) /\ Len(front[k]) \in Nat
  <2> DEFINE V == SubSeq(U, 1, k)
  <2>1. Begins(V, U) /\ Len(V) = k
    BY <1>1, FirstBegins
  <2>0. front[k] = Parsing!FlattenSeq(V)
    OBVIOUS
  <2> HIDE DEF V, front
  <2>2. AllLists(V)
    <3>1. \A j \in 1..Len(V) : j \in 1..Len(U)
      BY <1>1, <2>1
    <3> QED
      BY <2>1, <3>1 DEF AllLists, Begins
  <2>3. IsList(Parsing!FlattenSeq(V))
    <3>1. IsList(<<>>)
      BY DEF IsList
    <3> QED
      BY <2>2, <3>1, FlattenOne
  <2> QED
    BY <2>0, <2>1, <2>2, <2>3 DEF V, IsList
<1>3. ASSUME NEW k \in 1..n
      PROVE  front[k] = front[k - 1] \o U[k]
             /\ Len(front[k]) = Len(front[k - 1]) + Len(U[k])
  <2> DEFINE V == SubSeq(U, 1, k - 1)  W == SubSeq(U, 1, k)  X == Append(V, U[k])
  <2>1. k - 1 \in 0..n /\ k \in 0..n
    BY <1>1
  <2>0. front[k] = Parsing!FlattenSeq(W) /\ front[k - 1] = Parsing!FlattenSeq(V)
    BY <2>1
  <2>2. /\ AllLists(V) /\ Len(V) = k - 1
        /\ AllLists(W) /\ Len(W) = k
    BY <1>2, <2>1
  <2>3. /\ \A j \in 1..Len(V) : V[j] = U[j]
        /\ \A j \in 1..Len(W) : W[j] = U[j]
    BY <1>1, <2>1, FirstBegins DEF Begins
  <2> HIDE DEF V, W, front
  <2>4. /\ IsList(X) /\ Len(X) = Len(V) + 1 /\ \A j \in 1..Len(V) : X[j] = V[j]
        /\ X[Len(V) + 1] = U[k]
    BY <2>2, Lengthened DEF AllLists
  <2>5. IsList(W)
    BY <2>2 DEF AllLists
  <2> HIDE DEF X
  <2>6. Len(X) = Len(W) /\ \A j \in 1..Len(X) : X[j] = W[j]
    <3>1. Len(X) = k /\ Len(V) + 1 = k
      BY <1>1, <2>2, <2>4
    <3>2. ASSUME NEW j \in 1..Len(X) PROVE X[j] = W[j]
      <4>1. CASE j = k
        BY <2>2, <2>3, <2>4, <3>1, <4>1
      <4>2. CASE j # k
        <5>1. j \in 1..Len(V) /\ j \in 1..Len(W)
          BY <1>1, <2>2, <3>1, <4>2
        <5> QED
          BY <2>3, <2>4, <5>1
      <4> QED
        BY <4>1, <4>2
    <3> QED
      BY <2>2, <3>1, <3>2
  <2>7. X = W
    BY <2>4, <2>5, <2>6, Same
  <2>8. IsList(U[k])
    BY DEF AllLists
  <2>9. Parsing!FlattenSeq(X) = Parsing!FlattenSeq(V) \o U[k]
        /\ Len(Parsing!FlattenSeq(X)) = Len(Parsing!FlattenSeq(V)) + Len(U[k])
    BY <2>2, <2>8, FlattenOne DEF X
  <2> QED
    BY <2>0, <2>7, <2>9
<1>4. front[0] = <<>>
  <2>1. SubSeq(U, 1, 0) = <<>>
    BY SubSeqEmpty
  <2>2. front[0] = Parsing!FlattenSeq(SubSeq(U, 1, 0))
    BY <1>1
  <2> QED
    BY <2>1, <2>2, FlattenEmpty
<1>5. front[n] = Parsing!FlattenSeq(U)
  <2>1. Begins(SubSeq(U, 1, n), U) /\ Len(SubSeq(U, 1, n)) = n
    BY <1>1, FirstBegins
  <2>2. SubSeq(U, 1, n) = U
    BY <1>1, <2>1, Same DEF Begins
  <2>3. front[n] = Parsing!FlattenSeq(SubSeq(U, 1, n))
    BY <1>1
  <2> QED
    BY <2>2, <2>3
<1> HIDE DEF front
<1> DEFINE T == {i \in Nat : i <= n => Begins(front[n - i], front[n])}
<1>6. 0 \in T
  <2>1. n - 0 = n /\ n \in 0..n
    BY <1>1
  <2> QED
    BY <1>2, <2>1, BeginsSelf
<1>7. ASSUME NEW i \in Nat, i \in T PROVE i + 1 \in T
  <2> SUFFICES ASSUME i + 1 <= n PROVE Begins(front[n - (i + 1)], front[n])
    OBVIOUS
  <2> DEFINE k == n - i
  <2>1. k \in 1..n /\ k - 1 \in 0..n /\ n - (i + 1) = k - 1 /\ i <= n
    BY <1>1
  <2>2. Begins(front[k], front[n])
    BY <1>7, <2>1
  <2> HIDE DEF k
  <2>3. front[k] = front[k - 1] \o U[k] /\ IsList(U[k]) /\ IsList(front[k - 1])
    BY <1>2, <1>3, <2>1 DEF AllLists
  <2>4. Begins(front[k - 1], front[k])
    BY <2>3, BeginsJoin
  <2> QED
    BY <2>1, <2>2, <2>4, BeginsTwice
<1>8. \A k \in 0..n : Begins(front[k], front[n])
  <2> HIDE DEF T
  <2>1. Nat \subseteq T
    BY <1>6, <1>7, Induct
  <2>2. ASSUME NEW k \in 0..n PROVE Begins(front[k], front[n])
    <3> DEFINE i == n - k
    <3>1. i \in Nat /\ i <= n /\ n - i = k
      BY <1>1
    <3> HIDE DEF i
    <3>2. i \in T
      BY <2>1, <3>1
    <3> QED
      BY <3>1, <3>2 DEF T
  <2> QED
    BY <2>2
<1>9. IsList(front[n]) /\ Len(front[n]) \in Nat
  BY <1>1, <1>2
<1>10. IsFronts(front, U)
  BY <1>2, <1>3, <1>4, <1>5, <1>8, <1>9 DEF IsFronts
<1> QED
  BY <1>10

(***************************************************************************)
(* Where each of some lists is in the list of them all.                    *)
(***************************************************************************)
IsOffsets(off, U) ==
  /\ off[0] = 0 /\ off[Len(U)] = Len(Parsing!FlattenSeq(U))
  /\ \A k \in 0..Len(U) : off[k] \in Nat /\ off[k] <= Len(Parsing!FlattenSeq(U))
  /\ \A k \in 1..Len(U) : /\ off[k] = off[k - 1] + Len(U[k])
                          /\ \A j \in 1..Len(U[k]) :
                               Parsing!FlattenSeq(U)[off[k - 1] + j] = U[k][j]

LEMMA OffsetsExist ==
  ASSUME NEW U, AllLists(U)
  PROVE  /\ \E off : IsOffsets(off, U)
         /\ IsList(Parsing!FlattenSeq(U))
<1> DEFINE n == Len(U)  flat == Parsing!FlattenSeq(U)
<1>1. PICK front : IsFronts(front, U)
  BY Fronts
<1>2. n \in Nat
  BY DEF AllLists, IsList
<1> DEFINE off == [k \in 0..n |-> Len(front[k])]
<1>3. \A k \in 0..n : off[k] = Len(front[k])
  OBVIOUS
<1> HIDE DEF off
<1>4. /\ \A k \in 0..n : Begins(front[k], flat) /\ IsList(front[k]) /\ Len(front[k]) \in Nat
      /\ \A k \in 1..n : front[k] = front[k - 1] \o U[k]
      /\ \A k \in 1..n : Len(front[k]) = Len(front[k - 1]) + Len(U[k])
      /\ front[0] = <<>> /\ front[n] = flat
  BY <1>1 DEF IsFronts
<1>5. off[0] = 0 /\ off[n] = Len(flat)
  <2>1. Len(front[0]) = 0
    BY <1>4
  <2> QED
    BY <1>2, <1>3, <1>4, <2>1
<1>6. ASSUME NEW k \in 0..n
      PROVE  off[k] \in Nat /\ off[k] <= Len(flat)
  BY <1>3, <1>4 DEF Begins
<1>7. ASSUME NEW k \in 1..n
      PROVE  /\ off[k] = off[k - 1] + Len(U[k])
             /\ \A j \in 1..Len(U[k]) : flat[off[k - 1] + j] = U[k][j]
  <2>1. k \in 0..n /\ k - 1 \in 0..n
    BY <1>2
  <2>2. off[k] = off[k - 1] + Len(U[k])
    BY <1>3, <1>4, <2>1
  <2>3. IsList(front[k - 1]) /\ IsList(U[k])
    BY <1>4, <2>1 DEF AllLists
  <2> DEFINE a == front[k - 1]  b == U[k]
  <2>5. front[k] = a \o b
    BY <1>4
  <2>6. Begins(front[k], flat) /\ Len(front[k]) = Len(a) + Len(b)
    BY <1>4, <2>1
  <2>7. off[k - 1] = Len(a)
    BY <1>3, <2>1
  <2>8. Len(a) \in Nat /\ Len(b) \in Nat
    BY <2>3 DEF IsList
  <2> HIDE DEF a, b, flat
  <2>4. \A j \in 1..Len(b) : (a \o b)[Len(a) + j] = b[j]
    BY <2>3, Joined
  <2>9. ASSUME NEW j \in 1..Len(b) PROVE flat[Len(a) + j] = b[j]
    <3>1. Len(a) + j \in 1..Len(front[k])
      BY <2>6, <2>8
    <3>2. flat[Len(a) + j] = front[k][Len(a) + j]
      BY <2>6, <3>1 DEF Begins
    <3>3. (a \o b)[Len(a) + j] = b[j]
      BY <2>4
    <3> QED
      BY <2>5, <3>2, <3>3
  <2> QED
    BY <2>2, <2>7, <2>9 DEF b
<1>8. IsOffsets(off, U)
  BY <1>5, <1>6, <1>7 DEF IsOffsets
<1> QED
  BY <1>1, <1>8 DEF IsFronts

(* Lists that all have three members, or five.                             *)
LEMMA Tiles ==
  ASSUME NEW U, AllLists(U), NEW g \in {3, 5}, \A k \in 1..Len(U) : Len(U[k]) = g
  PROVE  /\ IsList(Parsing!FlattenSeq(U))
         /\ Len(Parsing!FlattenSeq(U)) = g * Len(U)
         /\ \A k \in 1..Len(U), j \in 1..g :
              Parsing!FlattenSeq(U)[g * (k - 1) + j] = U[k][j]
<1> DEFINE n == Len(U)  flat == Parsing!FlattenSeq(U)
<1>1. PICK off : IsOffsets(off, U)
  BY OffsetsExist
<1>2. n \in Nat
  BY DEF AllLists, IsList
<1> DEFINE T == {k \in Nat : k <= n => off[k] = g * k}
<1>3. 0 \in T
  BY <1>1 DEF IsOffsets
<1>4. ASSUME NEW k \in Nat, k \in T PROVE k + 1 \in T
  <2> SUFFICES ASSUME k + 1 <= n PROVE off[k + 1] = g * (k + 1)
    OBVIOUS
  <2>1. PICK i : i = k + 1
    OBVIOUS
  <2>2. i \in 1..n /\ i - 1 = k /\ k <= n
    BY <1>2, <2>1
  <2>3. off[i] = off[i - 1] + Len(U[i]) /\ Len(U[i]) = g
    BY <1>1, <2>2 DEF IsOffsets
  <2>4. off[k] = g * k
    BY <1>4, <2>2
  <2> QED
    BY <2>1, <2>2, <2>3, <2>4
<1>5. \A k \in 0..n : off[k] = g * k
  <2> HIDE DEF T
  <2>1. Nat \subseteq T
    BY <1>3, <1>4, Induct
  <2> QED
    BY <2>1 DEF T
<1>6. Len(flat) = g * n
  BY <1>1, <1>2, <1>5 DEF IsOffsets
<1>7. ASSUME NEW k \in 1..n, NEW j \in 1..g PROVE flat[g * (k - 1) + j] = U[k][j]
  <2>1. k - 1 \in 0..n /\ j \in 1..Len(U[k])
    BY <1>2
  <2>2. flat[off[k - 1] + j] = U[k][j]
    BY <1>1, <2>1 DEF IsOffsets
  <2> QED
    BY <1>5, <2>1, <2>2
<1> QED
  BY <1>6, <1>7, OffsetsExist

IsJoin(c, a, b) ==
  /\ IsList(c) /\ Len(c) = Len(a) + Len(b)
  /\ \A j \in 1..Len(a) : c[j] = a[j]
  /\ \A j \in 1..Len(b) : c[Len(a) + j] = b[j]

LEMMA Joins ==
  ASSUME NEW a, IsList(a), NEW b, IsList(b)
  PROVE  IsJoin(a \o b, a, b)
BY Joined DEF IsJoin

(***************************************************************************)
(* The fields of a block.                                                  *)
(***************************************************************************)
Fit == {n \in Nat : Parsing!Fits(n)}

IsShape(s) ==
  /\ s.txs \in Nat /\ s.ins \in Nat /\ s.outs \in Nat
  /\ s.len \in Nat \ {2} /\ s.form \in {1, 3, 5, 9} /\ s.cut \in Nat
  /\ s.txs \in Fit /\ s.ins \in Fit /\ s.outs \in Fit /\ s.len \in Fit

LEMMA FieldIs ==
  ASSUME NEW name, NEW i, NEW w \in Nat
  PROVE  IsList(Parsing!Field(name, i, w)) /\ Len(Parsing!Field(name, i, w)) = w
BY DEF IsList, Parsing!Field

LEMMA HeaderIs ==
  /\ IsList(Parsing!Header) /\ Len(Parsing!Header) = 6
  /\ Parsing!Header[1] = Parsing!Field("version", 0, 4)
  /\ Parsing!Header[2] = Parsing!Field("hashPreviousBlock", 0, 32)
  /\ Parsing!Header[3] = Parsing!Field("hashMerkleRoot", 0, 32)
  /\ Parsing!Header[4] = Parsing!Field("time", 0, 4)
  /\ Parsing!Header[5] = Parsing!Field("bits", 0, 4)
  /\ Parsing!Header[6] = Parsing!Field("nonce", 0, 4)
BY DEF IsList, Parsing!Header

InputIs(u, i, s) ==
  /\ u[1] = Parsing!Field("hash", i, 32) /\ u[2] = Parsing!Field("index", i, 4)
  /\ u[3] = Parsing!Num(s.len) /\ u[4] = Parsing!Field("sig", i, s.len)
  /\ u[5] = Parsing!Field("seq", i, 4)

OutputIs(u, i, s) ==
  /\ u[1] = Parsing!Field("value", i, 8) /\ u[2] = Parsing!Num(s.len)
  /\ u[3] = Parsing!Field("script", i, s.len)

LEMMA InputsAre ==
  ASSUME NEW s, NEW i
  PROVE  /\ IsList(Parsing!Input(i, s)) /\ Len(Parsing!Input(i, s)) = 5
         /\ InputIs(Parsing!Input(i, s), i, s)
         /\ IsList(Parsing!Output(i, s)) /\ Len(Parsing!Output(i, s)) = 3
         /\ OutputIs(Parsing!Output(i, s), i, s)
BY DEF IsList, Parsing!Input, Parsing!Output, InputIs, OutputIs

Inputs(s) == Parsing!FlattenSeq([i \in 1..s.ins |-> Parsing!Input(i, s)])
Outputs(s) == Parsing!FlattenSeq([i \in 1..s.outs |-> Parsing!Output(i, s)])

LEMMA InputsFlat ==
  ASSUME NEW s, IsShape(s)
  PROVE  /\ IsList(Inputs(s)) /\ Len(Inputs(s)) = 5 * s.ins
         /\ \A i \in 1..s.ins, j \in 1..5 :
              Inputs(s)[5 * (i - 1) + j] = Parsing!Input(i, s)[j]
<1> DEFINE U == [i \in 1..s.ins |-> Parsing!Input(i, s)]
<1>1. s.ins \in Nat
  BY DEF IsShape
<1>2. Len(U) = s.ins /\ IsList(U) /\ \A i \in 1..s.ins : U[i] = Parsing!Input(i, s)
  BY <1>1 DEF IsList
<1> HIDE DEF U
<1>3. AllLists(U) /\ \A k \in 1..Len(U) : Len(U[k]) = 5
  BY <1>2, InputsAre DEF AllLists
<1>4. /\ IsList(Parsing!FlattenSeq(U)) /\ Len(Parsing!FlattenSeq(U)) = 5 * Len(U)
      /\ \A k \in 1..Len(U), j \in 1..5 :
           Parsing!FlattenSeq(U)[5 * (k - 1) + j] = U[k][j]
  BY <1>3, Tiles
<1>5. Inputs(s) = Parsing!FlattenSeq(U)
  BY DEF Inputs, U
<1> QED
  BY <1>2, <1>4, <1>5

LEMMA OutputsFlat ==
  ASSUME NEW s, IsShape(s)
  PROVE  /\ IsList(Outputs(s)) /\ Len(Outputs(s)) = 3 * s.outs
         /\ \A i \in 1..s.outs, j \in 1..3 :
              Outputs(s)[3 * (i - 1) + j] = Parsing!Output(i, s)[j]
<1> DEFINE U == [i \in 1..s.outs |-> Parsing!Output(i, s)]
<1>1. s.outs \in Nat
  BY DEF IsShape
<1>2. Len(U) = s.outs /\ IsList(U) /\ \A i \in 1..s.outs : U[i] = Parsing!Output(i, s)
  BY <1>1 DEF IsList
<1> HIDE DEF U
<1>3. AllLists(U) /\ \A k \in 1..Len(U) : Len(U[k]) = 3
  BY <1>2, InputsAre DEF AllLists
<1>4. /\ IsList(Parsing!FlattenSeq(U)) /\ Len(Parsing!FlattenSeq(U)) = 3 * Len(U)
      /\ \A k \in 1..Len(U), j \in 1..3 :
           Parsing!FlattenSeq(U)[3 * (k - 1) + j] = U[k][j]
  BY <1>3, Tiles
<1>5. Outputs(s) = Parsing!FlattenSeq(U)
  BY DEF Outputs, U
<1> QED
  BY <1>2, <1>4, <1>5

(* A field by its number: 7 of the block, 3 of the transaction, 5 of each  *)
(* input and 3 of each output.                                             *)
FirstFields(f, s) ==
  /\ f[1] = Parsing!Field("version", 0, 4)
  /\ f[2] = Parsing!Field("hashPreviousBlock", 0, 32)
  /\ f[3] = Parsing!Field("hashMerkleRoot", 0, 32)
  /\ f[4] = Parsing!Field("time", 0, 4)
  /\ f[5] = Parsing!Field("bits", 0, 4)
  /\ f[6] = Parsing!Field("nonce", 0, 4)
  /\ f[7] = Parsing!Num(s.txs)
InputAt(p, f, i, s) ==
  /\ f[p + 1] = Parsing!Field("hash", i, 32) /\ f[p + 2] = Parsing!Field("index", i, 4)
  /\ f[p + 3] = Parsing!Num(s.len) /\ f[p + 4] = Parsing!Field("sig", i, s.len)
  /\ f[p + 5] = Parsing!Field("seq", i, 4)
OutputAt(p, f, i, s) ==
  /\ f[p + 1] = Parsing!Field("value", i, 8) /\ f[p + 2] = Parsing!Num(s.len)
  /\ f[p + 3] = Parsing!Field("script", i, s.len)

LEMMA FieldsAre ==
  ASSUME NEW s, IsShape(s)
  PROVE  LET f == Parsing!Fields(s) IN
         /\ IsList(f) /\ Len(f) = 10 + 5 * s.ins + 3 * s.outs
         /\ FirstFields(f, s)
         /\ f[8] = Parsing!Field("txVersion", 0, 4) /\ f[9] = Parsing!Num(s.ins)
         /\ \A i \in 1..s.ins : InputAt(9 + 5 * (i - 1), f, i, s)
         /\ f[10 + 5 * s.ins] = Parsing!Num(s.outs)
         /\ \A i \in 1..s.outs : OutputAt(10 + 5 * s.ins + 3 * (i - 1), f, i, s)
<1> DEFINE h == Parsing!Header
           x == <<Parsing!Num(s.txs)>>
           y == <<Parsing!Field("txVersion", 0, 4), Parsing!Num(s.ins)>>
           z == <<Parsing!Num(s.outs)>>
           u == Inputs(s)  v == Outputs(s)
           a == h \o x  b == a \o y  c == b \o u  d == c \o z  f == d \o v
<1>0. f = Parsing!Fields(s)
  BY DEF Parsing!Fields, Inputs, Outputs
<1>1. /\ IsList(x) /\ Len(x) = 1 /\ x[1] = Parsing!Num(s.txs)
      /\ IsList(y) /\ Len(y) = 2 /\ y[1] = Parsing!Field("txVersion", 0, 4)
      /\ y[2] = Parsing!Num(s.ins)
      /\ IsList(z) /\ Len(z) = 1 /\ z[1] = Parsing!Num(s.outs)
  BY DEF IsList
<1>2. IsList(h) /\ Len(h) = 6
  BY HeaderIs
<1>3. /\ IsList(u) /\ Len(u) = 5 * s.ins
      /\ \A i \in 1..s.ins, j \in 1..5 : u[5 * (i - 1) + j] = Parsing!Input(i, s)[j]
  BY InputsFlat
<1>4. /\ IsList(v) /\ Len(v) = 3 * s.outs
      /\ \A i \in 1..s.outs, j \in 1..3 : v[3 * (i - 1) + j] = Parsing!Output(i, s)[j]
  BY OutputsFlat
<1>5. s.ins \in Nat /\ s.outs \in Nat
  BY DEF IsShape
<1> HIDE DEF h, x, y, z, u, v
<1>6. IsJoin(a, h, x)
  BY <1>1, <1>2, Joins
<1>7. IsJoin(b, a, y)
  <2>1. IsList(a)
    BY <1>6 DEF IsJoin
  <2> HIDE DEF a
  <2> QED
    BY <1>1, <2>1, Joins
<1>8. IsJoin(c, b, u)
  <2>1. IsList(b)
    BY <1>7 DEF IsJoin
  <2> HIDE DEF b
  <2> QED
    BY <1>3, <2>1, Joins
<1>9. IsJoin(d, c, z)
  <2>1. IsList(c)
    BY <1>8 DEF IsJoin
  <2> HIDE DEF c
  <2> QED
    BY <1>1, <2>1, Joins
<1>10. IsJoin(f, d, v)
  <2>1. IsList(d)
    BY <1>9 DEF IsJoin
  <2> HIDE DEF d
  <2> QED
    BY <1>4, <2>1, Joins
<1> HIDE DEF a, b, c, d, f
<1>11. /\ Len(a) = 7 /\ Len(b) = 9 /\ Len(c) = 9 + 5 * s.ins
       /\ Len(d) = 10 + 5 * s.ins /\ Len(f) = 10 + 5 * s.ins + 3 * s.outs
  <2>1. Len(a) = Len(h) + Len(x) /\ Len(b) = Len(a) + Len(y)
    BY <1>6, <1>7 DEF IsJoin
  <2>2. Len(c) = Len(b) + Len(u) /\ Len(d) = Len(c) + Len(z) /\ Len(f) = Len(d) + Len(v)
    BY <1>8, <1>9, <1>10 DEF IsJoin
  <2> DEFINE m == 5 * s.ins  k == 3 * s.outs
  <2>3. m \in Nat /\ k \in Nat /\ Len(u) = m /\ Len(v) = k
    BY <1>3, <1>4, <1>5
  <2> HIDE DEF m, k
  <2>4. /\ Len(a) = 7 /\ Len(b) = 9 /\ Len(c) = 9 + m
        /\ Len(d) = 10 + m /\ Len(f) = 10 + m + k
    BY <1>1, <1>2, <2>1, <2>2, <2>3
  <2> QED
    BY <2>4 DEF m, k
<1>12. \A j \in 1..9 : f[j] = b[j]
  <2>1. \A j \in 1..9 : j \in 1..Len(b) /\ j \in 1..Len(c) /\ j \in 1..Len(d)
    <3> DEFINE m == 5 * s.ins
    <3>1. m \in Nat /\ Len(c) = 9 + m /\ Len(d) = 10 + m
      <4>1. m \in Nat
        BY <1>5
      <4>2. Len(c) = 9 + m /\ Len(d) = 10 + m
        BY <1>11
      <4> QED
        BY <4>1, <4>2
    <3> HIDE DEF m
    <3> QED
      BY <1>11, <3>1
  <2>2. \A j \in 1..Len(b) : c[j] = b[j]
    BY <1>8 DEF IsJoin
  <2>3. \A j \in 1..Len(c) : d[j] = c[j]
    BY <1>9 DEF IsJoin
  <2>4. \A j \in 1..Len(d) : f[j] = d[j]
    BY <1>10 DEF IsJoin
  <2> QED
    BY <2>1, <2>2, <2>3, <2>4
<1>13. \A j \in 1..7 : b[j] = a[j]
  BY <1>7, <1>11 DEF IsJoin
<1>14. \A j \in 1..6 : a[j] = h[j]
  BY <1>2, <1>6 DEF IsJoin
<1>15. a[7] = x[1]
  BY <1>1, <1>2, <1>6 DEF IsJoin
<1>16. b[8] = y[1] /\ b[9] = y[2]
  BY <1>1, <1>7, <1>11 DEF IsJoin
<1>17. FirstFields(f, s)
  <2>1. \A j \in 1..6 : f[j] = h[j]
    BY <1>12, <1>13, <1>14
  <2>2. f[7] = x[1]
    BY <1>12, <1>13, <1>15
  <2> QED
    BY <1>1, <2>1, <2>2, HeaderIs DEF FirstFields, h
<1>18. f[8] = y[1] /\ f[9] = y[2]
  BY <1>12, <1>16
<1>19. \A j \in 1..5 * s.ins : f[9 + j] = u[j]
  <2> DEFINE m == 5 * s.ins
  <2>1. m \in Nat /\ Len(c) = 9 + m /\ Len(u) = m /\ Len(d) = 10 + m
    <3>1. m \in Nat
      BY <1>5
    <3>2. Len(c) = 9 + m /\ Len(u) = m /\ Len(d) = 10 + m
      BY <1>3, <1>11
    <3> QED
      BY <3>1, <3>2
  <2> HIDE DEF m
  <2>2. ASSUME NEW j \in 1..m PROVE f[9 + j] = u[j]
    <3>1. c[9 + j] = u[j]
      BY <1>8, <1>11, <2>1 DEF IsJoin
    <3>2. 9 + j \in 1..Len(c) /\ 9 + j \in 1..Len(d)
      BY <2>1
    <3> QED
      BY <1>9, <1>10, <3>1, <3>2 DEF IsJoin
  <2> QED
    BY <2>2 DEF m
<1>20. ASSUME NEW i \in 1..s.ins PROVE InputAt(9 + 5 * (i - 1), f, i, s)
  <2> DEFINE e == Parsing!Input(i, s)
  <2>1. ASSUME NEW j \in 1..5 PROVE f[9 + 5 * (i - 1) + j] = e[j]
    <3>1. 5 * (i - 1) + j \in 1..5 * s.ins
      BY <1>5
    <3>2. u[5 * (i - 1) + j] = e[j]
      BY <1>3
    <3>3. 9 + (5 * (i - 1) + j) = 9 + 5 * (i - 1) + j
      BY <1>5
    <3> HIDE DEF e
    <3> QED
      BY <1>19, <3>1, <3>2, <3>3
  <2>2. InputIs(e, i, s)
    BY InputsAre
  <2> HIDE DEF e
  <2> QED
    BY <2>1, <2>2 DEF InputAt, InputIs
<1>21. f[10 + 5 * s.ins] = z[1]
  <2> DEFINE m == 5 * s.ins
  <2>1. m \in Nat /\ Len(c) = 9 + m /\ Len(d) = 10 + m
    <3>1. m \in Nat
      BY <1>5
    <3>2. Len(c) = 9 + m /\ Len(d) = 10 + m
      BY <1>11
    <3> QED
      BY <3>1, <3>2
  <2> HIDE DEF m
  <2>2. d[9 + m + 1] = z[1]
    BY <1>1, <1>9, <2>1 DEF IsJoin
  <2>3. 9 + m + 1 = 10 + m /\ 10 + m \in 1..Len(d)
    BY <2>1
  <2>4. f[10 + m] = z[1]
    BY <1>10, <2>2, <2>3 DEF IsJoin
  <2> QED
    BY <2>4 DEF m
<1>22. ASSUME NEW i \in 1..s.outs PROVE OutputAt(10 + 5 * s.ins + 3 * (i - 1), f, i, s)
  <2> DEFINE e == Parsing!Output(i, s)  m == 10 + 5 * s.ins
  <2>1. ASSUME NEW j \in 1..3 PROVE f[m + 3 * (i - 1) + j] = e[j]
    <3>1. 3 * (i - 1) + j \in 1..Len(v)
      BY <1>4, <1>5
    <3>2. v[3 * (i - 1) + j] = e[j]
      BY <1>4
    <3>3. m + (3 * (i - 1) + j) = m + 3 * (i - 1) + j
      BY <1>5
    <3>4. Len(d) = m
      BY <1>11
    <3> HIDE DEF e, m
    <3> QED
      BY <1>10, <3>1, <3>2, <3>3, <3>4 DEF IsJoin
  <2>2. OutputIs(e, i, s)
    BY InputsAre
  <2> HIDE DEF e, m
  <2>3. OutputAt(m + 3 * (i - 1), f, i, s)
    BY <2>1, <2>2 DEF OutputAt, OutputIs
  <2> QED
    BY <2>3 DEF m
<1>23. IsList(f)
  BY <1>10 DEF IsJoin
<1> QED
  BY <1>0, <1>1, <1>11, <1>17, <1>18, <1>20, <1>21, <1>22, <1>23

(***************************************************************************)
(* The bytes of a field.                                                   *)
(***************************************************************************)
Encoding(f, form) ==
  IF Parsing!IsNumber(f) THEN Parsing!VarInt(f[2], Parsing!FormOf(f[2], form)) ELSE f

LEMMA BaseIs == Base \in Nat /\ Base > 3
BY ParsingAssumption

LEMMA ValueOfNum ==
  ASSUME NEW n
  PROVE  Parsing!Value(Parsing!Num(n)) = n
BY DEF Parsing!Value, Parsing!Num

(* What is left of a number when its lowest bytes are shed, one by one.    *)
Sheds(r, n) ==
  /\ r[0] = n
  /\ \A k \in 1..8 : r[k] = r[k - 1] \div Base
  /\ \A k \in 0..8 : r[k] \in Nat
  /\ \A k \in 1..8 : r[k - 1] % Base \in Nat
                       /\ r[k - 1] = Base * r[k] + (r[k - 1] % Base)

LEMMA Divided ==
  ASSUME NEW n \in Nat
  PROVE  /\ n \div Base \in Nat /\ n % Base \in Nat
         /\ n = Base * (n \div Base) + (n % Base)
         /\ n < Base => n \div Base = 0
<1>1. Base \in Nat /\ Base > 0
  BY BaseIs
<1> QED
  BY <1>1

LEMMA ShedsExist ==
  ASSUME NEW n \in Nat
  PROVE  \E r : Sheds(r, n)
<1> DEFINE Up(f, i) == /\ f[0] = n /\ \A k \in 1..i : f[k] = f[k - 1] \div Base
                       /\ \A k \in 0..i : f[k] \in Nat
           T == {i \in Nat : \E f : Up(f, i)}
<1>1. 0 \in T
  <2> DEFINE g == [k \in 0..0 |-> n]
  <2>1. g[0] = n /\ (\A k \in 0..0 : k = 0) /\ \A k \in 1..0 : FALSE
    OBVIOUS
  <2> HIDE DEF g
  <2>2. Up(g, 0)
    BY <2>1
  <2> HIDE DEF Up
  <2> QED
    BY <2>2
<1>2. ASSUME NEW i \in Nat, i \in T PROVE i + 1 \in T
  <2>1. PICK f : Up(f, i)
    BY <1>2
  <2> DEFINE top == f[i] \div Base
             g == [k \in 0..i + 1 |-> IF k = i + 1 THEN top ELSE f[k]]
  <2>2. i \in 0..i /\ f[i] \in Nat
    BY <2>1
  <2>3. top \in Nat
    BY <2>2, Divided
  <2>4. \A k \in 0..i : k \in 0..i + 1 /\ k # i + 1
    OBVIOUS
  <2>5. \A k \in 0..i : g[k] = f[k]
    BY <2>4
  <2>6. g[i + 1] = top
    OBVIOUS
  <2>7. top = g[i] \div Base
    BY <2>2, <2>5
  <2> HIDE DEF g, top
  <2>8. g[0] = n /\ \A k \in 0..i + 1 : g[k] \in Nat
    <3>1. 0 \in 0..i
      OBVIOUS
    <3>2. ASSUME NEW k \in 0..i + 1 PROVE g[k] \in Nat
      <4>1. k \in 0..i \/ k = i + 1
        OBVIOUS
      <4> QED
        BY <2>1, <2>3, <2>5, <2>6, <4>1
    <3> QED
      BY <2>1, <2>5, <3>1, <3>2
  <2>9. ASSUME NEW k \in 1..i + 1 PROVE g[k] = g[k - 1] \div Base
    <3>1. CASE k = i + 1
      <4>1. k - 1 = i
        BY <3>1
      <4> QED
        BY <2>6, <2>7, <3>1, <4>1
    <3>2. CASE k # i + 1
      <4>1. k \in 1..i /\ k \in 0..i /\ k - 1 \in 0..i
        BY <3>2
      <4> QED
        BY <2>1, <2>5, <4>1
    <3> QED
      BY <3>1, <3>2
  <2>10. Up(g, i + 1)
    BY <2>8, <2>9
  <2> HIDE DEF Up
  <2>11. i + 1 \in Nat /\ \E a : Up(a, i + 1)
    BY <2>10
  <2> QED
    BY <2>11
<1>3. 8 \in T
  <2> HIDE DEF T
  <2>1. Nat \subseteq T
    BY <1>1, <1>2, Induct
  <2> QED
    BY <2>1
<1>4. PICK r : Up(r, 8)
  BY <1>3
<1>5. ASSUME NEW k \in 1..8
      PROVE  r[k - 1] % Base \in Nat /\ r[k - 1] = Base * r[k] + (r[k - 1] % Base)
  <2> DEFINE m == r[k - 1]
  <2>1. k - 1 \in 0..8
    OBVIOUS
  <2>2. m \in Nat /\ r[k] = m \div Base
    BY <1>4, <2>1
  <2> HIDE DEF m
  <2>3. m % Base \in Nat /\ m = Base * r[k] + (m % Base)
    BY <2>2, Divided
  <2> QED
    BY <2>3 DEF m
<1>6. Sheds(r, n)
  BY <1>4, <1>5 DEF Sheds
<1> QED
  BY <1>6

(* The bytes of a number, each with what is left above it.                 *)
Digits(e, n, w) ==
  \E r : /\ r[0] = n /\ r[w] = 0
         /\ \A k \in 0..w : r[k] \in Nat
         /\ \A k \in 1..w : /\ Parsing!Value(e[k + 1]) \in Nat
                             /\ r[k - 1] = Base * r[k] + Parsing!Value(e[k + 1])

IsVarInt(e, n) ==
  /\ IsList(e)
  /\ \/ Len(e) = 1 /\ n < Base - 3 /\ Parsing!Value(e[1]) = n
     \/ Len(e) = 3 /\ Parsing!Value(e[1]) = Base - 3 /\ Digits(e, n, 2)
     \/ Len(e) = 5 /\ Parsing!Value(e[1]) = Base - 2 /\ Digits(e, n, 4)
     \/ Len(e) = 9 /\ Parsing!Value(e[1]) = Base - 1 /\ Digits(e, n, 8)

(* The bytes that the writer puts after the mark.                          *)
LowBytes(b, r, w) ==
  /\ IsList(b) /\ Len(b) = w
  /\ \A k \in 1..w : b[k] = Parsing!Num(r[k - 1] % Base)

Twin(b, x, y) == IsList(b) /\ Len(b) = 2 /\ b[1] = x /\ b[2] = y
Quad(b, x, y, z, t) ==
  IsList(b) /\ Len(b) = 4 /\ b[1] = x /\ b[2] = y /\ b[3] = z /\ b[4] = t

LEMMA Twins ==
  ASSUME NEW a, NEW b, NEW x, NEW y, NEW z, NEW t, Twin(a, x, y), Twin(b, z, t)
  PROVE  Quad(a \o b, x, y, z, t)
<1> DEFINE c == a \o b
<1>1. /\ IsList(a) /\ Len(a) = 2 /\ a[1] = x /\ a[2] = y
      /\ IsList(b) /\ Len(b) = 2 /\ b[1] = z /\ b[2] = t
  BY DEF Twin
<1>2. IsJoin(c, a, b)
  BY <1>1, Joins
<1> HIDE DEF c
<1>3. IsList(c) /\ Len(c) = 4 /\ c[1] = a[1] /\ c[2] = a[2]
  BY <1>1, <1>2 DEF IsJoin
<1>4. c[3] = b[1] /\ c[4] = b[2]
  <2>1. 1 \in 1..2 /\ 2 \in 1..2 /\ 2 + 1 = 3 /\ 2 + 2 = 4
    OBVIOUS
  <2>2. \A j \in 1..2 : c[2 + j] = b[j]
    BY <1>1, <1>2 DEF IsJoin
  <2> QED
    BY <2>1, <2>2
<1> QED
  BY <1>1, <1>3, <1>4 DEF Quad, c

LEMMA LowAre ==
  ASSUME NEW n \in Nat, NEW r, Sheds(r, n)
  PROVE  /\ LowBytes(Parsing!Low2(n), r, 2) /\ LowBytes(Parsing!Low4(n), r, 4)
         /\ LowBytes(Parsing!Low8(n), r, 8)
         /\ Parsing!Above2(n) = r[2] /\ Parsing!Above4(n) = r[4] /\ Parsing!Above8(n) = r[8]
<1>1. /\ r[0] = n /\ r[1] = r[0] \div Base /\ r[2] = r[1] \div Base
      /\ r[3] = r[2] \div Base /\ r[4] = r[3] \div Base /\ r[5] = r[4] \div Base
      /\ r[6] = r[5] \div Base /\ r[7] = r[6] \div Base /\ r[8] = r[7] \div Base
  <2>1. \A k \in 1..8 : r[k] = r[k - 1] \div Base
    BY DEF Sheds
  <2>2. /\ 1 \in 1..8 /\ 2 \in 1..8 /\ 3 \in 1..8 /\ 4 \in 1..8 /\ 5 \in 1..8
        /\ 6 \in 1..8 /\ 7 \in 1..8 /\ 8 \in 1..8
        /\ 1 - 1 = 0 /\ 2 - 1 = 1 /\ 3 - 1 = 2 /\ 4 - 1 = 3 /\ 5 - 1 = 4
        /\ 6 - 1 = 5 /\ 7 - 1 = 6 /\ 8 - 1 = 7
    OBVIOUS
  <2>3. r[0] = n
    BY DEF Sheds
  <2> QED
    BY <2>1, <2>2, <2>3
<1>2. \A m : Parsing!Above2(m) = (m \div Base) \div Base
  BY DEF Parsing!Above2
<1>3. \A m : Parsing!Above4(m) = Parsing!Above2(Parsing!Above2(m))
  BY DEF Parsing!Above4
<1>4. Parsing!Above2(r[0]) = r[2] /\ Parsing!Above2(r[2]) = r[4]
      /\ Parsing!Above2(r[4]) = r[6] /\ Parsing!Above2(r[6]) = r[8]
  BY <1>1, <1>2, Zenon
<1>5. Parsing!Above4(r[0]) = r[4] /\ Parsing!Above4(r[4]) = r[8]
  BY <1>3, <1>4, Zenon
<1>6. Parsing!Above8(r[0]) = r[8]
  BY <1>5, Zenon DEF Parsing!Above8
<1> DEFINE d(k) == Parsing!Num(r[k] % Base)
<1>7. ASSUME NEW k \in 0..6, r[k + 1] = r[k] \div Base
      PROVE  LET b == Parsing!Low2(r[k]) IN
             IsList(b) /\ Len(b) = 2 /\ b[1] = d(k) /\ b[2] = d(k + 1)
  <2> DEFINE b == Parsing!Low2(r[k])
  <2>1. b = <<d(k), d(k + 1)>>
    BY <1>7 DEF Parsing!Low2
  <2> HIDE DEF b, d
  <2>2. IsList(b) /\ Len(b) = 2 /\ b[1] = d(k) /\ b[2] = d(k + 1)
    BY <2>1 DEF IsList
  <2> QED
    BY <2>2 DEF b
<1> HIDE DEF d
<1>8. /\ Twin(Parsing!Low2(r[0]), d(0), d(1)) /\ Twin(Parsing!Low2(r[2]), d(2), d(3))
      /\ Twin(Parsing!Low2(r[4]), d(4), d(5)) /\ Twin(Parsing!Low2(r[6]), d(6), d(7))
  <2>1. /\ 0 \in 0..6 /\ 2 \in 0..6 /\ 4 \in 0..6 /\ 6 \in 0..6
        /\ 0 + 1 = 1 /\ 2 + 1 = 3 /\ 4 + 1 = 5 /\ 6 + 1 = 7
    OBVIOUS
  <2>2. \A k \in 0..6 : r[k + 1] = r[k] \div Base =>
           Twin(Parsing!Low2(r[k]), d(k), d(k + 1))
    BY <1>7 DEF Twin
  <2> QED
    BY <1>1, <2>1, <2>2
<1>9. Quad(Parsing!Low4(r[0]), d(0), d(1), d(2), d(3))
      /\ Quad(Parsing!Low4(r[4]), d(4), d(5), d(6), d(7))
  <2>1. \A m : Parsing!Low4(m) = Parsing!Low2(m) \o Parsing!Low2(Parsing!Above2(m))
    BY DEF Parsing!Low4
  <2>2. /\ Parsing!Low4(r[0]) = Parsing!Low2(r[0]) \o Parsing!Low2(r[2])
        /\ Parsing!Low4(r[4]) = Parsing!Low2(r[4]) \o Parsing!Low2(r[6])
    BY <1>4, <2>1, Zenon
  <2> QED
    BY <1>8, <2>2, Twins, Zenon
<1>10. Parsing!Low8(r[0]) = Parsing!Low4(r[0]) \o Parsing!Low4(r[4])
  BY <1>5, Zenon DEF Parsing!Low8
<1>11. LowBytes(Parsing!Low2(n), r, 2)
  <2> DEFINE b == Parsing!Low2(n)
  <2>1. IsList(b) /\ Len(b) = 2 /\ b[1] = d(0) /\ b[2] = d(1)
    BY <1>1, <1>8, Zenon DEF Twin
  <2> HIDE DEF b
  <2>2. ASSUME NEW k \in 1..2 PROVE b[k] = d(k - 1)
    <3>1. (k = 1 /\ k - 1 = 0) \/ (k = 2 /\ k - 1 = 1)
      OBVIOUS
    <3> QED
      BY <2>1, <3>1
  <2> QED
    BY <2>1, <2>2 DEF LowBytes, b, d
<1>12. LowBytes(Parsing!Low4(n), r, 4)
  <2> DEFINE b == Parsing!Low4(n)
  <2>1. IsList(b) /\ Len(b) = 4 /\ b[1] = d(0) /\ b[2] = d(1) /\ b[3] = d(2) /\ b[4] = d(3)
    BY <1>1, <1>9, Zenon DEF Quad
  <2> HIDE DEF b
  <2>2. ASSUME NEW k \in 1..4 PROVE b[k] = d(k - 1)
    <3>1. \/ (k = 1 /\ k - 1 = 0) \/ (k = 2 /\ k - 1 = 1)
          \/ (k = 3 /\ k - 1 = 2) \/ (k = 4 /\ k - 1 = 3)
      OBVIOUS
    <3> QED
      BY <2>1, <3>1
  <2> QED
    BY <2>1, <2>2 DEF LowBytes, b, d
<1>13. LowBytes(Parsing!Low8(n), r, 8)
  <2> DEFINE b == Parsing!Low8(n)  x == Parsing!Low4(r[0])  y == Parsing!Low4(r[4])
  <2>1. b = x \o y
    BY <1>1, <1>10
  <2>2. /\ IsList(x) /\ Len(x) = 4 /\ x[1] = d(0) /\ x[2] = d(1) /\ x[3] = d(2) /\ x[4] = d(3)
        /\ IsList(y) /\ Len(y) = 4 /\ y[1] = d(4) /\ y[2] = d(5) /\ y[3] = d(6) /\ y[4] = d(7)
    BY <1>9, Zenon DEF Quad
  <2> HIDE DEF b, x, y
  <2>3. IsJoin(b, x, y)
    BY <2>1, <2>2, Joins
  <2>4. IsList(b) /\ Len(b) = 8
    BY <2>2, <2>3 DEF IsJoin
  <2>5. \A k \in 1..4 : b[k] = x[k] /\ b[4 + k] = y[k]
    BY <2>2, <2>3 DEF IsJoin
  <2>6. ASSUME NEW k \in 1..8 PROVE b[k] = d(k - 1)
    <3>1. /\ 1 \in 1..4 /\ 2 \in 1..4 /\ 3 \in 1..4 /\ 4 \in 1..4
          /\ 4 + 1 = 5 /\ 4 + 2 = 6 /\ 4 + 3 = 7 /\ 4 + 4 = 8
      OBVIOUS
    <3>2. /\ b[1] = d(0) /\ b[2] = d(1) /\ b[3] = d(2) /\ b[4] = d(3)
          /\ b[5] = d(4) /\ b[6] = d(5) /\ b[7] = d(6) /\ b[8] = d(7)
      BY <2>2, <2>5, <3>1
    <3>3. \/ (k = 1 /\ k - 1 = 0) \/ (k = 2 /\ k - 1 = 1)
          \/ (k = 3 /\ k - 1 = 2) \/ (k = 4 /\ k - 1 = 3)
          \/ (k = 5 /\ k - 1 = 4) \/ (k = 6 /\ k - 1 = 5)
          \/ (k = 7 /\ k - 1 = 6) \/ (k = 8 /\ k - 1 = 7)
      OBVIOUS
    <3> QED
      BY <3>2, <3>3
  <2> QED
    BY <2>4, <2>6 DEF LowBytes, b, d
<1> QED
  BY <1>1, <1>4, <1>5, <1>6, <1>11, <1>12, <1>13

(* A mark, then the low bytes of a number that leave nothing above them.   *)
Marked(e, mark, n, w) ==
  IsList(e) /\ Len(e) = w + 1 /\ Parsing!Value(e[1]) = mark /\ Digits(e, n, w)

LEMMA MarkedDigits ==
  ASSUME NEW n \in Nat, NEW r, Sheds(r, n), NEW w \in {2, 4, 8}, r[w] = 0,
         NEW mark, NEW b, LowBytes(b, r, w)
  PROVE  Marked(<<Parsing!Num(mark)>> \o b, mark, n, w)
<1> DEFINE a == <<Parsing!Num(mark)>>  e == a \o b
<1>1. IsList(a) /\ Len(a) = 1 /\ a[1] = Parsing!Num(mark)
  BY DEF IsList
<1>2. e = a \o b /\ IsList(b) /\ Len(b) = w
  BY DEF LowBytes
<1> HIDE DEF a, e
<1>3. IsJoin(e, a, b)
  BY <1>1, <1>2, Joins
<1>4. IsList(e) /\ Len(e) = w + 1 /\ e[1] = a[1]
  BY <1>1, <1>2, <1>3 DEF IsJoin
<1>5. \A k \in 1..w : e[k + 1] = b[k]
  <2>1. \A k \in 1..Len(b) : e[Len(a) + k] = b[k]
    BY <1>3 DEF IsJoin
  <2>2. \A k \in 1..w : Len(a) + k = k + 1
    BY <1>1
  <2> QED
    BY <1>2, <2>1, <2>2
<1>6. Parsing!Value(e[1]) = mark
  BY <1>1, <1>4, ValueOfNum
<1>7. ASSUME NEW k \in 1..w
      PROVE  /\ Parsing!Value(e[k + 1]) \in Nat
             /\ r[k - 1] = Base * r[k] + Parsing!Value(e[k + 1])
  <2>1. k \in 1..8
    OBVIOUS
  <2>2. r[k - 1] % Base \in Nat /\ r[k - 1] = Base * r[k] + (r[k - 1] % Base)
    BY <2>1 DEF Sheds
  <2>3. e[k + 1] = Parsing!Num(r[k - 1] % Base)
    BY <1>5 DEF LowBytes
  <2>4. Parsing!Value(e[k + 1]) = r[k - 1] % Base
    BY <2>3, ValueOfNum
  <2> QED
    BY <2>2, <2>4
<1>8. r[0] = n /\ \A k \in 0..w : r[k] \in Nat
  <2>1. \A k \in 0..w : k \in 0..8
    OBVIOUS
  <2> QED
    BY <2>1 DEF Sheds
<1>9. Digits(e, n, w)
  BY <1>7, <1>8 DEF Digits
<1> QED
  BY <1>4, <1>6, <1>9 DEF Marked, a, e

(* The form that a number is written in holds it.                          *)
LEMMA FormHolds ==
  ASSUME NEW n \in Fit, NEW r, Sheds(r, n), NEW form \in {1, 3, 5, 9},
         NEW a, a = Parsing!FormOf(n, form)
  PROVE  /\ a \in {1, 3, 5, 9} /\ r[8] = 0 /\ (a = 1 => n < Base - 3)
         /\ (a = 3 => r[2] = 0) /\ (a = 5 => r[4] = 0)
<1> DEFINE m == Parsing!Shortest(n)
<1>1. n \in Nat /\ Parsing!Above8(n) = 0 /\ Base \in Nat /\ Base > 3
  BY BaseIs DEF Fit, Parsing!Fits
<1>2. Parsing!Above2(n) = r[2] /\ Parsing!Above4(n) = r[4] /\ Parsing!Above8(n) = r[8]
  BY <1>1, LowAre
<1>3. /\ m \in {1, 3, 5, 9} /\ (m = 1 => n < Base - 3)
      /\ (m = 3 => r[2] = 0) /\ (m = 5 => r[4] = 0)
  BY <1>1, <1>2 DEF Parsing!Shortest, Parsing!Mark3
<1>4. 0 \div Base = 0
  <2>1. 0 \in Nat /\ 0 < Base
    BY <1>1
  <2> QED
    BY <2>1, Divided
<1>5. /\ r[1] = r[0] \div Base /\ r[2] = r[1] \div Base /\ r[3] = r[2] \div Base
      /\ r[4] = r[3] \div Base /\ r[0] = n
  <2>1. /\ 1 \in 1..8 /\ 2 \in 1..8 /\ 3 \in 1..8 /\ 4 \in 1..8
        /\ 1 - 1 = 0 /\ 2 - 1 = 1 /\ 3 - 1 = 2 /\ 4 - 1 = 3
    OBVIOUS
  <2>2. r[0] = n /\ \A k \in 1..8 : r[k] = r[k - 1] \div Base
    BY DEF Sheds
  <2> QED
    BY <2>1, <2>2
<1>6. r[2] = 0 => r[4] = 0
  BY <1>4, <1>5
<1>7. n < Base - 3 => r[2] = 0
  <2> SUFFICES ASSUME n < Base - 3 PROVE r[2] = 0
    OBVIOUS
  <2>1. n < Base
    BY <1>1
  <2>2. n \div Base = 0
    BY <1>1, <2>1, Divided
  <2> QED
    BY <1>4, <1>5, <2>2
<1> HIDE DEF m
<1>8. a = IF m > form THEN m ELSE form
  BY DEF Parsing!FormOf, m
<1>9. (a = m \/ a = form) /\ a >= m
  BY <1>3, <1>8
<1>10. a \in {1, 3, 5, 9} /\ (a = 1 => n < Base - 3)
  BY <1>3, <1>9
<1>11. a = 3 => r[2] = 0
  BY <1>3, <1>7, <1>9
<1>12. a = 5 => r[4] = 0
  BY <1>3, <1>6, <1>7, <1>9
<1> QED
  BY <1>1, <1>2, <1>10, <1>11, <1>12

LEMMA NumberEncoded ==
  ASSUME NEW n \in Fit, NEW form \in {1, 3, 5, 9}
  PROVE  IsVarInt(Encoding(Parsing!Num(n), form), n)
<1> DEFINE a == Parsing!FormOf(n, form)  e == Parsing!VarInt(n, a)
<1>0. n \in Nat
  BY DEF Fit
<1>1. Encoding(Parsing!Num(n), form) = e
  BY DEF Encoding, Parsing!IsNumber, Parsing!Num
<1>2. PICK r : Sheds(r, n)
  BY <1>0, ShedsExist
<1>3. /\ a \in {1, 3, 5, 9} /\ r[8] = 0 /\ (a = 1 => n < Base - 3)
      /\ (a = 3 => r[2] = 0) /\ (a = 5 => r[4] = 0)
  BY <1>2, FormHolds
<1>4. /\ LowBytes(Parsing!Low2(n), r, 2) /\ LowBytes(Parsing!Low4(n), r, 4)
      /\ LowBytes(Parsing!Low8(n), r, 8)
  BY <1>0, <1>2, LowAre
<1> HIDE DEF a
<1>5. CASE a = 1
  <2>1. e = <<Parsing!Num(n)>>
    BY <1>5 DEF Parsing!VarInt
  <2> HIDE DEF e
  <2>2. IsList(e) /\ Len(e) = 1 /\ e[1] = Parsing!Num(n)
    BY <2>1 DEF IsList
  <2>3. Parsing!Value(e[1]) = n
    BY <2>2, ValueOfNum
  <2> QED
    BY <1>1, <1>3, <1>5, <2>2, <2>3 DEF IsVarInt
<1>6. CASE a = 3
  <2>1. e = <<Parsing!Num(Base - 3)>> \o Parsing!Low2(n)
    BY <1>6 DEF Parsing!VarInt, Parsing!Mark3
  <2>2. r[2] = 0 /\ 2 \in {2, 4, 8} /\ 2 + 1 = 3
    BY <1>3, <1>6
  <2> HIDE DEF e
  <2>3. Marked(e, Base - 3, n, 2)
    BY <1>0, <1>2, <1>4, <2>1, <2>2, MarkedDigits, Zenon
  <2> QED
    BY <1>1, <2>2, <2>3 DEF IsVarInt, Marked
<1>7. CASE a = 5
  <2>1. e = <<Parsing!Num(Base - 2)>> \o Parsing!Low4(n)
    BY <1>7 DEF Parsing!VarInt, Parsing!Mark5
  <2>2. r[4] = 0 /\ 4 \in {2, 4, 8} /\ 4 + 1 = 5
    BY <1>3, <1>7
  <2> HIDE DEF e
  <2>3. Marked(e, Base - 2, n, 4)
    BY <1>0, <1>2, <1>4, <2>1, <2>2, MarkedDigits, Zenon
  <2> QED
    BY <1>1, <2>2, <2>3 DEF IsVarInt, Marked
<1>8. CASE a = 9
  <2>1. e = <<Parsing!Num(Base - 1)>> \o Parsing!Low8(n)
    BY <1>8 DEF Parsing!VarInt, Parsing!Mark9
  <2>2. r[8] = 0 /\ 8 \in {2, 4, 8} /\ 8 + 1 = 9
    BY <1>3, <1>8
  <2> HIDE DEF e
  <2>3. Marked(e, Base - 1, n, 8)
    BY <1>0, <1>2, <1>4, <2>1, <2>2, MarkedDigits, Zenon
  <2> QED
    BY <1>1, <2>2, <2>3 DEF IsVarInt, Marked
<1> QED
  BY <1>3, <1>5, <1>6, <1>7, <1>8

LEMMA FieldEncoded ==
  ASSUME NEW name, NEW i, NEW w \in Nat, w # 2, NEW form
  PROVE  Encoding(Parsing!Field(name, i, w), form) = Parsing!Field(name, i, w)
BY FieldIs DEF Encoding, Parsing!IsNumber

(***************************************************************************)
(* Reading, at a place where the bytes of a field are as far as they came. *)
(***************************************************************************)
Here(o, e) ==
  /\ IsList(e)
  /\ \A j \in 1..Len(e) : o + j <= Len(buffer) => buffer[o + j] = e[j]

LEMMA BytesHere ==
  ASSUME NEW o \in Nat, Len(buffer) \in Nat, NEW e, Here(o, e),
         NEW w, w = Len(e), o + w <= Len(buffer)
  PROVE  Parsing!Bytes(o + 1, w) = e
<1>1. Len(e) \in Nat /\ e = [j \in 1..Len(e) |-> e[j]]
  BY DEF Here, IsList
<1>2. ASSUME NEW j \in 1..Len(e) PROVE Parsing!At((o + 1) + j - 1) = e[j]
  <2>1. (o + 1) + j - 1 = o + j /\ o + j <= Len(buffer)
    BY <1>1
  <2>2. buffer[o + j] = e[j]
    BY <2>1 DEF Here
  <2> QED
    BY <2>1, <2>2 DEF Parsing!At
<1>3. Parsing!Bytes(o + 1, w) = [j \in 1..Len(e) |-> Parsing!At((o + 1) + j - 1)]
  BY DEF Parsing!Bytes
<1> QED
  BY <1>1, <1>2, <1>3

NumberAt(o, e, n) ==
  /\ Parsing!VarIntWidth(o + 1) \in Nat /\ Parsing!VarIntAt(o + 1) \in Nat
  /\ IF o + Len(e) <= Len(buffer)
     THEN Parsing!VarIntWidth(o + 1) = Len(e) /\ Parsing!VarIntAt(o + 1) = n
     ELSE o + Parsing!VarIntWidth(o + 1) > Len(buffer)

(* The digits of swap64, from the highest to the lowest.                   *)
HexValues(f, b) ==
  f = [k \in 0..8 |-> IF k = 0 THEN 0 ELSE Base * f[k - 1] + Parsing!Value(b[k])]

LEMMA HexExists ==
  ASSUME NEW b
  PROVE  \E f : HexValues(f, b)
<1> DEFINE Up(f, i) == f = [k \in 0..i |-> IF k = 0 THEN 0
                                  ELSE Base * f[k - 1] + Parsing!Value(b[k])]
           T == {i \in Nat : \E f : Up(f, i)}
<1>1. 0 \in T
  <2> DEFINE g == [k \in 0..0 |-> 0]
  <2>1. \A k \in 0..0 : k = 0
    OBVIOUS
  <2>2. g = [k \in 0..0 |-> IF k = 0 THEN 0
                                  ELSE Base * g[k - 1] + Parsing!Value(b[k])]
    BY <2>1
  <2> HIDE DEF g
  <2>3. Up(g, 0)
    BY <2>2
  <2> HIDE DEF Up
  <2> QED
    BY <2>3
<1>2. ASSUME NEW i \in Nat, i \in T PROVE i + 1 \in T
  <2> DEFINE D(x, k) == Base * x + Parsing!Value(b[k])
  <2>1. PICK f : Up(f, i)
    BY <1>2
  <2> DEFINE g == [k \in 0..i + 1 |-> IF k = 0 THEN 0 ELSE D(f[k - 1], k)]
  <2>2. f = [k \in 0..i |-> IF k = 0 THEN 0 ELSE D(f[k - 1], k)]
    BY <2>1
  <2> HIDE DEF D
  <2>3. \A k \in 0..i : f[k] = IF k = 0 THEN 0 ELSE D(f[k - 1], k)
    BY <2>2
  <2>4. \A k \in 0..i : g[k] = f[k]
    BY <2>3
  <2>5. \A k \in 0..i + 1 : k # 0 => k - 1 \in 0..i
    OBVIOUS
  <2>6. g = [k \in 0..i + 1 |-> IF k = 0 THEN 0 ELSE D(g[k - 1], k)]
    BY <2>4, <2>5
  <2> HIDE DEF g
  <2>7. Up(g, i + 1)
    BY <2>6 DEF D
  <2> HIDE DEF Up
  <2>8. i + 1 \in Nat /\ \E a : Up(a, i + 1)
    BY <2>7
  <2> QED
    BY <2>8
<1>3. 8 \in T
  <2> HIDE DEF T
  <2>1. Nat \subseteq T
    BY <1>1, <1>2, Induct
  <2> QED
    BY <2>1
<1> QED
  BY <1>3 DEF HexValues

LEMMA HexSteps ==
  ASSUME NEW b
  PROVE  \E f : /\ Parsing!FromHex(b) = f[8] /\ f[0] = 0
                /\ \A k \in 1..8 : f[k] = Base * f[k - 1] + Parsing!Value(b[k])
<1> DEFINE value == CHOOSE value : value =
              [k \in 0..8 |-> IF k = 0 THEN 0
                              ELSE Base * value[k - 1] + Parsing!Value(b[k])]
<1>1. Parsing!FromHex(b) = value[8]
  BY DEF Parsing!FromHex
<1>2. \E f : f = [k \in 0..8 |-> IF k = 0 THEN 0
                                 ELSE Base * f[k - 1] + Parsing!Value(b[k])]
  BY HexExists, Zenon DEF HexValues
<1>3. HexValues(value, b)
  BY <1>2, Zenon DEF HexValues
<1> HIDE DEF value
<1> DEFINE D(x, k) == Base * x + Parsing!Value(b[k])
<1>4. value = [k \in 0..8 |-> IF k = 0 THEN 0 ELSE D(value[k - 1], k)]
  BY <1>3 DEF HexValues
<1> HIDE DEF D
<1>5. value[0] = 0 /\ \A k \in 1..8 : value[k] = D(value[k - 1], k)
  BY <1>4
<1> QED
  BY <1>1, <1>5 DEF D

LEMMA HexIs ==
  ASSUME NEW b, NEW n \in Nat,
         \A k \in 1..8 : Parsing!Value(b[k]) \in Nat
  PROVE  /\ Parsing!FromHex(b) \in Nat
         /\ \A r : (/\ r[0] = n /\ r[8] = 0
                    /\ \A k \in 1..8 : r[k - 1] = Base * r[k] + Parsing!Value(b[9 - k]))
                   => Parsing!FromHex(b) = n
<1> DEFINE D(x, k) == Base * x + Parsing!Value(b[k])
<1>1. PICK f : /\ Parsing!FromHex(b) = f[8] /\ f[0] = 0
               /\ \A k \in 1..8 : f[k] = D(f[k - 1], k)
  BY HexSteps
<1>2. ASSUME NEW x \in Nat, NEW k \in 1..8 PROVE D(x, k) \in Nat
  <2> DEFINE v == Parsing!Value(b[k])  y == Base * x
  <2>1. v \in Nat /\ y \in Nat
    BY BaseIs
  <2> HIDE DEF v, y
  <2>2. y + v \in Nat
    BY <2>1
  <2> QED
    BY <2>2 DEF y, v
<1> HIDE DEF D
<1>3. /\ 1 \in 1..8 /\ 2 \in 1..8 /\ 3 \in 1..8 /\ 4 \in 1..8
      /\ 5 \in 1..8 /\ 6 \in 1..8 /\ 7 \in 1..8 /\ 8 \in 1..8
      /\ 1 - 1 = 0 /\ 2 - 1 = 1 /\ 3 - 1 = 2 /\ 4 - 1 = 3
      /\ 5 - 1 = 4 /\ 6 - 1 = 5 /\ 7 - 1 = 6 /\ 8 - 1 = 7
      /\ 9 - 1 = 8 /\ 9 - 2 = 7 /\ 9 - 3 = 6 /\ 9 - 4 = 5
      /\ 9 - 5 = 4 /\ 9 - 6 = 3 /\ 9 - 7 = 2 /\ 9 - 8 = 1
  OBVIOUS
<1>4. /\ f[1] = D(f[0], 1) /\ f[2] = D(f[1], 2) /\ f[3] = D(f[2], 3)
      /\ f[4] = D(f[3], 4) /\ f[5] = D(f[4], 5) /\ f[6] = D(f[5], 6)
      /\ f[7] = D(f[6], 7) /\ f[8] = D(f[7], 8)
  BY <1>1, <1>3
<1>5. f[8] \in Nat
  <2>1. f[0] \in Nat
    BY <1>1
  <2>2. f[1] \in Nat
    BY <1>2, <1>3, <1>4, <2>1
  <2>3. f[2] \in Nat
    BY <1>2, <1>3, <1>4, <2>2
  <2>4. f[3] \in Nat
    BY <1>2, <1>3, <1>4, <2>3
  <2>5. f[4] \in Nat
    BY <1>2, <1>3, <1>4, <2>4
  <2>6. f[5] \in Nat
    BY <1>2, <1>3, <1>4, <2>5
  <2>7. f[6] \in Nat
    BY <1>2, <1>3, <1>4, <2>6
  <2>8. f[7] \in Nat
    BY <1>2, <1>3, <1>4, <2>7
  <2> QED
    BY <1>2, <1>3, <1>4, <2>8
<1>6. ASSUME NEW r, r[0] = n, r[8] = 0,
             \A k \in 1..8 : r[k - 1] = Base * r[k] + Parsing!Value(b[9 - k])
      PROVE  f[8] = n
  <2>1. \A k \in 1..8 : r[k - 1] = D(r[k], 9 - k)
    BY <1>6 DEF D
  <2>2. /\ r[7] = D(r[8], 1) /\ r[6] = D(r[7], 2) /\ r[5] = D(r[6], 3)
        /\ r[4] = D(r[5], 4) /\ r[3] = D(r[4], 5) /\ r[2] = D(r[3], 6)
        /\ r[1] = D(r[2], 7) /\ r[0] = D(r[1], 8)
    BY <1>3, <2>1
  <2>7. r[8] = f[0]
    BY <1>1, <1>6
  <2>3. r[7] = f[1] /\ r[6] = f[2]
    BY <1>4, <2>2, <2>7, Zenon
  <2>4. r[5] = f[3] /\ r[4] = f[4]
    BY <1>4, <2>2, <2>3, Zenon
  <2>5. r[3] = f[5] /\ r[2] = f[6]
    BY <1>4, <2>2, <2>4, Zenon
  <2>6. r[1] = f[7] /\ r[0] = f[8]
    BY <1>4, <2>2, <2>5, Zenon
  <2> QED
    BY <1>6, <2>6
<1> QED
  BY <1>1, <1>5, <1>6

(* The value of a byte of what is here; zero where nothing came.           *)
Byte(p) == Parsing!Value(Parsing!At(p))
Came(o, e, w) == \A k \in 1..w : Byte((o + 1) + k) = Parsing!Value(e[k + 1])

LEMMA ByteHere ==
  ASSUME NEW o \in Nat, Len(buffer) \in Nat, NEW e, Here(o, e), NEW k \in 1..Len(e)
  PROVE  Byte(o + k) = IF o + k <= Len(buffer) THEN Parsing!Value(e[k]) ELSE 0
<1>1. CASE o + k <= Len(buffer)
  <2>1. buffer[o + k] = e[k]
    BY <1>1 DEF Here
  <2> QED
    BY <1>1, <2>1 DEF Byte, Parsing!At
<1>2. CASE ~(o + k <= Len(buffer))
  <2>1. Parsing!At(o + k) = Parsing!Num(0)
    BY <1>2 DEF Parsing!At
  <2> QED
    BY <1>2, <2>1, ValueOfNum DEF Byte
<1> QED
  BY <1>1, <1>2

(* The bytes after the mark are numbers, and the ones written if whole.    *)
LEMMA BytesAre ==
  ASSUME NEW o \in Nat, Len(buffer) \in Nat, NEW e, Here(o, e), NEW w \in {2, 4, 8},
         Len(e) = w + 1, \A k \in 1..w : Parsing!Value(e[k + 1]) \in Nat
  PROVE  /\ \A k \in 1..w : Byte((o + 1) + k) \in Nat
         /\ o + Len(e) <= Len(buffer) => Came(o, e, w)
<1>1. ASSUME NEW k \in 1..w
      PROVE  Byte((o + 1) + k) = IF o + (k + 1) <= Len(buffer)
                                 THEN Parsing!Value(e[k + 1]) ELSE 0
  <2>1. PICK j \in 1..Len(e) : j = k + 1
    OBVIOUS
  <2>2. Byte(o + j) = IF o + j <= Len(buffer) THEN Parsing!Value(e[j]) ELSE 0
    BY ByteHere
  <2>3. (o + 1) + k = o + j
    BY <2>1
  <2> QED
    BY <2>1, <2>2, <2>3
<1>2. ASSUME NEW k \in 1..w PROVE Byte((o + 1) + k) \in Nat
  <2> DEFINE x == Parsing!Value(e[k + 1])
  <2>1. x \in Nat /\ Byte((o + 1) + k) = IF o + (k + 1) <= Len(buffer) THEN x ELSE 0
    BY <1>1
  <2> HIDE DEF x
  <2> QED
    BY <2>1
<1>3. ASSUME o + Len(e) <= Len(buffer), NEW k \in 1..w
      PROVE  Byte((o + 1) + k) = Parsing!Value(e[k + 1])
  <2>1. o + (k + 1) <= Len(buffer)
    BY <1>3
  <2> QED
    BY <1>1, <2>1
<1> QED
  BY <1>2, <1>3 DEF Came

(* The three decodings give numbers, and the number that was written.      *)
LEMMA ShiftIs ==
  ASSUME NEW o \in Nat, NEW e, NEW n \in Nat, Digits(e, n, 2),
         \A k \in 1..2 : Byte((o + 1) + k) \in Nat
  PROVE  /\ Parsing!Shift((o + 1) + 1) \in Nat
         /\ Came(o, e, 2) => Parsing!Shift((o + 1) + 1) = n
<1> DEFINE x == Byte((o + 1) + 1)  y == Byte((o + 1) + 2)  v == Parsing!Shift((o + 1) + 1)
<1>1. 1 \in 1..2 /\ 2 \in 1..2 /\ ((o + 1) + 1) + 1 = (o + 1) + 2
  OBVIOUS
<1>2. v = x + Base * y
  BY <1>1 DEF Parsing!Shift, Byte
<1>3. x \in Nat /\ y \in Nat
  BY <1>1
<1> DEFINE t == Base * y
<1>4. t \in Nat
  BY <1>3, BaseIs
<1>5. ASSUME Came(o, e, 2) PROVE n = t + x
  <2>1. PICK r : /\ r[0] = n /\ r[2] = 0
                 /\ \A k \in 1..2 : r[k - 1] = Base * r[k] + Parsing!Value(e[k + 1])
    BY DEF Digits
  <2>2. x = Parsing!Value(e[2]) /\ y = Parsing!Value(e[3])
    <3>1. 1 + 1 = 2 /\ 2 + 1 = 3
      OBVIOUS
    <3> QED
      BY <1>1, <1>5, <3>1 DEF Came
  <2> HIDE DEF x, y
  <2>3. r[0] = Base * r[1] + x /\ r[1] = Base * r[2] + y
    <3>1. 1 - 1 = 0 /\ 2 - 1 = 1 /\ 1 + 1 = 2 /\ 2 + 1 = 3
      OBVIOUS
    <3> QED
      BY <1>1, <2>1, <2>2, <3>1
  <2>4. Base * r[2] = 0
    BY <2>1, BaseIs
  <2>5. r[1] = y
    BY <1>3, <2>3, <2>4
  <2> QED
    BY <2>1, <2>3, <2>5
<1> HIDE DEF x, v, t
<1> QED
  BY <1>2, <1>3, <1>4, <1>5 DEF v, t

LEMMA ReadUInt32LEIs ==
  ASSUME NEW o \in Nat, NEW e, NEW n \in Nat, Digits(e, n, 4),
         \A k \in 1..4 : Byte((o + 1) + k) \in Nat
  PROVE  LET v == Parsing!ReadUInt32LE(Parsing!Bytes((o + 1) + 1, 4)) IN
         v \in Nat /\ (Came(o, e, 4) => v = n)
<1> DEFINE b == Parsing!Bytes((o + 1) + 1, 4)  v == Parsing!ReadUInt32LE(b)
           x(k) == Byte((o + 1) + k)
<1>1. /\ 1 \in 1..4 /\ 2 \in 1..4 /\ 3 \in 1..4 /\ 4 \in 1..4
      /\ 1 - 1 = 0 /\ 2 - 1 = 1 /\ 3 - 1 = 2 /\ 4 - 1 = 3
  OBVIOUS
<1>2. \A k \in 1..4 : Parsing!Value(b[k]) = x(k)
  <2>1. \A k \in 1..4 : ((o + 1) + 1) + k - 1 = (o + 1) + k
    OBVIOUS
  <2>2. \A k \in 1..4 : b[k] = Parsing!At(((o + 1) + 1) + k - 1)
    BY DEF Parsing!Bytes
  <2> HIDE DEF b
  <2> QED
    BY <2>1, <2>2 DEF Byte
<1>3. v = x(1) + Base * (x(2) + Base * (x(3) + Base * x(4)))
  <2>1. v = Parsing!Value(b[1]) + Base * (Parsing!Value(b[2])
              + Base * (Parsing!Value(b[3]) + Base * Parsing!Value(b[4])))
    BY DEF Parsing!ReadUInt32LE
  <2> HIDE DEF b, x
  <2> QED
    BY <1>1, <1>2, <2>1
<1>4. \A k \in 1..4 : x(k) \in Nat
  OBVIOUS
<1> DEFINE t3 == Base * x(4)  u3 == x(3) + t3  t2 == Base * u3  u2 == x(2) + t2
           t1 == Base * u2
<1> HIDE DEF x, b
<1>5. t3 \in Nat /\ u3 \in Nat
  <2>1. t3 \in Nat /\ x(3) \in Nat
    BY <1>1, <1>4, BaseIs
  <2> HIDE DEF t3
  <2> QED
    BY <2>1
<1>6. t2 \in Nat /\ u2 \in Nat
  <2> HIDE DEF u3
  <2>1. t2 \in Nat /\ x(2) \in Nat
    BY <1>1, <1>4, <1>5, BaseIs
  <2> HIDE DEF t2
  <2> QED
    BY <2>1
<1>7. t1 \in Nat /\ x(1) + t1 \in Nat
  <2> HIDE DEF u2
  <2>1. t1 \in Nat /\ x(1) \in Nat
    BY <1>1, <1>4, <1>6, BaseIs
  <2> HIDE DEF t1
  <2> QED
    BY <2>1
<1>8. v = x(1) + t1
  BY <1>3
<1> HIDE DEF v
<1>9. ASSUME Came(o, e, 4) PROVE n = x(1) + t1
  <2>1. PICK r : /\ r[0] = n /\ r[4] = 0
                 /\ \A k \in 1..4 : r[k - 1] = Base * r[k] + Parsing!Value(e[k + 1])
    BY DEF Digits
  <2>2. \A k \in 1..4 : x(k) = Parsing!Value(e[k + 1])
    BY <1>9 DEF Came, x
  <2>3. /\ r[0] = Base * r[1] + x(1) /\ r[1] = Base * r[2] + x(2)
        /\ r[2] = Base * r[3] + x(3) /\ r[3] = Base * r[4] + x(4)
    BY <1>1, <2>1, <2>2
  <2>4. Base * r[4] = 0
    BY <2>1, BaseIs
  <2>5. r[3] = x(4)
    BY <1>1, <1>4, <2>3, <2>4
  <2>6. r[2] = u3
    <3>1. r[2] = t3 + x(3) /\ t3 \in Nat /\ x(3) \in Nat
      BY <1>1, <1>4, <1>5, <2>3, <2>5
    <3> HIDE DEF t3
    <3> QED
      BY <3>1
  <2>7. r[1] = u2
    <3>1. r[1] = t2 + x(2) /\ t2 \in Nat /\ x(2) \in Nat
      BY <1>1, <1>4, <1>6, <2>3, <2>6
    <3> HIDE DEF t2
    <3> QED
      BY <3>1
  <2>8. r[0] = t1 + x(1) /\ t1 \in Nat /\ x(1) \in Nat
    BY <1>1, <1>4, <1>7, <2>3, <2>7
  <2> HIDE DEF t1
  <2> QED
    BY <2>1, <2>8
<1> HIDE DEF t1
<1> QED
  BY <1>7, <1>8, <1>9 DEF v, b

LEMMA FromHexIs ==
  ASSUME NEW o \in Nat, NEW e, NEW n \in Nat, Digits(e, n, 8),
         \A k \in 1..8 : Byte((o + 1) + k) \in Nat
  PROVE  LET v == Parsing!FromHex(Parsing!Swap64(Parsing!Bytes((o + 1) + 1, 8))) IN
         v \in Nat /\ (Came(o, e, 8) => v = n)
<1> DEFINE c == Parsing!Bytes((o + 1) + 1, 8)  b == Parsing!Swap64(c)
           v == Parsing!FromHex(b)
<1>1. \A k \in 1..8 : Parsing!Value(c[k]) = Byte((o + 1) + k)
  <2>1. \A k \in 1..8 : ((o + 1) + 1) + k - 1 = (o + 1) + k
    OBVIOUS
  <2>2. \A k \in 1..8 : c[k] = Parsing!At(((o + 1) + 1) + k - 1)
    BY DEF Parsing!Bytes
  <2> HIDE DEF c
  <2> QED
    BY <2>1, <2>2 DEF Byte
<1> HIDE DEF c
<1>2. \A k \in 1..8 : b[k] = c[9 - k]
  BY DEF Parsing!Swap64
<1> HIDE DEF b
<1>3. \A k \in 1..8 : 9 - k \in 1..8 /\ 9 - (9 - k) = k
  OBVIOUS
<1>4. \A k \in 1..8 : Parsing!Value(b[9 - k]) = Byte((o + 1) + k)
  BY <1>1, <1>2, <1>3
<1>5. \A k \in 1..8 : Parsing!Value(b[k]) \in Nat
  BY <1>1, <1>2, <1>3
<1>6. v \in Nat
  BY <1>5, HexIs
<1>7. ASSUME Came(o, e, 8) PROVE v = n
  <2>1. PICK r : /\ r[0] = n /\ r[8] = 0
                 /\ \A k \in 1..8 : r[k - 1] = Base * r[k] + Parsing!Value(e[k + 1])
    BY DEF Digits
  <2>2. \A k \in 1..8 : Parsing!Value(b[9 - k]) = Parsing!Value(e[k + 1])
    BY <1>4, <1>7 DEF Came
  <2>3. \A k \in 1..8 : r[k - 1] = Base * r[k] + Parsing!Value(b[9 - k])
    BY <2>1, <2>2
  <2> QED
    BY <1>5, <2>1, <2>3, HexIs
<1> HIDE DEF v
<1> QED
  BY <1>6, <1>7 DEF v, b, c

(* A number in a longer form, of w bytes after the mark.                   *)
LEMMA LongHere ==
  ASSUME NEW o \in Nat, Len(buffer) \in Nat, NEW n \in Nat, NEW e, Here(o, e),
         NEW w \in {2, 4, 8}, Len(e) = w + 1, Digits(e, n, w),
         Parsing!VarIntWidth(o + 1) = w + 1
  PROVE  NumberAt(o, e, n)
<1> DEFINE v == Parsing!VarIntAt(o + 1)
<1>1. \A k \in 1..w : Parsing!Value(e[k + 1]) \in Nat
  BY DEF Digits
<1>2. /\ \A k \in 1..w : Byte((o + 1) + k) \in Nat
      /\ o + Len(e) <= Len(buffer) => Came(o, e, w)
  BY <1>1, BytesAre
<1>3. v \in Nat /\ (Came(o, e, w) => v = n)
  <2>1. CASE w = 2
    <3>1. Parsing!VarIntWidth(o + 1) = 3
      BY <2>1
    <3>2. v = Parsing!Shift((o + 1) + 1)
      BY <3>1 DEF Parsing!VarIntAt
    <3> HIDE DEF v
    <3> QED
      BY <1>2, <2>1, <3>2, ShiftIs
  <2>2. CASE w = 4
    <3>1. Parsing!VarIntWidth(o + 1) = 5
      BY <2>2
    <3>2. v = Parsing!ReadUInt32LE(Parsing!Bytes((o + 1) + 1, 4))
      BY <3>1 DEF Parsing!VarIntAt
    <3> HIDE DEF v
    <3> QED
      BY <1>2, <2>2, <3>2, ReadUInt32LEIs
  <2>3. CASE w = 8
    <3>1. Parsing!VarIntWidth(o + 1) = 9
      BY <2>3
    <3>2. v = Parsing!FromHex(Parsing!Swap64(Parsing!Bytes((o + 1) + 1, 8)))
      BY <3>1 DEF Parsing!VarIntAt
    <3> HIDE DEF v
    <3> QED
      BY <1>2, <2>3, <3>2, FromHexIs
  <2> QED
    BY <2>1, <2>2, <2>3
<1> HIDE DEF v
<1>4. o + Len(e) <= Len(buffer) => v = n
  BY <1>2, <1>3
<1>5. ~(o + Len(e) <= Len(buffer)) => o + (w + 1) > Len(buffer)
  OBVIOUS
<1> QED
  BY <1>3, <1>4, <1>5 DEF NumberAt, v

LEMMA NumberHere ==
  ASSUME NEW o \in Nat, Len(buffer) \in Nat, NEW n \in Nat, NEW e, IsVarInt(e, n),
         Here(o, e)
  PROVE  NumberAt(o, e, n)
<1> DEFINE b0 == Byte(o + 1)  w == Parsing!VarIntWidth(o + 1)
<1>1. /\ b0 < Base - 3 => w = 1
      /\ b0 = Base - 3 => w = 3
      /\ b0 = Base - 2 => w = 5
      /\ b0 = Base - 1 => w = 9
  BY BaseIs DEF Parsing!VarIntWidth, Parsing!Mark3, Parsing!Mark5, Byte
<1>2. Len(e) \in {1, 3, 5, 9} /\ 1 \in 1..Len(e)
  BY DEF IsVarInt
<1>3. b0 = IF o + 1 <= Len(buffer) THEN Parsing!Value(e[1]) ELSE 0
  BY <1>2, ByteHere
<1>4. w = 1 => Parsing!VarIntAt(o + 1) = b0
  BY DEF Parsing!VarIntAt, Byte
<1> HIDE DEF b0
<1>5. CASE ~(o + 1 <= Len(buffer))
  <2>1. b0 = 0 /\ w = 1
    BY <1>1, <1>3, <1>5, BaseIs
  <2>2. Parsing!VarIntAt(o + 1) = 0
    BY <1>4, <2>1
  <2> HIDE DEF w
  <2>3. ~(o + Len(e) <= Len(buffer)) /\ o + 1 > Len(buffer)
    BY <1>2, <1>5
  <2> QED
    BY <2>1, <2>2, <2>3 DEF NumberAt, w
<1>6. CASE o + 1 <= Len(buffer)
  <2>1. b0 = Parsing!Value(e[1])
    BY <1>3, <1>6
  <2>2. CASE Len(e) = 1
    <3>1. n < Base - 3 /\ b0 = n
      BY <2>1, <2>2 DEF IsVarInt
    <3>2. w = 1 /\ Parsing!VarIntAt(o + 1) = n
      BY <1>1, <1>4, <3>1
    <3> QED
      BY <1>6, <2>2, <3>2 DEF NumberAt
  <2>3. CASE Len(e) = 3
    <3>1. b0 = Base - 3 /\ Digits(e, n, 2)
      BY <2>1, <2>3 DEF IsVarInt
    <3>2. w = 2 + 1 /\ Len(e) = 2 + 1
      BY <1>1, <2>3, <3>1
    <3> QED
      BY <3>1, <3>2, LongHere
  <2>4. CASE Len(e) = 5
    <3>1. b0 = Base - 2 /\ Digits(e, n, 4)
      BY <2>1, <2>4 DEF IsVarInt
    <3>2. w = 4 + 1 /\ Len(e) = 4 + 1
      BY <1>1, <2>4, <3>1
    <3> QED
      BY <3>1, <3>2, LongHere
  <2>5. CASE Len(e) = 9
    <3>1. b0 = Base - 1 /\ Digits(e, n, 8)
      BY <2>1, <2>5 DEF IsVarInt
    <3>2. w = 8 + 1 /\ Len(e) = 8 + 1
      BY <1>1, <2>5, <3>1
    <3> QED
      BY <3>1, <3>2, LongHere
  <2> QED
    BY <1>2, <2>2, <2>3, <2>4, <2>5
<1> QED
  BY <1>5, <1>6

(***************************************************************************)
(* What a block is written as, and what came of it.                        *)
(***************************************************************************)
Encoded(s) ==
  [k \in 1..Len(Parsing!Fields(s)) |-> Encoding(Parsing!Fields(s)[k], s.form)]
OffsetsOf(s) == CHOOSE off : IsOffsets(off, Encoded(s))
Size(s) == Len(Parsing!Written(s))

EncodedAsIs(s, k) == Encoded(s)[k] = Parsing!Fields(s)[k]
EncodedNumber(s, k, n) ==
  Parsing!Fields(s)[k] = Parsing!Num(n) /\ IsVarInt(Encoded(s)[k], n)

LEMMA EncodingIs ==
  ASSUME NEW s, IsShape(s), NEW k \in 1..Len(Parsing!Fields(s))
  PROVE  /\ \A name, i : \A w \in Nat \ {2} :
              Parsing!Fields(s)[k] = Parsing!Field(name, i, w) =>
                /\ EncodedAsIs(s, k) /\ IsList(Encoded(s)[k]) /\ Len(Encoded(s)[k]) = w
         /\ \A n \in Fit : Parsing!Fields(s)[k] = Parsing!Num(n) => EncodedNumber(s, k, n)
<1> DEFINE f == Parsing!Fields(s)[k]  e == Encoded(s)[k]
<1>1. e = Encoding(f, s.form) /\ s.form \in {1, 3, 5, 9}
  BY DEF Encoded, IsShape
<1>2. ASSUME NEW name, NEW i, NEW w \in Nat \ {2}, f = Parsing!Field(name, i, w)
      PROVE  e = f /\ IsList(e) /\ Len(e) = w
  <2>1. e = Parsing!Field(name, i, w)
    BY <1>1, <1>2, FieldEncoded
  <2> QED
    BY <1>2, <2>1, FieldIs
<1>3. ASSUME NEW n \in Fit, f = Parsing!Num(n)
      PROVE  IsVarInt(e, n)
  BY <1>1, <1>3, NumberEncoded
<1> HIDE DEF f, e
<1> QED
  BY <1>2, <1>3 DEF EncodedAsIs, EncodedNumber, f, e

IsField(s, k, name, i, w) ==
  /\ EncodedAsIs(s, k) /\ IsList(Encoded(s)[k]) /\ Len(Encoded(s)[k]) = w

LEMMA FieldEncodes ==
  ASSUME NEW s, IsShape(s), NEW k \in 1..Len(Parsing!Fields(s)), NEW name, NEW i,
         NEW w \in Nat, w # 2, Parsing!Fields(s)[k] = Parsing!Field(name, i, w)
  PROVE  IsField(s, k, name, i, w)
BY EncodingIs DEF IsField

LEMMA NumberEncodes ==
  ASSUME NEW s, IsShape(s), NEW k \in 1..Len(Parsing!Fields(s)),
         NEW n \in Fit, Parsing!Fields(s)[k] = Parsing!Num(n)
  PROVE  EncodedNumber(s, k, n)
BY EncodingIs

HeadIs(s) ==
  /\ IsField(s, 1, "version", 0, 4) /\ IsField(s, 2, "hashPreviousBlock", 0, 32)
  /\ IsField(s, 3, "hashMerkleRoot", 0, 32) /\ IsField(s, 4, "time", 0, 4)
  /\ IsField(s, 5, "bits", 0, 4) /\ IsField(s, 6, "nonce", 0, 4)
  /\ EncodedNumber(s, 7, s.txs)
StartIs(s) ==
  IsField(s, 8, "txVersion", 0, 4) /\ EncodedNumber(s, 9, s.ins)
InputEncoded(s, p, i) ==
  /\ IsField(s, p + 1, "hash", i, 32) /\ IsField(s, p + 2, "index", i, 4)
  /\ EncodedNumber(s, p + 3, s.len) /\ IsField(s, p + 4, "sig", i, s.len)
  /\ IsField(s, p + 5, "seq", i, 4)
OutputEncoded(s, p, i) ==
  /\ IsField(s, p + 1, "value", i, 8) /\ EncodedNumber(s, p + 2, s.len)
  /\ IsField(s, p + 3, "script", i, s.len)

LEMMA AllEncoded ==
  ASSUME NEW s, IsShape(s)
  PROVE  /\ HeadIs(s) /\ StartIs(s) /\ EncodedNumber(s, 10 + 5 * s.ins, s.outs)
         /\ \A i \in 1..s.ins : InputEncoded(s, 9 + 5 * (i - 1), i)
         /\ \A i \in 1..s.outs : OutputEncoded(s, 10 + 5 * s.ins + 3 * (i - 1), i)
<1> DEFINE f == Parsing!Fields(s)  m == 5 * s.ins  l == 3 * s.outs
<1>0. s.txs \in Fit /\ s.ins \in Fit /\ s.outs \in Fit /\ s.len \in Fit
  BY DEF IsShape
<1>1. /\ IsList(f) /\ Len(f) = 10 + 5 * s.ins + 3 * s.outs
      /\ FirstFields(f, s)
      /\ f[8] = Parsing!Field("txVersion", 0, 4) /\ f[9] = Parsing!Num(s.ins)
      /\ \A i \in 1..s.ins : InputAt(9 + 5 * (i - 1), f, i, s)
      /\ f[10 + 5 * s.ins] = Parsing!Num(s.outs)
      /\ \A i \in 1..s.outs : OutputAt(10 + 5 * s.ins + 3 * (i - 1), f, i, s)
  BY FieldsAre
<1>2. /\ s.txs \in Nat /\ s.ins \in Nat /\ s.outs \in Nat /\ s.len \in Nat /\ s.len # 2
      /\ m \in Nat /\ l \in Nat /\ Len(f) = 10 + m + l
  <2>1. s.txs \in Nat /\ s.ins \in Nat /\ s.outs \in Nat /\ s.len \in Nat /\ s.len # 2
    BY DEF IsShape
  <2>2. Len(f) = 10 + m + l
    BY <1>1
  <2>3. m \in Nat /\ l \in Nat
    BY <2>1
  <2> HIDE DEF f, m, l
  <2> QED
    BY <2>1, <2>2, <2>3
<1> HIDE DEF f
<1>3. HeadIs(s)
  <2>1. \A k \in 1..7 : k \in 1..Len(f)
    <3> HIDE DEF m, l
    <3> QED
      BY <1>2
  <2>2. IsField(s, 1, "version", 0, 4)
    <3>1. f[1] = Parsing!Field("version", 0, 4) /\ 1 \in 1..Len(f)
      BY <1>1, <2>1 DEF FirstFields
    <3> QED
      BY <3>1, FieldEncodes DEF f
  <2>3. IsField(s, 2, "hashPreviousBlock", 0, 32)
    <3>1. f[2] = Parsing!Field("hashPreviousBlock", 0, 32) /\ 2 \in 1..Len(f)
      BY <1>1, <2>1 DEF FirstFields
    <3> QED
      BY <3>1, FieldEncodes DEF f
  <2>4. IsField(s, 3, "hashMerkleRoot", 0, 32)
    <3>1. f[3] = Parsing!Field("hashMerkleRoot", 0, 32) /\ 3 \in 1..Len(f)
      BY <1>1, <2>1 DEF FirstFields
    <3> QED
      BY <3>1, FieldEncodes DEF f
  <2>5. IsField(s, 4, "time", 0, 4)
    <3>1. f[4] = Parsing!Field("time", 0, 4) /\ 4 \in 1..Len(f)
      BY <1>1, <2>1 DEF FirstFields
    <3> QED
      BY <3>1, FieldEncodes DEF f
  <2>6. IsField(s, 5, "bits", 0, 4)
    <3>1. f[5] = Parsing!Field("bits", 0, 4) /\ 5 \in 1..Len(f)
      BY <1>1, <2>1 DEF FirstFields
    <3> QED
      BY <3>1, FieldEncodes DEF f
  <2>7. IsField(s, 6, "nonce", 0, 4)
    <3>1. f[6] = Parsing!Field("nonce", 0, 4) /\ 6 \in 1..Len(f)
      BY <1>1, <2>1 DEF FirstFields
    <3> QED
      BY <3>1, FieldEncodes DEF f
  <2>8. EncodedNumber(s, 7, s.txs)
    <3>1. f[7] = Parsing!Num(s.txs) /\ 7 \in 1..Len(f)
      BY <1>1, <2>1 DEF FirstFields
    <3> QED
      BY <1>2, <3>1, <1>0, NumberEncodes DEF f
  <2> QED
    BY <2>2, <2>3, <2>4, <2>5, <2>6, <2>7, <2>8 DEF HeadIs
<1>4. StartIs(s)
  <2>1. 8 \in 1..Len(f) /\ 9 \in 1..Len(f)
    <3> HIDE DEF m, l
    <3> QED
      BY <1>2
  <2>2. IsField(s, 8, "txVersion", 0, 4)
    BY <1>1, <2>1, FieldEncodes DEF f
  <2>3. EncodedNumber(s, 9, s.ins)
    BY <1>1, <1>2, <2>1, <1>0, NumberEncodes DEF f
  <2> QED
    BY <2>2, <2>3 DEF StartIs
<1>5. EncodedNumber(s, 10 + 5 * s.ins, s.outs)
  <2>1. 10 + m \in 1..Len(f)
    <3> HIDE DEF m, l
    <3> QED
      BY <1>2
  <2> QED
    BY <1>1, <1>2, <2>1, <1>0, NumberEncodes DEF f
<1>6. ASSUME NEW i \in 1..s.ins PROVE InputEncoded(s, 9 + 5 * (i - 1), i)
  <2> DEFINE p == 9 + 5 * (i - 1)
  <2>1. p \in Nat /\ p + 5 <= 9 + m
    <3>1. s.ins \in Nat
      BY <1>2
    <3>2. 5 * (i - 1) \in Nat /\ 5 * (i - 1) + 5 <= m
      BY <3>1
    <3> DEFINE q == 5 * (i - 1)
    <3>3. p = 9 + q /\ q \in Nat /\ q + 5 <= m /\ m \in Nat
      BY <1>2, <3>2
    <3> HIDE DEF q, m, p
    <3> QED
      BY <3>3
  <2>2. InputAt(p, f, i, s)
    BY <1>1
  <2> HIDE DEF p, m, l
  <2>3. /\ p + 1 \in 1..Len(f) /\ p + 2 \in 1..Len(f) /\ p + 3 \in 1..Len(f)
        /\ p + 4 \in 1..Len(f) /\ p + 5 \in 1..Len(f)
    BY <1>2, <2>1
  <2>4. IsField(s, p + 1, "hash", i, 32) /\ IsField(s, p + 2, "index", i, 4)
    BY <2>2, <2>3, FieldEncodes DEF InputAt, f
  <2>5. EncodedNumber(s, p + 3, s.len)
    BY <1>2, <2>2, <2>3, <1>0, NumberEncodes DEF InputAt, f
  <2>6. IsField(s, p + 4, "sig", i, s.len)
    BY <1>2, <2>2, <2>3, FieldEncodes DEF InputAt, f
  <2>7. IsField(s, p + 5, "seq", i, 4)
    BY <2>2, <2>3, FieldEncodes DEF InputAt, f
  <2> QED
    BY <2>4, <2>5, <2>6, <2>7 DEF InputEncoded, p
<1>7. ASSUME NEW i \in 1..s.outs PROVE OutputEncoded(s, 10 + 5 * s.ins + 3 * (i - 1), i)
  <2> DEFINE p == 10 + 5 * s.ins + 3 * (i - 1)
  <2>1. p \in Nat /\ p + 3 <= 10 + m + l
    <3>1. 3 * (i - 1) \in Nat /\ 3 * (i - 1) + 3 <= l
      BY <1>2
    <3> DEFINE q == 3 * (i - 1)
    <3>2. p = 10 + m + q
      OBVIOUS
    <3> HIDE DEF q, p, m, l
    <3> QED
      BY <1>2, <3>1, <3>2 DEF q
  <2>2. OutputAt(p, f, i, s)
    BY <1>1
  <2> HIDE DEF p, m, l
  <2>3. p + 1 \in 1..Len(f) /\ p + 2 \in 1..Len(f) /\ p + 3 \in 1..Len(f)
    BY <1>2, <2>1
  <2>4. IsField(s, p + 1, "value", i, 8)
    BY <2>2, <2>3, FieldEncodes DEF OutputAt, f
  <2>5. EncodedNumber(s, p + 2, s.len)
    BY <1>2, <2>2, <2>3, <1>0, NumberEncodes DEF OutputAt, f
  <2>6. IsField(s, p + 3, "script", i, s.len)
    BY <1>2, <2>2, <2>3, FieldEncodes DEF OutputAt, f
  <2> QED
    BY <2>4, <2>5, <2>6 DEF OutputEncoded, p
<1> QED
  BY <1>3, <1>4, <1>5, <1>6, <1>7

FieldNames ==
  {"version", "hashPreviousBlock", "hashMerkleRoot", "time", "bits", "nonce",
   "txVersion", "hash", "index", "sig", "seq", "value", "script"}
FieldSet == {Parsing!Num(n) : n \in Fit}
              \cup {Parsing!Field(name, i, w) : name \in FieldNames, i \in Nat, w \in Nat \ {2}}

LEMMA FieldsType ==
  ASSUME NEW s, IsShape(s)
  PROVE  Parsing!Fields(s) \in Seq(FieldSet)
<1> DEFINE S == FieldSet
<1>1. /\ s.ins \in Nat /\ s.outs \in Nat /\ s.len \in Nat \ {2}
      /\ s.txs \in Fit /\ s.ins \in Fit /\ s.outs \in Fit /\ s.len \in Fit
  BY DEF IsShape
<1>2. \A n \in Fit : Parsing!Num(n) \in S
  BY DEF FieldSet
<1>3. \A name \in FieldNames, i \in Nat, w \in Nat \ {2} : Parsing!Field(name, i, w) \in S
  BY DEF FieldSet
<1> HIDE DEF S
<1>0. \A i \in Nat, w \in Nat : w # 2 =>
         /\ Parsing!Field("version", i, w) \in S
         /\ Parsing!Field("hashPreviousBlock", i, w) \in S
         /\ Parsing!Field("hashMerkleRoot", i, w) \in S
         /\ Parsing!Field("time", i, w) \in S
         /\ Parsing!Field("bits", i, w) \in S
         /\ Parsing!Field("nonce", i, w) \in S
         /\ Parsing!Field("txVersion", i, w) \in S
         /\ Parsing!Field("hash", i, w) \in S
         /\ Parsing!Field("index", i, w) \in S
         /\ Parsing!Field("sig", i, w) \in S
         /\ Parsing!Field("seq", i, w) \in S
         /\ Parsing!Field("value", i, w) \in S
         /\ Parsing!Field("script", i, w) \in S
  <2> SUFFICES ASSUME NEW i \in Nat, NEW w \in Nat, w # 2
               PROVE  \A name \in FieldNames : Parsing!Field(name, i, w) \in S
    BY DEF FieldNames
  <2> QED
    BY <1>3
<1>4. Parsing!Header \in Seq(S)
  <2> DEFINE a == Parsing!Field("version", 0, 4)
             b == Parsing!Field("hashPreviousBlock", 0, 32)
             c == Parsing!Field("hashMerkleRoot", 0, 32)
             d == Parsing!Field("time", 0, 4)
             e == Parsing!Field("bits", 0, 4)
             f == Parsing!Field("nonce", 0, 4)
  <2>1. a \in S /\ b \in S /\ c \in S /\ d \in S /\ e \in S /\ f \in S
    BY <1>0
  <2>2. Parsing!Header = <<a, b, c, d, e, f>>
    BY DEF Parsing!Header
  <2> HIDE DEF a, b, c, d, e, f
  <2>3. <<a, b, c, d, e, f>> \in Seq(S)
    BY <2>1
  <2> QED
    BY <2>2, <2>3
<1>5. ASSUME NEW i \in Nat
      PROVE  Parsing!Input(i, s) \in Seq(S) /\ Parsing!Output(i, s) \in Seq(S)
  <2> DEFINE a == Parsing!Field("hash", i, 32)  b == Parsing!Field("index", i, 4)
             c == Parsing!Num(s.len)  d == Parsing!Field("sig", i, s.len)
             e == Parsing!Field("seq", i, 4)
             f == Parsing!Field("value", i, 8)  g == Parsing!Field("script", i, s.len)
  <2>1. a \in S /\ b \in S /\ c \in S /\ d \in S /\ e \in S /\ f \in S /\ g \in S
    BY <1>1, <1>2, <1>0
  <2>2. Parsing!Input(i, s) = <<a, b, c, d, e>> /\ Parsing!Output(i, s) = <<f, c, g>>
    BY DEF Parsing!Input, Parsing!Output
  <2> HIDE DEF a, b, c, d, e, f, g
  <2>3. <<a, b, c, d, e>> \in Seq(S) /\ <<f, c, g>> \in Seq(S)
    BY <2>1
  <2> QED
    BY <2>2, <2>3
<1>6. /\ [i \in 1..s.ins |-> Parsing!Input(i, s)] \in Seq(Seq(S))
      /\ [i \in 1..s.outs |-> Parsing!Output(i, s)] \in Seq(Seq(S))
  <2>1. /\ [i \in 1..s.ins |-> Parsing!Input(i, s)] \in [1..s.ins -> Seq(S)]
        /\ [i \in 1..s.outs |-> Parsing!Output(i, s)] \in [1..s.outs -> Seq(S)]
    <3>1. \A i \in 1..s.ins : Parsing!Input(i, s) \in Seq(S)
      BY <1>1, <1>5
    <3>2. \A i \in 1..s.outs : Parsing!Output(i, s) \in Seq(S)
      BY <1>1, <1>5
    <3> DEFINE R == Seq(S)
    <3>3. /\ \A i \in 1..s.ins : Parsing!Input(i, s) \in R
          /\ \A i \in 1..s.outs : Parsing!Output(i, s) \in R
      BY <3>1, <3>2
    <3> HIDE DEF R
    <3>4. /\ [i \in 1..s.ins |-> Parsing!Input(i, s)] \in [1..s.ins -> R]
          /\ [i \in 1..s.outs |-> Parsing!Output(i, s)] \in [1..s.outs -> R]
      BY <3>3
    <3> QED
      BY <3>4 DEF R
  <2>2. ASSUME NEW n \in Nat, NEW g \in [1..n -> Seq(S)] PROVE g \in Seq(Seq(S))
    OBVIOUS
  <2> QED
    BY <1>1, <2>1, <2>2
<1>7. Inputs(s) \in Seq(S) /\ Outputs(s) \in Seq(S)
  BY <1>6, FlattenType DEF Inputs, Outputs
<1> DEFINE x == <<Parsing!Num(s.txs)>>
           y == <<Parsing!Field("txVersion", 0, 4), Parsing!Num(s.ins)>>
           z == <<Parsing!Num(s.outs)>>
<1>8. x \in Seq(S) /\ y \in Seq(S) /\ z \in Seq(S)
  <2> DEFINE a == Parsing!Num(s.txs)  b == Parsing!Field("txVersion", 0, 4)
             c == Parsing!Num(s.ins)  d == Parsing!Num(s.outs)
  <2>1. a \in S /\ b \in S /\ c \in S /\ d \in S
    BY <1>1, <1>2, <1>0
  <2> HIDE DEF a, b, c, d
  <2>2. <<a>> \in Seq(S) /\ <<b, c>> \in Seq(S) /\ <<d>> \in Seq(S)
    BY <2>1
  <2> QED
    BY <2>2 DEF a, b, c, d
<1> HIDE DEF x, y, z
<1>9. Parsing!Header \o x \o y \o Inputs(s) \o z \o Outputs(s) \in Seq(S)
  BY <1>4, <1>7, <1>8
<1> QED
  BY <1>9 DEF S, x, y, z, Parsing!Fields, Inputs, Outputs

LEMMA EncodedLists ==
  ASSUME NEW s, IsShape(s)
  PROVE  /\ AllLists(Encoded(s)) /\ Len(Encoded(s)) = Len(Parsing!Fields(s))
         /\ Len(Parsing!Fields(s)) \in Nat
<1> DEFINE f == Parsing!Fields(s)  e == Encoded(s)
<1>1. f \in Seq(FieldSet)
  BY FieldsType
<1>2. Len(f) \in Nat /\ \A k \in 1..Len(f) : f[k] \in FieldSet
  BY <1>1
<1>3. Len(e) = Len(f) /\ IsList(e)
  BY <1>2 DEF Encoded, IsList
<1>4. ASSUME NEW k \in 1..Len(f) PROVE IsList(e[k])
  <2>1. CASE f[k] \in {Parsing!Num(n) : n \in Fit}
    BY <2>1, NumberEncodes DEF EncodedNumber, IsVarInt
  <2>2. CASE f[k] \notin {Parsing!Num(n) : n \in Fit}
    <3> DEFINE g == f[k]
    <3>0. g \in FieldSet /\ g \notin {Parsing!Num(n) : n \in Fit}
      BY <1>2, <2>2
    <3> HIDE DEF g
    <3>1. PICK name \in FieldNames, i \in Nat, w \in Nat \ {2} : g = Parsing!Field(name, i, w)
      BY <3>0 DEF FieldSet
    <3>2. IsField(s, k, name, i, w)
      BY <3>1, FieldEncodes DEF g
    <3> QED
      BY <3>2 DEF IsField
  <2> QED
    BY <2>1, <2>2
<1> QED
  BY <1>2, <1>3, <1>4 DEF AllLists

LEMMA WrittenIs ==
  ASSUME NEW s, IsShape(s)
  PROVE  /\ Parsing!Written(s) = Parsing!FlattenSeq(Encoded(s))
         /\ IsList(Parsing!Written(s)) /\ Size(s) \in Nat
         /\ IsOffsets(OffsetsOf(s), Encoded(s))
<1>1. Parsing!Written(s) = Parsing!FlattenSeq(Encoded(s))
  BY Zenon DEF Parsing!Written, Encoded, Encoding
<1>2. AllLists(Encoded(s))
  BY EncodedLists
<1>3. (\E off : IsOffsets(off, Encoded(s))) /\ IsList(Parsing!FlattenSeq(Encoded(s)))
  BY <1>2, OffsetsExist
<1>4. IsOffsets(OffsetsOf(s), Encoded(s))
  BY <1>3, Zenon DEF OffsetsOf
<1> QED
  BY <1>1, <1>3, <1>4 DEF Size, IsList

IsBuffer(b, s) ==
  /\ IsList(b)
  /\ Len(b) = IF s.cut <= Size(s) + 4 THEN Size(s) + 4 - s.cut ELSE 0
  /\ \A j \in 1..Len(b) : j <= Size(s) => b[j] = Parsing!Written(s)[j]

IsBlock == IsShape(shape) /\ IsBuffer(buffer, shape)
Off(k) == OffsetsOf(shape)[k]
FieldCount == Len(Parsing!Fields(shape))

LEMMA OffAre ==
  ASSUME IsBlock
  PROVE  /\ FieldCount \in Nat /\ Size(shape) \in Nat /\ Len(buffer) \in Nat
         /\ Off(0) = 0 /\ Off(FieldCount) = Size(shape)
         /\ \A k \in 0..FieldCount : Off(k) \in Nat /\ Off(k) <= Size(shape)
         /\ \A k \in 1..FieldCount :
              /\ Off(k) = Off(k - 1) + Len(Encoded(shape)[k])
              /\ Here(Off(k - 1), Encoded(shape)[k])
<1> DEFINE bytes == Parsing!Written(shape)  E == Encoded(shape)  n == FieldCount
<1>1. /\ AllLists(E) /\ Len(E) = n /\ n \in Nat
  BY EncodedLists DEF IsBlock, FieldCount
<1>2. /\ bytes = Parsing!FlattenSeq(E) /\ IsList(bytes) /\ Len(bytes) = Size(shape)
      /\ Size(shape) \in Nat /\ IsOffsets(OffsetsOf(shape), E)
  BY WrittenIs DEF IsBlock, Size
<1>3. /\ Off(0) = 0 /\ Off(n) = Size(shape)
      /\ \A k \in 0..n : Off(k) \in Nat /\ Off(k) <= Size(shape)
      /\ \A k \in 1..n : /\ Off(k) = Off(k - 1) + Len(E[k])
                         /\ \A j \in 1..Len(E[k]) : bytes[Off(k - 1) + j] = E[k][j]
  BY <1>1, <1>2 DEF IsOffsets, Off
<1>4. Len(buffer) \in Nat /\ \A j \in 1..Len(buffer) : j <= Size(shape) => buffer[j] = bytes[j]
  BY DEF IsBlock, IsBuffer, IsList
<1> HIDE DEF bytes, E, n
<1>5. ASSUME NEW k \in 1..n PROVE Here(Off(k - 1), E[k])
  <2>1. IsList(E[k]) /\ Len(E[k]) \in Nat
    BY <1>1 DEF AllLists, IsList
  <2>2. k \in 0..n /\ k - 1 \in 0..n
    BY <1>1
  <2>3. /\ Off(k - 1) \in Nat /\ Off(k - 1) + Len(E[k]) <= Size(shape)
    BY <1>3, <2>2
  <2>4. ASSUME NEW j \in 1..Len(E[k]), Off(k - 1) + j <= Len(buffer)
        PROVE  buffer[Off(k - 1) + j] = E[k][j]
    <3>1. Off(k - 1) + j \in 1..Len(buffer) /\ Off(k - 1) + j <= Size(shape)
      BY <1>2, <1>4, <2>1, <2>3, <2>4
    <3>2. buffer[Off(k - 1) + j] = bytes[Off(k - 1) + j]
      BY <1>4, <3>1
    <3> QED
      BY <1>3, <3>2
  <2> QED
    BY <2>1, <2>4 DEF Here
<1> QED
  BY <1>1, <1>2, <1>3, <1>4, <1>5 DEF E, n

ReadsField(j, k, w) ==
  /\ Off(j) \in Nat /\ Off(k) \in Nat /\ Off(k) = Off(j) + w
  /\ Off(k) <= Len(buffer) => Parsing!Bytes(Off(j) + 1, w) = Parsing!Fields(shape)[k]

LEMMA FieldRead ==
  ASSUME IsBlock, NEW k \in 1..FieldCount, NEW name, NEW i, NEW w \in Nat,
         IsField(shape, k, name, i, w)
  PROVE  ReadsField(k - 1, k, w)
<1> DEFINE e == Encoded(shape)[k]  o == Off(k - 1)
<1>1. /\ e = Parsing!Fields(shape)[k] /\ Len(e) = w
  BY DEF IsField, EncodedAsIs
<1>2. k \in 0..FieldCount /\ k - 1 \in 0..FieldCount
  BY OffAre
<1>3. /\ o \in Nat /\ Off(k) \in Nat /\ Len(buffer) \in Nat
      /\ Off(k) = o + Len(e) /\ Here(o, e)
  BY <1>2, OffAre
<1> HIDE DEF e, o
<1>4. ASSUME Off(k) <= Len(buffer)
      PROVE  Parsing!Bytes(o + 1, w) = e
  BY <1>1, <1>3, <1>4, BytesHere
<1> QED
  BY <1>1, <1>3, <1>4 DEF ReadsField, o

ReadsNumber(j, k, n) ==
  /\ Parsing!Fields(shape)[k] = Parsing!Num(n)
  /\ Off(j) \in Nat /\ Off(k) \in Nat /\ Off(j) <= Off(k)
  /\ Parsing!VarIntWidth(Off(j) + 1) \in Nat /\ Parsing!VarIntAt(Off(j) + 1) \in Nat
  /\ IF Off(k) <= Len(buffer)
     THEN /\ Off(k) = Off(j) + Parsing!VarIntWidth(Off(j) + 1)
          /\ Parsing!VarIntAt(Off(j) + 1) = n
     ELSE Off(j) + Parsing!VarIntWidth(Off(j) + 1) > Len(buffer)

LEMMA NumberRead ==
  ASSUME IsBlock, NEW k \in 1..FieldCount, NEW n \in Nat, EncodedNumber(shape, k, n)
  PROVE  ReadsNumber(k - 1, k, n)
<1> DEFINE e == Encoded(shape)[k]  o == Off(k - 1)
<1>1. Parsing!Fields(shape)[k] = Parsing!Num(n) /\ IsVarInt(e, n)
  BY DEF EncodedNumber
<1>2. k \in 0..FieldCount /\ k - 1 \in 0..FieldCount
  BY OffAre
<1>3. /\ o \in Nat /\ Off(k) \in Nat /\ Len(buffer) \in Nat
      /\ Off(k) = o + Len(e) /\ Here(o, e)
  BY <1>2, OffAre
<1>4. Len(e) \in Nat
  BY <1>3 DEF Here, IsList
<1> HIDE DEF e, o
<1>5. NumberAt(o, e, n)
  BY <1>1, <1>3, NumberHere
<1> QED
  BY <1>1, <1>3, <1>4, <1>5 DEF ReadsNumber, NumberAt, o

(***************************************************************************)
(* What a read does, when the fields it names are those of the block.      *)
(***************************************************************************)
Reached(q, pos, list, s, b) ==
  /\ q \in 0..Len(Parsing!Fields(s)) /\ Begins(list, Parsing!Fields(s)) /\ Len(list) = q
  /\ pos = OffsetsOf(s)[q] + 1 /\ pos <= Len(b) + 1
Done(q) == Reached(q, position, parsed, shape, buffer)

\* A read of c fields, of so many bytes.
Takes(p, c, list, width) ==
  /\ p \in Nat /\ c \in Nat /\ p + c <= FieldCount
  /\ IF Off(p + c) <= Len(buffer)
     THEN /\ Off(p) + width = Off(p + c)
          /\ IsList(list) /\ Len(list) = c
          /\ \A j \in 1..c : list[j] = Parsing!Fields(shape)[p + j]
     ELSE Off(p) + width > Len(buffer)

Kept == UNCHANGED <<task, shape, buffer, position, left, parsed>>

LEMMA ReadStep ==
  ASSUME IsBlock, NEW p, NEW c, Done(p), NEW list, NEW width \in Int, NEW next, NEW todo,
         Takes(p, c, list, width), Parsing!Read(list, width, next, todo)
  PROVE  \/ step' = "threw" /\ Kept /\ shape.cut > 4
         \/ /\ Off(p + c) <= Len(buffer) /\ step' = next /\ left' = todo
            /\ UNCHANGED <<task, shape, buffer>>
            /\ Reached(p + c, position', parsed', shape, buffer)
<1> DEFINE F == Parsing!Fields(shape)  n == FieldCount  q == p + c
           o == Off(p)  r == Off(q)  m == Len(buffer)
<1>1. /\ n \in Nat /\ Size(shape) \in Nat /\ m \in Nat
      /\ \A k \in 0..n : Off(k) \in Nat /\ Off(k) <= Size(shape)
  BY OffAre
<1>2. p \in 0..n /\ q \in 0..n /\ c \in Nat
  BY <1>1 DEF Takes
<1>3. o \in Nat /\ r \in Nat /\ r <= Size(shape)
  BY <1>1, <1>2
<1>4. position = o + 1 /\ Begins(parsed, F) /\ Len(parsed) = p
  BY DEF Done, Reached, Off
<1>5. n = Len(F)
  BY DEF FieldCount
<1>6. shape.cut \in Nat /\ (m = IF shape.cut <= Size(shape) + 4
                                THEN Size(shape) + 4 - shape.cut ELSE 0)
  BY DEF IsBlock, IsBuffer, IsShape
<1>7. IF r <= m
      THEN /\ o + width = r /\ IsList(list) /\ Len(list) = c
           /\ \A j \in 1..c : list[j] = F[p + j]
      ELSE o + width > m
  BY DEF Takes
<1>8. /\ position + width - 1 > m => step' = "threw" /\ Kept
      /\ ~(position + width - 1 > m) =>
            /\ parsed' = parsed \o list /\ position' = position + width
            /\ step' = next /\ left' = todo /\ UNCHANGED <<task, shape, buffer>>
  BY DEF Parsing!Read, Kept
<1> HIDE DEF F, n, q, o, r, m
<1>9. CASE r > m
  <2>1. position + width - 1 > m
    BY <1>1, <1>3, <1>4, <1>7, <1>9
  <2>2. shape.cut > 4
    BY <1>1, <1>3, <1>6, <1>9
  <2> QED
    BY <1>8, <2>1, <2>2
<1>10. CASE r <= m
  <2>1. ~(position + width - 1 > m) /\ position + width = r + 1
    BY <1>1, <1>3, <1>4, <1>7, <1>10
  <2>2. IsList(parsed) /\ IsList(list) /\ IsList(F)
    BY <1>4, <1>7, <1>10 DEF Begins
  <2> DEFINE l == parsed \o list
  <2>3. IsJoin(l, parsed, list)
    BY <2>2, Joins
  <2> HIDE DEF l
  <2>4. Len(l) = q
    BY <1>4, <1>7, <1>10, <2>3 DEF IsJoin, q
  <2>5. ASSUME NEW j \in 1..q PROVE F[j] = l[j]
    <3>1. CASE j <= p
      <4>1. j \in 1..Len(parsed)
        BY <1>2, <1>4, <3>1
      <4> QED
        BY <1>4, <2>3, <4>1 DEF IsJoin, Begins
    <3>2. CASE j > p
      <4>1. PICK i : i = j - p
        OBVIOUS
      <4>2. i \in 1..c /\ p + i = j
        BY <1>2, <3>2, <4>1 DEF q
      <4>3. l[p + i] = list[i] /\ list[i] = F[p + i]
        BY <1>4, <1>7, <1>10, <2>3, <4>2 DEF IsJoin
      <4> QED
        BY <4>2, <4>3
    <3> QED
      BY <1>2, <3>1, <3>2
  <2>6. Begins(l, F)
    BY <1>2, <1>5, <2>2, <2>3, <2>4, <2>5 DEF Begins, IsJoin
  <2>7. Reached(q, r + 1, l, shape, buffer)
    <3>1. q \in 0..Len(F) /\ r + 1 <= m + 1
      BY <1>1, <1>2, <1>3, <1>5, <1>10
    <3> QED
      BY <2>4, <2>6, <3>1 DEF Reached, F, r, m, Off
  <2> QED
    BY <1>8, <1>10, <2>1, <2>7 DEF q, r, m, l
<1> QED
  BY <1>1, <1>3, <1>9, <1>10

LEMMA FieldCountIs ==
  ASSUME IsBlock
  PROVE  /\ FieldCount = 10 + 5 * shape.ins + 3 * shape.outs
         /\ shape.txs \in Nat /\ shape.ins \in Nat /\ shape.outs \in Nat /\ shape.len \in Nat
BY FieldsAre DEF IsBlock, IsShape, FieldCount

LEMMA HeaderTakes ==
  ASSUME IsBlock, Done(0)
  PROVE  Takes(0, 7, <<Parsing!Bytes(position, 4), Parsing!Bytes(position + 4, 32),
                       Parsing!Bytes(position + 36, 32), Parsing!Bytes(position + 68, 4),
                       Parsing!Bytes(position + 72, 4), Parsing!Bytes(position + 76, 4),
                       Parsing!Num(Parsing!VarIntAt(position + 80))>>,
               80 + Parsing!VarIntWidth(position + 80))
<1> DEFINE F == Parsing!Fields(shape)
           a == Parsing!Bytes(position, 4)  b == Parsing!Bytes(position + 4, 32)
           c == Parsing!Bytes(position + 36, 32)  d == Parsing!Bytes(position + 68, 4)
           e == Parsing!Bytes(position + 72, 4)  f == Parsing!Bytes(position + 76, 4)
           v == Parsing!VarIntAt(position + 80)  w == Parsing!VarIntWidth(position + 80)
           g == Parsing!Num(v)  t == <<a, b, c, d, e, f, g>>
<1>1. HeadIs(shape)
  BY AllEncoded DEF IsBlock
<1>2. 7 <= FieldCount /\ \A k \in 1..7 : k \in 1..FieldCount
  BY FieldCountIs
<1>3. Off(0) = 0 /\ position = 1 /\ Len(buffer) \in Nat
  BY OffAre DEF Done, Reached, Off
<1>4. ReadsField(0, 1, 4) /\ ReadsField(1, 2, 32) /\ ReadsField(2, 3, 32)
      /\ ReadsField(3, 4, 4) /\ ReadsField(4, 5, 4) /\ ReadsField(5, 6, 4)
  <2>1. /\ ReadsField(1 - 1, 1, 4) /\ ReadsField(2 - 1, 2, 32) /\ ReadsField(3 - 1, 3, 32)
        /\ ReadsField(4 - 1, 4, 4) /\ ReadsField(5 - 1, 5, 4) /\ ReadsField(6 - 1, 6, 4)
    BY <1>1, <1>2, FieldRead DEF HeadIs
  <2>2. 1 - 1 = 0 /\ 2 - 1 = 1 /\ 3 - 1 = 2 /\ 4 - 1 = 3 /\ 5 - 1 = 4 /\ 6 - 1 = 5
    OBVIOUS
  <2> QED
    BY <2>1, <2>2
<1>5. ReadsNumber(6, 7, shape.txs)
  <2>1. ReadsNumber(7 - 1, 7, shape.txs)
    BY <1>1, <1>2, FieldCountIs, NumberRead DEF HeadIs
  <2>2. 7 - 1 = 6
    OBVIOUS
  <2> QED
    BY <2>1, <2>2
<1>6. Off(1) = 4 /\ Off(2) = 36 /\ Off(3) = 68 /\ Off(4) = 72 /\ Off(5) = 76 /\ Off(6) = 80
  <2>1. Off(1) = Off(0) + 4 /\ Off(2) = Off(1) + 32 /\ Off(3) = Off(2) + 32
    BY <1>4 DEF ReadsField
  <2>2. Off(4) = Off(3) + 4 /\ Off(5) = Off(4) + 4 /\ Off(6) = Off(5) + 4
    BY <1>4 DEF ReadsField
  <2> QED
    BY <1>3, <2>1, <2>2
<1>7. w = Parsing!VarIntWidth(Off(6) + 1) /\ v = Parsing!VarIntAt(Off(6) + 1)
  BY <1>3, <1>6
<1>8. CASE Off(7) <= Len(buffer)
  <2>1. Off(7) = 80 + w /\ v = shape.txs /\ w \in Nat /\ F[7] = Parsing!Num(shape.txs)
    BY <1>5, <1>6, <1>7, <1>8 DEF ReadsNumber
  <2>2. /\ a = F[1] /\ b = F[2] /\ c = F[3] /\ d = F[4] /\ e = F[5] /\ f = F[6]
    <3>0. /\ Off(1) <= Len(buffer) /\ Off(2) <= Len(buffer) /\ Off(3) <= Len(buffer)
          /\ Off(4) <= Len(buffer) /\ Off(5) <= Len(buffer) /\ Off(6) <= Len(buffer)
      BY <1>3, <1>6, <1>8, <2>1
    <3>1. a = Parsing!Bytes(Off(0) + 1, 4) /\ b = Parsing!Bytes(Off(1) + 1, 32)
      BY <1>3, <1>6
    <3>2. c = Parsing!Bytes(Off(2) + 1, 32) /\ d = Parsing!Bytes(Off(3) + 1, 4)
      BY <1>3, <1>6
    <3>3. e = Parsing!Bytes(Off(4) + 1, 4) /\ f = Parsing!Bytes(Off(5) + 1, 4)
      BY <1>3, <1>6
    <3> HIDE DEF a, b, c, d, e, f
    <3> QED
      BY <1>4, <3>0, <3>1, <3>2, <3>3 DEF ReadsField
  <2>3. g = F[7]
    BY <2>1
  <2> HIDE DEF a, b, c, d, e, f, g, F, w
  <2>4. IsList(t) /\ Len(t) = 7 /\ \A j \in 1..7 : t[j] = F[j]
    BY <2>2, <2>3 DEF IsList
  <2> HIDE DEF t
  <2>5. \A j \in 1..7 : t[j] = F[0 + j]
    BY <2>4
  <2>6. Takes(0, 7, t, 80 + w)
    BY <1>2, <1>3, <1>8, <2>1, <2>4, <2>5 DEF Takes, F
  <2> QED
    BY <2>6 DEF t, a, b, c, d, e, f, g, w
<1>9. CASE Off(7) > Len(buffer)
  <2>1. 80 + w > Len(buffer) /\ Off(7) \in Nat
    BY <1>3, <1>5, <1>6, <1>7, <1>9 DEF ReadsNumber
  <2> HIDE DEF a, b, c, d, e, f, g, F, w, t
  <2>2. ~(Off(0 + 7) <= Len(buffer)) /\ Off(0) + (80 + w) > Len(buffer)
    <3>1. w \in Nat
      BY <1>5, <1>7 DEF ReadsNumber, w
    <3>2. 0 + 7 = 7 /\ 0 + (80 + w) = 80 + w
      BY <3>1
    <3>3. ~(Off(7) <= Len(buffer))
      BY <1>3, <1>9, <2>1
    <3> QED
      BY <1>3, <2>1, <3>2, <3>3
  <2>3. Takes(0, 7, t, 80 + w)
    BY <1>2, <2>2 DEF Takes
  <2> QED
    BY <2>3 DEF t, a, b, c, d, e, f, g, w
<1>10. Off(7) \in Nat
  BY <1>5 DEF ReadsNumber
<1> QED
  BY <1>3, <1>8, <1>9, <1>10

LEMMA StartTakes ==
  ASSUME IsBlock, Done(7)
  PROVE  /\ Takes(7, 2, <<Parsing!Bytes(position, 4),
                          Parsing!Num(Parsing!VarIntAt(position + 4))>>,
                  4 + Parsing!VarIntWidth(position + 4))
         /\ Parsing!VarIntWidth(position + 4) \in Nat
         /\ Off(9) <= Len(buffer) => Parsing!VarIntAt(position + 4) = shape.ins
<1> DEFINE F == Parsing!Fields(shape)
           a == Parsing!Bytes(position, 4)  v == Parsing!VarIntAt(position + 4)
           w == Parsing!VarIntWidth(position + 4)  g == Parsing!Num(v)  t == <<a, g>>
<1>1. StartIs(shape)
  BY AllEncoded DEF IsBlock
<1>2. 9 <= FieldCount /\ 8 \in 1..FieldCount /\ 9 \in 1..FieldCount
  BY FieldCountIs
<1>3. position = Off(7) + 1 /\ Len(buffer) \in Nat
  BY OffAre DEF Done, Reached, Off
<1>4. ReadsField(7, 8, 4)
  <2>1. ReadsField(8 - 1, 8, 4) /\ 8 - 1 = 7
    BY <1>1, <1>2, FieldRead DEF StartIs
  <2> QED
    BY <2>1
<1>5. ReadsNumber(8, 9, shape.ins)
  <2>1. ReadsNumber(9 - 1, 9, shape.ins) /\ 9 - 1 = 8
    BY <1>1, <1>2, FieldCountIs, NumberRead DEF StartIs
  <2> QED
    BY <2>1
<1>6. Off(7) \in Nat /\ Off(8) = Off(7) + 4 /\ Off(8) \in Nat /\ Off(9) \in Nat
  BY <1>4, <1>5 DEF ReadsField, ReadsNumber
<1>7. w = Parsing!VarIntWidth(Off(8) + 1) /\ v = Parsing!VarIntAt(Off(8) + 1)
  <2>1. position + 4 = Off(8) + 1
    BY <1>3, <1>6
  <2> QED
    BY <2>1
<1>8. CASE Off(9) <= Len(buffer)
  <2>1. Off(9) = Off(8) + w /\ v = shape.ins /\ w \in Nat /\ F[9] = Parsing!Num(shape.ins)
        /\ Off(8) <= Off(9)
    BY <1>5, <1>7, <1>8 DEF ReadsNumber
  <2>2. a = F[8]
    <3>1. Off(8) <= Len(buffer)
      BY <1>3, <1>6, <1>8, <2>1
    <3> QED
      BY <1>3, <1>4, <3>1 DEF ReadsField
  <2>3. g = F[9]
    BY <2>1
  <2> HIDE DEF a, g, F, w
  <2>4. IsList(t) /\ Len(t) = 2 /\ t[1] = F[8] /\ t[2] = F[9]
    BY <2>2, <2>3 DEF IsList
  <2> HIDE DEF t
  <2>5. \A j \in 1..2 : t[j] = F[7 + j]
    BY <2>4
  <2>6. Takes(7, 2, t, 4 + w)
    BY <1>2, <1>6, <1>8, <2>1, <2>4, <2>5 DEF Takes, F
  <2> QED
    BY <2>1, <2>6 DEF t, a, g, w
<1>9. CASE Off(9) > Len(buffer)
  <2>1. Off(8) + w > Len(buffer) /\ w \in Nat
    BY <1>3, <1>5, <1>7, <1>9 DEF ReadsNumber
  <2> HIDE DEF a, g, F, w, t
  <2>2. Takes(7, 2, t, 4 + w)
    BY <1>2, <1>3, <1>6, <1>9, <2>1 DEF Takes
  <2> QED
    BY <1>3, <1>6, <1>9, <2>1, <2>2 DEF t, a, g, w
<1> QED
  BY <1>3, <1>6, <1>8, <1>9

LEMMA OutCountTakes ==
  ASSUME IsBlock, NEW p, p = 9 + 5 * shape.ins, Done(p)
  PROVE  /\ Takes(p, 1, <<Parsing!Num(Parsing!VarIntAt(position))>>,
                  Parsing!VarIntWidth(position))
         /\ Parsing!VarIntWidth(position) \in Nat
         /\ Off(p + 1) <= Len(buffer) => Parsing!VarIntAt(position) = shape.outs
<1> DEFINE F == Parsing!Fields(shape)
           v == Parsing!VarIntAt(position)  w == Parsing!VarIntWidth(position)
           g == Parsing!Num(v)  t == <<g>>
<1>1. p + 1 = 10 + 5 * shape.ins /\ p \in Nat /\ p + 1 <= FieldCount
      /\ p + 1 \in 1..FieldCount /\ (p + 1) - 1 = p
  BY FieldCountIs
<1>2. EncodedNumber(shape, p + 1, shape.outs)
  BY <1>1, AllEncoded DEF IsBlock
<1>3. position = Off(p) + 1 /\ Len(buffer) \in Nat
  BY OffAre DEF Done, Reached, Off
<1>4. ReadsNumber(p, p + 1, shape.outs)
  BY <1>1, <1>2, FieldCountIs, NumberRead
<1>5. Off(p) \in Nat /\ Off(p + 1) \in Nat /\ w \in Nat
  BY <1>3, <1>4 DEF ReadsNumber
<1>6. CASE Off(p + 1) <= Len(buffer)
  <2>1. Off(p + 1) = Off(p) + w /\ v = shape.outs /\ F[p + 1] = Parsing!Num(shape.outs)
    BY <1>3, <1>4, <1>6 DEF ReadsNumber
  <2>2. g = F[p + 1]
    BY <2>1
  <2> HIDE DEF g, F, w
  <2>3. IsList(t) /\ Len(t) = 1 /\ t[1] = F[p + 1]
    BY <2>2 DEF IsList
  <2> HIDE DEF t
  <2>4. \A j \in 1..1 : t[j] = F[p + j]
    BY <2>3
  <2>5. Takes(p, 1, t, w)
    BY <1>1, <1>6, <2>1, <2>3, <2>4 DEF Takes, F
  <2> QED
    BY <1>5, <2>1, <2>5 DEF t, g, w
<1>7. CASE Off(p + 1) > Len(buffer)
  <2>1. Off(p) + w > Len(buffer)
    BY <1>3, <1>4, <1>5, <1>7 DEF ReadsNumber
  <2> HIDE DEF g, F, w, t
  <2>2. Takes(p, 1, t, w)
    BY <1>1, <1>3, <1>5, <1>7, <2>1 DEF Takes
  <2> QED
    BY <1>3, <1>5, <1>7, <2>2 DEF t, g, w
<1> QED
  BY <1>3, <1>5, <1>6, <1>7

LEMMA InputTakes ==
  ASSUME IsBlock, NEW i \in 1..shape.ins, NEW p, p = 9 + 5 * (i - 1), Done(p)
  PROVE  LET v == Parsing!VarIntAt(position + 36)
             w == Parsing!VarIntWidth(position + 36)
             sig == position + 36 + w
         IN  /\ Takes(p, 5, <<Parsing!Bytes(position, 32), Parsing!Bytes(position + 32, 4),
                              Parsing!Num(v), Parsing!Bytes(sig, v),
                              Parsing!Bytes(sig + v, 4)>>, sig + v + 4 - position)
             /\ sig + v + 4 - position \in Int
<1> DEFINE F == Parsing!Fields(shape)  l == shape.len
           v == Parsing!VarIntAt(position + 36)  w == Parsing!VarIntWidth(position + 36)
           sig == position + 36 + w
           a == Parsing!Bytes(position, 32)  b == Parsing!Bytes(position + 32, 4)
           c == Parsing!Num(v)  d == Parsing!Bytes(sig, v)  e == Parsing!Bytes(sig + v, 4)
           t == <<a, b, c, d, e>>  width == sig + v + 4 - position
           k1 == p + 1  k2 == p + 2  k3 == p + 3  k4 == p + 4  k5 == p + 5
<1>1. InputEncoded(shape, p, i)
  BY AllEncoded DEF IsBlock
<1>2. /\ p \in Nat /\ p + 5 <= FieldCount /\ FieldCount \in Nat /\ l \in Nat
  <2> DEFINE m == 5 * shape.ins  n == 3 * shape.outs
  <2>1. FieldCount = 10 + m + n /\ m \in Nat /\ n \in Nat /\ l \in Nat
    BY FieldCountIs
  <2>2. p \in Nat /\ p + 5 <= 9 + m
    BY FieldCountIs
  <2> HIDE DEF m, n
  <2> QED
    BY <2>1, <2>2
<1>3. position = Off(p) + 1 /\ Len(buffer) \in Nat
  BY OffAre DEF Done, Reached, Off
<1>4. ReadsField(p, k1, 32) /\ ReadsField(k1, k2, 4) /\ ReadsNumber(k2, k3, l)
      /\ ReadsField(k3, k4, l) /\ ReadsField(k4, k5, 4)
  <2>1. /\ k1 \in 1..FieldCount /\ k2 \in 1..FieldCount /\ k3 \in 1..FieldCount
        /\ k4 \in 1..FieldCount /\ k5 \in 1..FieldCount
        /\ k1 - 1 = p /\ k2 - 1 = k1 /\ k3 - 1 = k2 /\ k4 - 1 = k3 /\ k5 - 1 = k4
    BY <1>2
  <2>2. /\ IsField(shape, k1, "hash", i, 32) /\ IsField(shape, k2, "index", i, 4)
        /\ EncodedNumber(shape, k3, l) /\ IsField(shape, k4, "sig", i, l)
        /\ IsField(shape, k5, "seq", i, 4)
    BY <1>1 DEF InputEncoded
  <2> HIDE DEF k1, k2, k3, k4, k5, l
  <2>3. ReadsField(k1 - 1, k1, 32)
    BY <2>1, <2>2, FieldRead
  <2>4. ReadsField(k2 - 1, k2, 4)
    BY <2>1, <2>2, FieldRead
  <2>5. ReadsNumber(k3 - 1, k3, l)
    BY <1>2, <2>1, <2>2, NumberRead
  <2>6. ReadsField(k4 - 1, k4, l)
    BY <1>2, <2>1, <2>2, FieldRead
  <2>7. ReadsField(k5 - 1, k5, 4)
    BY <2>1, <2>2, FieldRead
  <2> QED
    BY <2>1, <2>3, <2>4, <2>5, <2>6, <2>7
<1> HIDE DEF k1, k2, k3, k4, k5, l
<1>5. /\ Off(p) \in Nat /\ Off(k1) = Off(p) + 32 /\ Off(k2) = Off(k1) + 4
      /\ Off(k2) \in Nat /\ Off(k3) \in Nat /\ Off(k2) <= Off(k3)
      /\ Off(k4) = Off(k3) + l /\ Off(k5) = Off(k4) + 4
  <2>1. Off(p) \in Nat /\ Off(k1) = Off(p) + 32 /\ Off(k2) = Off(k1) + 4
    BY <1>4 DEF ReadsField
  <2>2. Off(k4) = Off(k3) + l /\ Off(k5) = Off(k4) + 4
    BY <1>4 DEF ReadsField
  <2>3. Off(k2) \in Nat /\ Off(k3) \in Nat /\ Off(k2) <= Off(k3)
    BY <1>4 DEF ReadsNumber
  <2> QED
    BY <2>1, <2>2, <2>3
<1>6. position + 36 = Off(k2) + 1 /\ position + 32 = Off(k1) + 1
  BY <1>3, <1>5
<1>7. w = Parsing!VarIntWidth(Off(k2) + 1) /\ v = Parsing!VarIntAt(Off(k2) + 1)
  BY <1>6
<1>8. w \in Nat /\ v \in Nat /\ F[k3] = Parsing!Num(l)
      /\ IF Off(k3) <= Len(buffer) THEN Off(k3) = Off(k2) + w /\ v = l
         ELSE Off(k2) + w > Len(buffer)
  BY <1>4, <1>7 DEF ReadsNumber
<1>9. sig = Off(k2) + 1 + w /\ width = 36 + w + v + 4 /\ width \in Nat
  <2> DEFINE x == Off(p)  y == Off(k2)  z == position
  <2>1. z = x + 1 /\ y = x + 36 /\ x \in Nat /\ y \in Nat
    BY <1>3, <1>5
  <2>2. w \in Nat /\ v \in Nat
    BY <1>8
  <2>3. sig = z + 36 + w /\ width = sig + v + 4 - z
    OBVIOUS
  <2> HIDE DEF w, v, sig, width, x, y, z
  <2>4. sig = y + 1 + w /\ width = 36 + w + v + 4 /\ width \in Nat
    BY <2>1, <2>2, <2>3
  <2> QED
    BY <2>4 DEF y
<1>10. CASE Off(k5) <= Len(buffer)
  <2>1. Off(k3) <= Len(buffer) /\ Off(k1) <= Len(buffer) /\ Off(k2) <= Len(buffer)
        /\ Off(k4) <= Len(buffer)
    BY <1>2, <1>3, <1>5, <1>10
  <2>2. Off(k3) = Off(k2) + w /\ v = l
    BY <1>8, <2>1
  <2>3. a = F[k1] /\ b = F[k2]
    <3>1. a = Parsing!Bytes(Off(p) + 1, 32) /\ b = Parsing!Bytes(Off(k1) + 1, 4)
      BY <1>3, <1>6
    <3> HIDE DEF a, b
    <3> QED
      BY <1>4, <2>1, <3>1 DEF ReadsField
  <2>4. d = F[k4]
    <3>1. sig = Off(k3) + 1
      <4> HIDE DEF w, v, sig
      <4> QED
        BY <1>5, <1>8, <1>9, <2>2
    <3>2. d = Parsing!Bytes(Off(k3) + 1, l)
      <4> HIDE DEF v, sig
      <4> QED
        BY <2>2, <3>1
    <3> HIDE DEF d
    <3> QED
      BY <1>4, <2>1, <3>2 DEF ReadsField
  <2>5. e = F[k5]
    <3>1. sig + v = Off(k4) + 1
      <4>1. w \in Nat /\ v = l /\ l \in Nat
        BY <1>2, <1>8, <2>2
      <4>2. Off(k3) = Off(k2) + w /\ Off(k4) = Off(k3) + l /\ Off(k2) \in Nat
        BY <1>5, <2>2
      <4> HIDE DEF w, v, sig
      <4> QED
        BY <1>9, <4>1, <4>2
    <3>2. e = Parsing!Bytes(Off(k4) + 1, 4)
      <4> HIDE DEF v, sig
      <4> QED
        BY <3>1
    <3> HIDE DEF e
    <3> QED
      BY <1>4, <1>10, <3>2 DEF ReadsField
  <2>6. c = F[k3]
    BY <1>8, <2>2
  <2> HIDE DEF a, b, c, d, e, F, w, v, sig
  <2>7. /\ IsList(t) /\ Len(t) = 5 /\ t[1] = F[k1] /\ t[2] = F[k2] /\ t[3] = F[k3]
        /\ t[4] = F[k4] /\ t[5] = F[k5]
    BY <2>3, <2>4, <2>5, <2>6 DEF IsList
  <2> HIDE DEF t, width
  <2>8. \A j \in 1..5 : t[j] = F[p + j]
    BY <2>7 DEF k1, k2, k3, k4, k5
  <2>9. Off(p) + width = Off(p + 5) /\ Off(p + 5) <= Len(buffer)
    <3> DEFINE x == Off(p)
    <3>1. w \in Nat /\ v = l /\ l \in Nat /\ x \in Nat
      BY <1>2, <1>5, <1>8, <2>2
    <3>2. Off(k5) = Off(k3) + l + 4 /\ Off(k3) = x + 36 + w
      BY <1>5, <2>2, <3>1
    <3>3. width = 36 + w + v + 4
      BY <1>9
    <3> HIDE DEF x
    <3>4. x + width = Off(k5)
      BY <3>1, <3>2, <3>3
    <3> QED
      BY <1>10, <3>4 DEF k5, x
  <2>10. Takes(p, 5, t, width)
    BY <1>2, <2>7, <2>8, <2>9 DEF Takes, F
  <2> QED
    BY <1>9, <2>10 DEF t, a, b, c, d, e, w, v, sig, width
<1>11. CASE Off(k5) > Len(buffer)
  <2> HIDE DEF a, b, c, d, e, F, w, v, sig, t, width
  <2>1. Off(p) + width > Len(buffer)
    <3> DEFINE x == Off(p)  y == Off(k3)  m == Len(buffer)
    <3>1. /\ x \in Nat /\ y \in Nat /\ Off(k2) = x + 36 /\ l \in Nat /\ m \in Nat
          /\ ~(y + l + 4 <= m)
      BY <1>2, <1>3, <1>5, <1>11
    <3>2. /\ w \in Nat /\ v \in Nat
          /\ IF y <= m THEN y = x + 36 + w /\ v = l ELSE x + 36 + w > m
      BY <1>8, <3>1
    <3>3. width = 36 + w + v + 4
      BY <1>9
    <3> HIDE DEF x, y, m
    <3>4. x + width > m
      <4>1. CASE y <= m
        BY <3>1, <3>2, <3>3, <4>1
      <4>2. CASE ~(y <= m)
        BY <3>1, <3>2, <3>3, <4>2
      <4> QED
        BY <4>1, <4>2
    <3> QED
      BY <3>4 DEF x, m
  <2>2. ~(Off(p + 5) <= Len(buffer))
    BY <1>2, <1>3, <1>5, <1>11 DEF k5
  <2>3. Takes(p, 5, t, width)
    BY <1>2, <2>1, <2>2 DEF Takes
  <2> QED
    BY <1>9, <2>3 DEF t, a, b, c, d, e, w, v, sig, width
<1>12. Off(k5) \in Nat
  BY <1>2, <1>5
<1> QED
  BY <1>3, <1>10, <1>11, <1>12

LEMMA OutputTakes ==
  ASSUME IsBlock, NEW i \in 1..shape.outs,
         NEW p, p = 10 + 5 * shape.ins + 3 * (i - 1), Done(p)
  PROVE  LET v == Parsing!VarIntAt(position + 8)
             w == Parsing!VarIntWidth(position + 8)
             code == position + 8 + w
         IN  /\ Takes(p, 3, <<Parsing!Bytes(position, 8), Parsing!Num(v),
                              Parsing!Bytes(code, v)>>, code + v - position)
             /\ code + v - position \in Int
<1> DEFINE F == Parsing!Fields(shape)  l == shape.len
           v == Parsing!VarIntAt(position + 8)  w == Parsing!VarIntWidth(position + 8)
           code == position + 8 + w
           a == Parsing!Bytes(position, 8)  c == Parsing!Num(v)  d == Parsing!Bytes(code, v)
           t == <<a, c, d>>  width == code + v - position
           k1 == p + 1  k2 == p + 2  k3 == p + 3
<1>1. OutputEncoded(shape, p, i)
  BY AllEncoded DEF IsBlock
<1>2. /\ p \in Nat /\ p + 3 <= FieldCount /\ FieldCount \in Nat /\ l \in Nat
  <2> DEFINE m == 5 * shape.ins  n == 3 * shape.outs  q == 3 * (i - 1)
  <2>1. FieldCount = 10 + m + n /\ m \in Nat /\ n \in Nat /\ l \in Nat
    BY FieldCountIs
  <2>2. p = 10 + m + q /\ q \in Nat /\ q + 3 <= n
    BY FieldCountIs
  <2> HIDE DEF m, n, q
  <2> QED
    BY <2>1, <2>2
<1>3. position = Off(p) + 1 /\ Len(buffer) \in Nat
  BY OffAre DEF Done, Reached, Off
<1>4. ReadsField(p, k1, 8) /\ ReadsNumber(k1, k2, l) /\ ReadsField(k2, k3, l)
  <2>1. /\ k1 \in 1..FieldCount /\ k2 \in 1..FieldCount /\ k3 \in 1..FieldCount
        /\ k1 - 1 = p /\ k2 - 1 = k1 /\ k3 - 1 = k2
    BY <1>2
  <2>2. /\ IsField(shape, k1, "value", i, 8)
        /\ EncodedNumber(shape, k2, l) /\ IsField(shape, k3, "script", i, l)
    BY <1>1 DEF OutputEncoded
  <2> HIDE DEF k1, k2, k3, l
  <2>3. ReadsField(k1 - 1, k1, 8)
    BY <2>1, <2>2, FieldRead
  <2>4. ReadsNumber(k2 - 1, k2, l)
    BY <1>2, <2>1, <2>2, NumberRead
  <2>5. ReadsField(k3 - 1, k3, l)
    BY <1>2, <2>1, <2>2, FieldRead
  <2> QED
    BY <2>1, <2>3, <2>4, <2>5
<1> HIDE DEF k1, k2, k3, l
<1>5. /\ Off(p) \in Nat /\ Off(k1) = Off(p) + 8
      /\ Off(k1) \in Nat /\ Off(k2) \in Nat /\ Off(k1) <= Off(k2)
      /\ Off(k3) = Off(k2) + l
  <2>1. Off(p) \in Nat /\ Off(k1) = Off(p) + 8 /\ Off(k3) = Off(k2) + l
    BY <1>4 DEF ReadsField
  <2>2. Off(k1) \in Nat /\ Off(k2) \in Nat /\ Off(k1) <= Off(k2)
    BY <1>4 DEF ReadsNumber
  <2> QED
    BY <2>1, <2>2
<1>6. position + 8 = Off(k1) + 1
  BY <1>3, <1>5
<1>7. w = Parsing!VarIntWidth(Off(k1) + 1) /\ v = Parsing!VarIntAt(Off(k1) + 1)
  BY <1>6
<1>8. w \in Nat /\ v \in Nat /\ F[k2] = Parsing!Num(l)
      /\ IF Off(k2) <= Len(buffer) THEN Off(k2) = Off(k1) + w /\ v = l
         ELSE Off(k1) + w > Len(buffer)
  BY <1>4, <1>7 DEF ReadsNumber
<1>9. code = Off(k1) + 1 + w /\ width = 8 + w + v /\ width \in Nat
  <2> DEFINE x == Off(p)  y == Off(k1)  z == position
  <2>1. z = x + 1 /\ y = x + 8 /\ x \in Nat /\ y \in Nat
    BY <1>3, <1>5
  <2>2. w \in Nat /\ v \in Nat
    BY <1>8
  <2>3. code = z + 8 + w /\ width = code + v - z
    OBVIOUS
  <2> HIDE DEF w, v, code, width, x, y, z
  <2>4. code = y + 1 + w /\ width = 8 + w + v /\ width \in Nat
    BY <2>1, <2>2, <2>3
  <2> QED
    BY <2>4 DEF y
<1>10. CASE Off(k3) <= Len(buffer)
  <2>1. Off(k1) <= Len(buffer) /\ Off(k2) <= Len(buffer)
    <3> DEFINE x == Off(k1)  y == Off(k2)  z == Off(k3)  m == Len(buffer)
    <3>1. /\ x \in Nat /\ y \in Nat /\ l \in Nat /\ m \in Nat
          /\ x <= y /\ z = y + l /\ z <= m
      BY <1>2, <1>3, <1>5, <1>10
    <3> HIDE DEF x, y, z, m
    <3>2. x <= m /\ y <= m
      BY <3>1
    <3> QED
      BY <3>2 DEF x, y, m
  <2>2. Off(k2) = Off(k1) + w /\ v = l
    BY <1>8, <2>1
  <2>3. a = F[k1]
    <3>1. a = Parsing!Bytes(Off(p) + 1, 8)
      BY <1>3
    <3> HIDE DEF a
    <3> QED
      BY <1>4, <2>1, <3>1 DEF ReadsField
  <2>4. d = F[k3]
    <3>1. code = Off(k2) + 1
      <4> HIDE DEF w, v, code
      <4> QED
        BY <1>5, <1>8, <1>9, <2>2
    <3>2. d = Parsing!Bytes(Off(k2) + 1, l)
      <4> HIDE DEF v, code
      <4> QED
        BY <2>2, <3>1
    <3> HIDE DEF d
    <3> QED
      BY <1>4, <1>10, <3>2 DEF ReadsField
  <2>5. c = F[k2]
    BY <1>8, <2>2
  <2> HIDE DEF a, c, d, F, w, v, code
  <2>6. IsList(t) /\ Len(t) = 3 /\ t[1] = F[k1] /\ t[2] = F[k2] /\ t[3] = F[k3]
    BY <2>3, <2>4, <2>5 DEF IsList
  <2> HIDE DEF t, width
  <2>7. \A j \in 1..3 : t[j] = F[p + j]
    BY <2>6 DEF k1, k2, k3
  <2>8. Off(p) + width = Off(p + 3) /\ Off(p + 3) <= Len(buffer)
    <3> DEFINE x == Off(p)
    <3>1. w \in Nat /\ v = l /\ l \in Nat /\ x \in Nat
      BY <1>2, <1>5, <1>8, <2>2
    <3>2. Off(k3) = Off(k2) + l /\ Off(k2) = x + 8 + w
      BY <1>5, <2>2, <3>1
    <3>3. width = 8 + w + v
      BY <1>9
    <3> HIDE DEF x
    <3>4. x + width = Off(k3)
      BY <3>1, <3>2, <3>3
    <3> QED
      BY <1>10, <3>4 DEF k3, x
  <2>9. Takes(p, 3, t, width)
    BY <1>2, <2>6, <2>7, <2>8 DEF Takes, F
  <2> QED
    BY <1>9, <2>9 DEF t, a, c, d, w, v, code, width
<1>11. CASE Off(k3) > Len(buffer)
  <2> HIDE DEF a, c, d, F, w, v, code, t, width
  <2>1. Off(p) + width > Len(buffer)
    <3> DEFINE x == Off(p)  y == Off(k2)  m == Len(buffer)
    <3>1. /\ x \in Nat /\ y \in Nat /\ Off(k1) = x + 8 /\ l \in Nat /\ m \in Nat
          /\ ~(y + l <= m)
      BY <1>2, <1>3, <1>5, <1>11
    <3>2. /\ w \in Nat /\ v \in Nat
          /\ IF y <= m THEN y = x + 8 + w /\ v = l ELSE x + 8 + w > m
      BY <1>8, <3>1
    <3>3. width = 8 + w + v
      BY <1>9
    <3> HIDE DEF x, y, m
    <3>4. x + width > m
      <4>1. CASE y <= m
        BY <3>1, <3>2, <3>3, <4>1
      <4>2. CASE ~(y <= m)
        BY <3>1, <3>2, <3>3, <4>2
      <4> QED
        BY <4>1, <4>2
    <3> QED
      BY <3>4 DEF x, m
  <2>2. ~(Off(p + 3) <= Len(buffer))
    BY <1>2, <1>3, <1>5, <1>11 DEF k3
  <2>3. Takes(p, 3, t, width)
    BY <1>2, <2>1, <2>2 DEF Takes
  <2> QED
    BY <1>9, <2>3 DEF t, a, c, d, w, v, code, width
<1>12. Off(k3) \in Nat
  BY <1>2, <1>5
<1> QED
  BY <1>3, <1>10, <1>11, <1>12

(***************************************************************************)
(* A block, field after field.                                             *)
(***************************************************************************)
InBlock ==
  \/ step = "header" /\ Done(0)
  \/ step = "tx" /\ Done(7)
  \/ step = "inputs" /\ left \in 0..shape.ins /\ Done(9 + 5 * (shape.ins - left))
  \/ /\ step = "outputs" /\ left \in 0..shape.outs
     /\ Done(10 + 5 * shape.ins + 3 * (shape.outs - left))
  \/ step = "returned" /\ Done(FieldCount)
  \/ step = "threw" /\ shape.cut > 4 /\ \E q : Done(q)

BlockInv == task = "block" => IsBlock /\ left \in Nat /\ InBlock

LEMMA Threw ==
  ASSUME BlockInv, task = "block", step' = "threw", Kept, shape.cut > 4, NEW q, Done(q)
  PROVE  BlockInv'
<1>1. /\ task' = task /\ shape' = shape /\ buffer' = buffer /\ position' = position
      /\ left' = left /\ parsed' = parsed
  BY DEF Kept
<1>2. IsBlock' /\ (left \in Nat)'
  BY <1>1 DEF BlockInv, IsBlock
<1>3. Done(q)'
  BY <1>1 DEF Done
<1>4. InBlock'
  BY <1>1, <1>3 DEF InBlock
<1> QED
  BY <1>2, <1>4 DEF BlockInv

LEMMA BlockSame ==
  ASSUME BlockInv, task = "block", UNCHANGED <<task, shape, buffer>>
  PROVE  IsBlock' /\ FieldCount' = FieldCount
BY DEF BlockInv, IsBlock, FieldCount

LEMMA HeaderKeeps ==
  ASSUME BlockInv, task = "block", Parsing!ParseHeader
  PROVE  BlockInv'
<1>1. step = "header" /\ Done(0) /\ IsBlock
  BY DEF Parsing!ParseHeader, BlockInv, InBlock
<1> DEFINE list == <<Parsing!Bytes(position, 4), Parsing!Bytes(position + 4, 32),
                     Parsing!Bytes(position + 36, 32), Parsing!Bytes(position + 68, 4),
                     Parsing!Bytes(position + 72, 4), Parsing!Bytes(position + 76, 4),
                     Parsing!Num(Parsing!VarIntAt(position + 80))>>
           width == 80 + Parsing!VarIntWidth(position + 80)
<1>2. Takes(0, 7, list, width)
  BY <1>1, HeaderTakes
<1>3. Parsing!Read(list, width, "tx", 0)
  BY DEF Parsing!ParseHeader
<1>4. width \in Int
  BY DEF Parsing!VarIntWidth
<1> HIDE DEF list, width
<1>5. \/ step' = "threw" /\ Kept /\ shape.cut > 4
      \/ /\ Off(0 + 7) <= Len(buffer) /\ step' = "tx" /\ left' = 0
         /\ UNCHANGED <<task, shape, buffer>>
         /\ Reached(0 + 7, position', parsed', shape, buffer)
  BY <1>1, <1>2, <1>3, <1>4, ReadStep
<1>6. CASE step' = "threw" /\ Kept /\ shape.cut > 4
  BY <1>1, <1>6, Threw
<1>7. CASE step' = "tx"
  <2>1. /\ left' = 0 /\ task' = task /\ shape' = shape /\ buffer' = buffer
        /\ Reached(7, position', parsed', shape, buffer)
    BY <1>5, <1>7
  <2>2. Done(7)' /\ IsBlock'
    BY <2>1, BlockSame DEF Done
  <2> QED
    BY <1>7, <2>1, <2>2 DEF BlockInv, InBlock
<1> QED
  BY <1>5, <1>6, <1>7

LEMMA StartKeeps ==
  ASSUME BlockInv, task = "block", Parsing!ParseTxStart
  PROVE  BlockInv'
<1>1. step = "tx" /\ Done(7) /\ IsBlock
  BY DEF Parsing!ParseTxStart, BlockInv, InBlock
<1> DEFINE list == <<Parsing!Bytes(position, 4), Parsing!Num(Parsing!VarIntAt(position + 4))>>
           width == 4 + Parsing!VarIntWidth(position + 4)
           todo == Parsing!VarIntAt(position + 4)
<1>2. Takes(7, 2, list, width) /\ width \in Int
      /\ (Off(9) <= Len(buffer) => todo = shape.ins)
  BY <1>1, StartTakes
<1>3. Parsing!Read(list, width, "inputs", todo)
  BY DEF Parsing!ParseTxStart
<1> HIDE DEF list, width, todo
<1>4. \/ step' = "threw" /\ Kept /\ shape.cut > 4
      \/ /\ Off(7 + 2) <= Len(buffer) /\ step' = "inputs" /\ left' = todo
         /\ UNCHANGED <<task, shape, buffer>>
         /\ Reached(7 + 2, position', parsed', shape, buffer)
  BY <1>1, <1>2, <1>3, ReadStep
<1>5. CASE step' = "threw" /\ Kept /\ shape.cut > 4
  BY <1>1, <1>5, Threw
<1>6. CASE step' = "inputs"
  <2>1. /\ left' = shape.ins /\ task' = task /\ shape' = shape /\ buffer' = buffer
        /\ Reached(9, position', parsed', shape, buffer)
    BY <1>2, <1>4, <1>6
  <2>2. shape.ins \in Nat
    BY <1>1, FieldCountIs
  <2>3. Done(9)' /\ IsBlock'
    BY <2>1, BlockSame DEF Done
  <2>4. (9 + 5 * (shape.ins - left))' = 9
    BY <2>1, <2>2
  <2>5. Done(9 + 5 * (shape.ins - left))'
    BY <2>1, <2>3, <2>4 DEF Done
  <2> QED
    BY <1>6, <2>1, <2>2, <2>3, <2>5 DEF BlockInv, InBlock
<1> QED
  BY <1>4, <1>5, <1>6

LEMMA InputKeeps ==
  ASSUME BlockInv, task = "block", Parsing!ParseTxInput
  PROVE  BlockInv'
<1> DEFINE p == 9 + 5 * (shape.ins - left)  i == shape.ins - left + 1
           v == Parsing!VarIntAt(position + 36)  w == Parsing!VarIntWidth(position + 36)
           sig == position + 36 + w  width == sig + v + 4 - position
           list == <<Parsing!Bytes(position, 32), Parsing!Bytes(position + 32, 4),
                     Parsing!Num(v), Parsing!Bytes(sig, v), Parsing!Bytes(sig + v, 4)>>
<1>1. step = "inputs" /\ left > 0 /\ left \in 0..shape.ins /\ Done(p) /\ IsBlock
  BY DEF Parsing!ParseTxInput, BlockInv, InBlock
<1>2. shape.ins \in Nat /\ i \in 1..shape.ins /\ p = 9 + 5 * (i - 1)
  BY <1>1, FieldCountIs
<1>3. Takes(p, 5, list, width) /\ width \in Int
  <2> HIDE DEF p, i
  <2> QED
    BY <1>1, <1>2, InputTakes
<1>4. Parsing!Read(list, width, "inputs", left - 1)
  BY DEF Parsing!ParseTxInput
<1> HIDE DEF list, width, p, i
<1>5. \/ step' = "threw" /\ Kept /\ shape.cut > 4
      \/ /\ Off(p + 5) <= Len(buffer) /\ step' = "inputs" /\ left' = left - 1
         /\ UNCHANGED <<task, shape, buffer>>
         /\ Reached(p + 5, position', parsed', shape, buffer)
  BY <1>1, <1>3, <1>4, ReadStep
<1>6. CASE step' = "threw" /\ Kept /\ shape.cut > 4
  BY <1>1, <1>6, Threw
<1>7. CASE step' = "inputs"
  <2>1. /\ left' = left - 1 /\ task' = task /\ shape' = shape /\ buffer' = buffer
        /\ Reached(p + 5, position', parsed', shape, buffer)
    BY <1>5, <1>7
  <2>2. IsBlock' /\ left' \in 0..shape.ins /\ left' \in Nat
    BY <1>1, <1>2, <2>1, BlockSame
  <2>3. p + 5 = 9 + 5 * (shape.ins - (left - 1))
    BY <1>1, <1>2 DEF p
  <2>4. (9 + 5 * (shape.ins - left))' = p + 5
    BY <2>1, <2>3
  <2>5. Done(9 + 5 * (shape.ins - left))'
    BY <2>1, <2>4 DEF Done
  <2> QED
    BY <1>7, <2>1, <2>2, <2>5 DEF BlockInv, InBlock
<1> QED
  BY <1>5, <1>6, <1>7

LEMMA OutCountKeeps ==
  ASSUME BlockInv, task = "block", Parsing!ParseOutCount
  PROVE  BlockInv'
<1> DEFINE p == 9 + 5 * shape.ins
           todo == Parsing!VarIntAt(position)  width == Parsing!VarIntWidth(position)
           list == <<Parsing!Num(Parsing!VarIntAt(position))>>
<1>1. step = "inputs" /\ left = 0 /\ Done(p) /\ IsBlock
  <2>1. step = "inputs" /\ left = 0 /\ IsBlock /\ Done(9 + 5 * (shape.ins - left))
    BY DEF Parsing!ParseOutCount, BlockInv, InBlock
  <2>2. shape.ins \in Nat
    BY <2>1, FieldCountIs
  <2>3. 9 + 5 * (shape.ins - left) = p
    BY <2>1, <2>2
  <2> HIDE DEF p
  <2> QED
    BY <2>1, <2>3
<1>2. /\ Takes(p, 1, list, width) /\ width \in Int
      /\ Off(p + 1) <= Len(buffer) => todo = shape.outs
  <2> HIDE DEF p
  <2>1. p = 9 + 5 * shape.ins
    BY DEF p
  <2> QED
    BY <1>1, <2>1, OutCountTakes
<1>3. Parsing!Read(list, width, "outputs", todo)
  BY DEF Parsing!ParseOutCount
<1>4. shape.ins \in Nat /\ shape.outs \in Nat
  BY <1>1, FieldCountIs
<1> HIDE DEF list, width, todo, p
<1>5. \/ step' = "threw" /\ Kept /\ shape.cut > 4
      \/ /\ Off(p + 1) <= Len(buffer) /\ step' = "outputs" /\ left' = todo
         /\ UNCHANGED <<task, shape, buffer>>
         /\ Reached(p + 1, position', parsed', shape, buffer)
  BY <1>1, <1>2, <1>3, ReadStep
<1>6. CASE step' = "threw" /\ Kept /\ shape.cut > 4
  BY <1>1, <1>6, Threw
<1>7. CASE step' = "outputs"
  <2>1. /\ left' = shape.outs /\ task' = task /\ shape' = shape /\ buffer' = buffer
        /\ Reached(p + 1, position', parsed', shape, buffer)
    BY <1>2, <1>5, <1>7
  <2>2. IsBlock'
    BY <2>1, BlockSame
  <2>3. (10 + 5 * shape.ins + 3 * (shape.outs - left))' = p + 1
    BY <1>4, <2>1 DEF p
  <2>4. Done(10 + 5 * shape.ins + 3 * (shape.outs - left))'
    BY <2>1, <2>3 DEF Done
  <2>5. left' \in 0..shape.outs /\ left' \in Nat
    BY <1>4, <2>1
  <2> QED
    BY <1>7, <2>1, <2>2, <2>4, <2>5 DEF BlockInv, InBlock
<1> QED
  BY <1>5, <1>6, <1>7

LEMMA OutputKeeps ==
  ASSUME BlockInv, task = "block", Parsing!ParseTxOutput
  PROVE  BlockInv'
<1> DEFINE p == 10 + 5 * shape.ins + 3 * (shape.outs - left)  i == shape.outs - left + 1
           v == Parsing!VarIntAt(position + 8)  w == Parsing!VarIntWidth(position + 8)
           code == position + 8 + w  width == code + v - position
           list == <<Parsing!Bytes(position, 8), Parsing!Num(v), Parsing!Bytes(code, v)>>
<1>1. step = "outputs" /\ left > 0 /\ left \in 0..shape.outs /\ Done(p) /\ IsBlock
  BY DEF Parsing!ParseTxOutput, BlockInv, InBlock
<1>2. /\ shape.ins \in Nat /\ shape.outs \in Nat /\ i \in 1..shape.outs
      /\ p = 10 + 5 * shape.ins + 3 * (i - 1)
  BY <1>1, FieldCountIs
<1>3. Takes(p, 3, list, width) /\ width \in Int
  <2> HIDE DEF p, i
  <2> QED
    BY <1>1, <1>2, OutputTakes
<1>4. Parsing!Read(list, width, "outputs", left - 1)
  BY DEF Parsing!ParseTxOutput
<1> HIDE DEF list, width, p, i
<1>5. \/ step' = "threw" /\ Kept /\ shape.cut > 4
      \/ /\ Off(p + 3) <= Len(buffer) /\ step' = "outputs" /\ left' = left - 1
         /\ UNCHANGED <<task, shape, buffer>>
         /\ Reached(p + 3, position', parsed', shape, buffer)
  BY <1>1, <1>3, <1>4, ReadStep
<1>6. CASE step' = "threw" /\ Kept /\ shape.cut > 4
  BY <1>1, <1>6, Threw
<1>7. CASE step' = "outputs"
  <2>1. /\ left' = left - 1 /\ task' = task /\ shape' = shape /\ buffer' = buffer
        /\ Reached(p + 3, position', parsed', shape, buffer)
    BY <1>5, <1>7
  <2>2. IsBlock' /\ left' \in 0..shape.outs /\ left' \in Nat
    BY <1>1, <1>2, <2>1, BlockSame
  <2>3. p + 3 = 10 + 5 * shape.ins + 3 * (shape.outs - (left - 1))
    BY <1>1, <1>2 DEF p
  <2>4. (10 + 5 * shape.ins + 3 * (shape.outs - left))' = p + 3
    BY <2>1, <2>3
  <2>5. Done(10 + 5 * shape.ins + 3 * (shape.outs - left))'
    BY <2>1, <2>4 DEF Done
  <2> QED
    BY <1>7, <2>1, <2>2, <2>5 DEF BlockInv, InBlock
<1> QED
  BY <1>5, <1>6, <1>7

LEMMA BlockReturns ==
  ASSUME BlockInv, task = "block", Parsing!ReturnBlock
  PROVE  BlockInv'
<1>1. /\ step = "outputs" /\ left = 0 /\ step' = "returned" /\ IsBlock
      /\ Done(10 + 5 * shape.ins + 3 * (shape.outs - left))
      /\ task' = task /\ shape' = shape /\ buffer' = buffer /\ position' = position
      /\ left' = left /\ parsed' = parsed
  BY DEF Parsing!ReturnBlock, BlockInv, InBlock
<1>2. 10 + 5 * shape.ins + 3 * (shape.outs - left) = FieldCount
  <2>1. shape.outs - left = shape.outs
    BY <1>1, FieldCountIs
  <2> QED
    BY <1>1, <2>1, FieldCountIs
<1>3. Done(FieldCount)
  BY <1>1, <1>2
<1>4. IsBlock' /\ FieldCount' = FieldCount /\ left' \in Nat
  BY <1>1, BlockSame
<1>5. Done(FieldCount)'
  BY <1>1, <1>3, <1>4 DEF Done
<1> QED
  BY <1>1, <1>4, <1>5 DEF BlockInv, InBlock

LEMMA BlockSays ==
  ASSUME BlockInv, task = "block"
  PROVE  /\ position \in Nat \ {0} /\ position <= Len(buffer) + 1
         /\ Parsing!ParsedAsWritten /\ Parsing!ThrownWhenCut
<1> DEFINE F == Parsing!Fields(shape)
<1>1. IsBlock /\ InBlock
  BY DEF BlockInv
<1>2. PICK q : Done(q) /\ (step = "returned" => q = FieldCount)
  BY <1>1 DEF InBlock
<1>3. /\ q \in 0..Len(F) /\ Begins(parsed, F) /\ Len(parsed) = q
      /\ position = Off(q) + 1 /\ position <= Len(buffer) + 1
  BY <1>2 DEF Done, Reached, Off
<1>4. Off(q) \in Nat
  BY <1>1, <1>3, OffAre DEF FieldCount
<1>5. Parsing!IsPrefix(parsed, F)
  <2>1. /\ IsList(parsed) /\ IsList(F) /\ Len(parsed) <= Len(F) /\ Len(parsed) \in Nat
        /\ \A j \in 1..Len(parsed) : F[j] = parsed[j]
    BY <1>3 DEF Begins, IsList
  <2> HIDE DEF F
  <2> DEFINE a == SubSeq(parsed, 1, Len(parsed))  b == SubSeq(F, 1, Len(parsed))
  <2>2. Begins(a, parsed) /\ Len(a) = Len(parsed)
    BY <2>1, FirstBegins
  <2>3. Begins(b, F) /\ Len(b) = Len(parsed)
    BY <2>1, FirstBegins
  <2> HIDE DEF a, b
  <2>4. a = b
    BY <2>1, <2>2, <2>3, Same DEF Begins
  <2> QED
    BY <2>1, <2>4 DEF Parsing!IsPrefix, a, b
<1>6. step = "returned" => parsed = F
  BY <1>2, <1>3, Same DEF Begins, FieldCount
<1>7. step = "threw" => shape.cut > 4
  BY <1>1 DEF InBlock
<1>8. step = "returned" => shape.cut <= 4
  <2> SUFFICES ASSUME step = "returned" PROVE shape.cut <= 4
    OBVIOUS
  <2>1. Off(q) = Size(shape) /\ Size(shape) \in Nat /\ Len(buffer) \in Nat
    BY <1>1, <1>2, OffAre
  <2>2. shape.cut \in Nat /\ (Len(buffer) = IF shape.cut <= Size(shape) + 4
                                            THEN Size(shape) + 4 - shape.cut ELSE 0)
    BY <1>1 DEF IsBlock, IsBuffer, IsShape
  <2>3. Size(shape) >= 4
    <3>1. HeadIs(shape) /\ 1 \in 1..FieldCount /\ 1 \in 0..FieldCount
      BY <1>1, AllEncoded, FieldCountIs DEF IsBlock
    <3>2. ReadsField(1 - 1, 1, 4)
      BY <1>1, <3>1, FieldRead DEF HeadIs
    <3>3. 1 - 1 = 0
      OBVIOUS
    <3>4. Off(1) = 4
      BY <1>1, <3>2, <3>3, OffAre DEF ReadsField
    <3> QED
      BY <1>1, <3>1, <3>4, OffAre
  <2> QED
    BY <1>3, <2>1, <2>2, <2>3
<1> QED
  BY <1>3, <1>4, <1>5, <1>6, <1>7, <1>8 DEF Parsing!ParsedAsWritten, Parsing!ThrownWhenCut

(***************************************************************************)
(* A script, an opcode or a push after the other.                          *)
(***************************************************************************)
Item(x) ==
  CASE x[1] = "data" -> <<Parsing!Num(Len(x[2]))>> \o x[2]
    [] x[1] = "OP_CHECKSIG" -> <<Parsing!Num(172)>>
    [] x[1] = "UNKNOWN" -> <<Parsing!Num(x[2])>>
Items(list) == [k \in 1..Len(list) |-> Item(list[k])]

\* What a list spells is the script as far as it has been read.
Spells(list) ==
  /\ IsList(list) /\ AllLists(Items(list)) /\ Len(Parsing!Script(list)) \in Nat
  /\ \A k \in 1..Len(Parsing!Script(list)) : Parsing!Script(list)[k] = Parsing!At(k)

LEMMA ScriptIsItems ==
  ASSUME NEW list
  PROVE  Parsing!Script(list) = Parsing!FlattenSeq(Items(list))
BY Zenon DEF Parsing!Script, Items, Item

LEMMA SpellsMore ==
  ASSUME NEW list, Spells(list), NEW x, IsList(Item(x)),
         \A j \in 1..Len(Item(x)) :
            Item(x)[j] = Parsing!At(Len(Parsing!Script(list)) + j)
  PROVE  /\ Spells(Append(list, x))
         /\ Len(Parsing!Script(Append(list, x))) =
              Len(Parsing!Script(list)) + Len(Item(x))
<1> DEFINE more == Append(list, x)  U == Items(list)  V == Append(U, Item(x))
           s == Parsing!Script(list)  t == Parsing!Script(more)  e == Item(x)
<1>1. /\ IsList(more) /\ Len(more) = Len(list) + 1 /\ more[Len(list) + 1] = x
      /\ \A k \in 1..Len(list) : more[k] = list[k]
  BY Lengthened DEF Spells
<1>2. AllLists(U) /\ Len(U) = Len(list) /\ Len(list) \in Nat
      /\ \A k \in 1..Len(list) : U[k] = Item(list[k])
  BY DEF Spells, Items, IsList
<1> HIDE DEF more, U
<1>3. /\ IsList(V) /\ Len(V) = Len(U) + 1 /\ V[Len(U) + 1] = e
      /\ \A k \in 1..Len(U) : V[k] = U[k]
  BY <1>2, Lengthened DEF AllLists
<1>4. /\ Parsing!FlattenSeq(V) = Parsing!FlattenSeq(U) \o e
      /\ IsList(Parsing!FlattenSeq(U)) /\ AllLists(V)
  BY <1>2, FlattenOne
<1> HIDE DEF V, e
<1>5. Items(more) = V
  <2> DEFINE W == Items(more)
  <2>1. Len(more) \in Nat /\ W = [k \in 1..Len(more) |-> Item(more[k])]
    BY <1>1, <1>2 DEF Items
  <2>2. IsList(W) /\ Len(W) = Len(V) /\ \A k \in 1..Len(W) : W[k] = Item(more[k])
    BY <1>1, <1>2, <1>3, <2>1 DEF IsList
  <2> HIDE DEF W
  <2>3. ASSUME NEW k \in 1..Len(W) PROVE W[k] = V[k]
    <3>1. CASE k = Len(list) + 1
      BY <1>1, <1>2, <1>3, <2>2, <3>1 DEF e
    <3>2. CASE k # Len(list) + 1
      <4>1. k \in 1..Len(list)
        BY <1>2, <1>3, <2>2, <3>2
      <4> QED
        BY <1>1, <1>2, <1>3, <2>2, <4>1
    <3> QED
      BY <3>1, <3>2
  <2>4. W = V
    BY <1>3, <2>2, <2>3, Same
  <2> QED
    BY <2>4 DEF W
<1>6. s = Parsing!FlattenSeq(U) /\ t = Parsing!FlattenSeq(V)
  BY <1>5, ScriptIsItems DEF U
<1>7. IsList(s) /\ IsList(e)
  BY <1>4, <1>6 DEF e
<1>8. (\A j \in 1..Len(e) : e[j] = Parsing!At(Len(s) + j))
      /\ \A k \in 1..Len(s) : s[k] = Parsing!At(k)
  BY DEF Spells, e
<1>9. t = s \o e
  BY <1>4, <1>6
<1> HIDE DEF s, t
<1>10. IsJoin(t, s, e)
  BY <1>7, <1>9, Joins
<1>11. Len(s) \in Nat /\ Len(e) \in Nat /\ Len(t) = Len(s) + Len(e)
  BY <1>7, <1>10 DEF IsList, IsJoin
<1>12. ASSUME NEW k \in 1..Len(t) PROVE t[k] = Parsing!At(k)
  <2>1. CASE k <= Len(s)
    <3>1. k \in 1..Len(s)
      BY <1>11, <2>1
    <3> QED
      BY <1>8, <1>10, <3>1 DEF IsJoin
  <2>2. CASE k > Len(s)
    <3>1. PICK j : j = k - Len(s)
      OBVIOUS
    <3>2. j \in 1..Len(e) /\ Len(s) + j = k
      BY <1>11, <2>2, <3>1
    <3>3. t[Len(s) + j] = e[j] /\ e[j] = Parsing!At(Len(s) + j)
      BY <1>8, <1>10, <3>2 DEF IsJoin
    <3> QED
      BY <3>2, <3>3
  <2> QED
    BY <1>11, <2>1, <2>2
<1>13. Spells(more)
  BY <1>1, <1>4, <1>5, <1>11, <1>12 DEF Spells, t
<1> QED
  BY <1>11, <1>13 DEF more, s, t, e

ScriptInv ==
  task = "script" =>
    /\ IsList(buffer) /\ left = 0 /\ step \in {"opcode", "returned"}
    /\ \A k \in 1..Len(buffer) : \E b \in 0..255 : buffer[k] = Parsing!Num(b)
    /\ Spells(parsed) /\ position = 1 + Len(Parsing!Script(parsed))
    /\ step = "returned" => position > Len(buffer)

LEMMA SpellsSame ==
  ASSUME NEW list, buffer' = buffer
  PROVE  (\A k : Parsing!At(k)' = Parsing!At(k))
         /\ (Spells(parsed)' <=> /\ IsList(parsed') /\ AllLists(Items(parsed'))
                                 /\ Len(Parsing!Script(parsed')) \in Nat
                                 /\ \A k \in 1..Len(Parsing!Script(parsed')) :
                                      Parsing!Script(parsed')[k] = Parsing!At(k))
<1>1. \A k : Parsing!At(k)' = Parsing!At(k)
  BY DEF Parsing!At
<1> QED
  BY <1>1 DEF Spells

LEMMA OpcodeKeeps ==
  ASSUME ScriptInv, task = "script", Parsing!ParseOpcode
  PROVE  ScriptInv'
<1> DEFINE s == Parsing!Script(parsed)  byte == Parsing!Value(Parsing!At(position))
<1>1. /\ step = "opcode" /\ position <= Len(buffer) /\ step' = step /\ left' = left
      /\ task' = task /\ buffer' = buffer
  BY DEF Parsing!ParseOpcode
<1>2. /\ IsList(buffer) /\ Len(buffer) \in Nat /\ left = 0 /\ Spells(parsed)
      /\ position = 1 + Len(s) /\ Len(s) \in Nat /\ step \in {"opcode", "returned"}
      /\ \A k \in 1..Len(buffer) : \E b \in 0..255 : buffer[k] = Parsing!Num(b)
  BY DEF ScriptInv, IsList, Spells
<1>3. byte \in 0..255 /\ Parsing!At(position) = Parsing!Num(byte)
  <2>1. position \in 1..Len(buffer)
    BY <1>1, <1>2
  <2>2. PICK b \in 0..255 : buffer[position] = Parsing!Num(b)
    BY <1>2, <2>1
  <2>3. Parsing!At(position) = Parsing!Num(b)
    BY <2>1, <2>2 DEF Parsing!At
  <2>4. byte = b
    BY <2>3, ValueOfNum
  <2> QED
    BY <2>3, <2>4
<1>4. \/ /\ byte \in 1..75 /\ position' = position + 1 + byte
         /\ parsed' = Append(parsed, <<"data", Parsing!Bytes(position + 1, byte)>>)
      \/ /\ byte \notin 1..75 /\ position' = position + 1
         /\ parsed' = Append(parsed, IF byte = 172 THEN <<"OP_CHECKSIG">>
                                     ELSE <<"UNKNOWN", byte>>)
  BY DEF Parsing!ParseOpcode
<1> HIDE DEF byte, s
<1>0. position \in Nat /\ byte \in Nat
  BY <1>2, <1>3
<1>5. PICK x : /\ parsed' = Append(parsed, x) /\ IsList(Item(x))
               /\ position' = position + Len(Item(x)) /\ Len(Item(x)) \in Nat
               /\ \A j \in 1..Len(Item(x)) : Item(x)[j] = Parsing!At(Len(s) + j)
  <2>1. CASE byte \in 1..75
    <3> DEFINE d == Parsing!Bytes(position + 1, byte)  x == <<"data", d>>
               a == <<Parsing!Num(byte)>>
    <3>1. IsList(d) /\ Len(d) = byte
          /\ \A j \in 1..byte : d[j] = Parsing!At((position + 1) + j - 1)
      BY <1>3 DEF Parsing!Bytes, IsList
    <3>2. Item(x) = <<Parsing!Num(Len(d))>> \o d
      <4> HIDE DEF d
      <4> QED
        BY DEF Item
    <3>3. IsList(a) /\ Len(a) = 1 /\ a[1] = Parsing!Num(byte)
      BY DEF IsList
    <3>4. parsed' = Append(parsed, x) /\ position' = position + 1 + byte
      BY <1>4, <2>1
    <3> HIDE DEF a, d, x
    <3>5. Item(x) = a \o d
      BY <3>1, <3>2 DEF a
    <3>6. IsJoin(Item(x), a, d)
      BY <3>1, <3>3, <3>5, Joins
    <3>7. IsList(Item(x)) /\ Len(Item(x)) = 1 + byte /\ Item(x)[1] = Parsing!Num(byte)
          /\ \A j \in 1..byte : Item(x)[1 + j] = d[j]
      BY <3>1, <3>3, <3>6 DEF IsJoin
    <3>8. ASSUME NEW j \in 1..Len(Item(x)) PROVE Item(x)[j] = Parsing!At(Len(s) + j)
      <4>1. CASE j = 1
        BY <1>2, <1>3, <3>7, <4>1
      <4>2. CASE j # 1
        <5>1. PICK i : i = j - 1
          OBVIOUS
        <5>2. i \in 1..byte /\ 1 + i = j /\ (position + 1) + i - 1 = Len(s) + j
          BY <1>2, <1>3, <3>7, <4>2, <5>1
        <5> QED
          BY <3>1, <3>7, <5>2
      <4> QED
        BY <4>1, <4>2
    <3>9. position' = position + Len(Item(x)) /\ Len(Item(x)) \in Nat
      <4> DEFINE m == Len(Item(x))
      <4>1. m = 1 + byte
        BY <3>7
      <4> HIDE DEF m
      <4>2. position' = position + m /\ m \in Nat
        BY <1>0, <3>4, <4>1
      <4> QED
        BY <4>2 DEF m
    <3> QED
      BY <3>4, <3>7, <3>8, <3>9
  <2>2. CASE byte \notin 1..75
    <3> DEFINE x == IF byte = 172 THEN <<"OP_CHECKSIG">> ELSE <<"UNKNOWN", byte>>
    <3>1. Item(x) = <<Parsing!Num(byte)>>
      <4>1. CASE byte = 172
        BY <4>1 DEF Item
      <4>2. CASE byte # 172
        BY <4>2 DEF Item
      <4> QED
        BY <4>1, <4>2
    <3>2. parsed' = Append(parsed, x) /\ position' = position + 1
      BY <1>4, <2>2
    <3> HIDE DEF x
    <3>3. IsList(Item(x)) /\ Len(Item(x)) = 1 /\ Item(x)[1] = Parsing!Num(byte)
      BY <3>1 DEF IsList
    <3>4. \A j \in 1..Len(Item(x)) : Item(x)[j] = Parsing!At(Len(s) + j)
      BY <1>2, <1>3, <3>3
    <3>5. position' = position + Len(Item(x)) /\ Len(Item(x)) \in Nat
      BY <3>2, <3>3
    <3> QED
      BY <3>2, <3>3, <3>4, <3>5
  <2> QED
    BY <2>1, <2>2
<1>6. /\ Spells(Append(parsed, x))
      /\ Len(Parsing!Script(Append(parsed, x))) = Len(s) + Len(Item(x))
  BY <1>2, <1>5, SpellsMore DEF s
<1>7. Spells(parsed)'
  BY <1>1, <1>5, <1>6, SpellsSame DEF Spells
<1>8. (position = 1 + Len(Parsing!Script(parsed)))'
  BY <1>2, <1>5, <1>6
<1>9. (\A k \in 1..Len(buffer) : \E b \in 0..255 : buffer[k] = Parsing!Num(b))'
  BY <1>1, <1>2 DEF Parsing!Num
<1> QED
  BY <1>1, <1>2, <1>7, <1>8, <1>9 DEF ScriptInv

LEMMA ScriptReturns ==
  ASSUME ScriptInv, task = "script", Parsing!ReturnScript
  PROVE  ScriptInv'
<1>1. /\ step' = "returned" /\ position > Len(buffer) /\ task' = task /\ buffer' = buffer
      /\ left' = left /\ position' = position /\ parsed' = parsed
  BY DEF Parsing!ReturnScript
<1>2. Spells(parsed)'
  BY <1>1, SpellsSame DEF ScriptInv, Spells
<1>3. (\A k \in 1..Len(buffer) : \E b \in 0..255 : buffer[k] = Parsing!Num(b))'
  BY <1>1 DEF ScriptInv, Parsing!Num
<1> QED
  BY <1>1, <1>2, <1>3 DEF ScriptInv

LEMMA ScriptSays ==
  ASSUME ScriptInv, task = "script"
  PROVE  position \in Nat \ {0} /\ left \in Nat /\ Parsing!StackSpellsScript
<1>1. /\ IsList(buffer) /\ Len(buffer) \in Nat /\ left = 0 /\ Spells(parsed)
      /\ position = 1 + Len(Parsing!Script(parsed)) /\ Len(Parsing!Script(parsed)) \in Nat
      /\ step = "returned" => position > Len(buffer)
  BY DEF ScriptInv, IsList, Spells
<1>2. \A k \in 1..Len(Parsing!Script(parsed)) :
        Parsing!Script(parsed)[k] = IF k <= Len(buffer) THEN buffer[k] ELSE Parsing!Num(0)
  BY <1>1 DEF Spells, Parsing!At
<1>3. step = "returned" => Len(Parsing!Script(parsed)) >= Len(buffer)
  BY <1>1
<1> QED
  BY <1>1, <1>2, <1>3 DEF Parsing!StackSpellsScript

(***************************************************************************)
(* Both of the parsers.                                                    *)
(***************************************************************************)
ParsingInv == task \in {"block", "script"} /\ BlockInv /\ ScriptInv

LEMMA BufferStarts ==
  ASSUME NEW s, IsShape(s), NEW b,
         LET whole == Parsing!Written(s) \o Parsing!Field("lock_time", 0, 4)
         IN  b = SubSeq(whole, 1, Len(whole) - s.cut)
  PROVE  IsBuffer(b, s)
<1> DEFINE bytes == Parsing!Written(s)  last == Parsing!Field("lock_time", 0, 4)
           whole == bytes \o last  n == Size(s)
<1>1. IsList(bytes) /\ Len(bytes) = n /\ n \in Nat
  BY WrittenIs DEF Size
<1>2. IsList(last) /\ Len(last) = 4
  BY FieldIs
<1>3. b = SubSeq(whole, 1, Len(whole) - s.cut) /\ s.cut \in Nat
  BY DEF IsShape
<1> HIDE DEF bytes, last, n
<1>4. IsJoin(whole, bytes, last)
  BY <1>1, <1>2, Joins
<1> HIDE DEF whole
<1>5. IsList(whole) /\ Len(whole) = n + 4 /\ \A j \in 1..n : whole[j] = bytes[j]
  BY <1>1, <1>2, <1>4 DEF IsJoin
<1>6. CASE s.cut <= n + 4
  <2> DEFINE m == n + 4 - s.cut
  <2>1. m \in Nat /\ m <= Len(whole) /\ m = Len(whole) - s.cut
    <3> DEFINE c == s.cut  r == Len(whole)
    <3>1. c \in Nat /\ n \in Nat /\ c <= n + 4 /\ r = n + 4 /\ m = n + 4 - c
      BY <1>1, <1>3, <1>5, <1>6
    <3> HIDE DEF c, r, m
    <3>2. m \in Nat /\ m <= r /\ m = r - c
      BY <3>1
    <3> QED
      BY <3>2 DEF c, r
  <2> HIDE DEF m
  <2>2. Begins(b, whole) /\ Len(b) = m
    BY <1>3, <1>5, <2>1, FirstBegins
  <2>3. ASSUME NEW j \in 1..m, j <= n PROVE b[j] = bytes[j]
    <3>1. b[j] = whole[j]
      BY <2>2 DEF Begins
    <3>2. whole[j] = bytes[j]
      BY <1>1, <1>5, <2>1, <2>3
    <3> QED
      BY <3>1, <3>2
  <2> QED
    BY <1>6, <2>2, <2>3 DEF IsBuffer, Begins, m, n, bytes
<1>7. CASE s.cut > n + 4
  <2> DEFINE m == Len(whole) - s.cut
  <2>1. m \in Int /\ m < 1
    BY <1>1, <1>3, <1>5, <1>7
  <2> HIDE DEF m
  <2>2. SubSeq(whole, 1, m) = <<>>
    BY <2>1, SubSeqEmpty
  <2>3. b = <<>>
    BY <1>3, <2>2 DEF m
  <2>4. IsList(b) /\ Len(b) = 0
    <3>1. IsList(<<>>) /\ Len(<<>>) = 0
      BY DEF IsList
    <3> QED
      BY <2>3, <3>1
  <2>5. ~(s.cut <= n + 4)
    BY <1>1, <1>3, <1>7
  <2>6. \A j \in 1..Len(b) : FALSE
    <3>1. \A j \in 1..0 : FALSE
      OBVIOUS
    <3> QED
      BY <2>4, <3>1
  <2> QED
    BY <2>4, <2>5, <2>6 DEF IsBuffer, n
<1> QED
  BY <1>1, <1>3, <1>6, <1>7

LEMMA Ranges ==
  /\ MaxInOut \in Nat /\ \A n \in TxCounts : n \in Fit
  /\ \A n \in 0..MaxInOut : n \in Fit
  /\ \A n \in ScriptLens : n \in Nat \ {2} /\ n \in Fit
  /\ \A n \in Cuts : n \in Nat
  /\ \A script \in Scripts : script \in Seq(0..255)
<1>1. MaxInOut \in Nat /\ ScriptLens \subseteq Nat /\ \A len \in ScriptLens : len # 2
  BY ParsingAssumption
<1>2. Cuts \subseteq Nat
  BY ParsingAssumption
<1>3. Scripts \subseteq Seq(0..255)
  BY ParsingAssumption
<1>4. \A n \in TxCounts \cup ScriptLens \cup 0..MaxInOut : Parsing!Fits(n)
  BY ParsingAssumption
<1>5. TxCounts \subseteq Nat
  BY ParsingAssumption
<1>6. \A n \in TxCounts : n \in Fit
  BY <1>4, <1>5 DEF Fit
<1>7. \A n \in ScriptLens : n \in Fit
  BY <1>1, <1>4 DEF Fit
<1>8. \A n \in 0..MaxInOut : n \in Fit
  BY <1>1, <1>4 DEF Fit
<1> QED
  BY <1>1, <1>2, <1>3, <1>6, <1>7, <1>8

LEMMA BlockStarts ==
  ASSUME Parsing!Init, task = "block"
  PROVE  BlockInv
<1>1. left = 0 /\ position = 1 /\ parsed = <<>> /\ step = "header"
  BY DEF Parsing!Init
<1>2. PICK txs \in TxCounts, ins \in 0..MaxInOut, outs \in 0..MaxInOut, len \in ScriptLens,
           form \in {1, 3, 5, 9}, cut \in Cuts :
        /\ shape = [txs |-> txs, ins |-> ins, outs |-> outs,
                    len |-> len, form |-> form, cut |-> cut]
        /\ LET whole == Parsing!Written(shape) \o Parsing!Field("lock_time", 0, 4)
           IN  buffer = SubSeq(whole, 1, Len(whole) - cut)
  BY Zenon DEF Parsing!Init
<1>3. /\ shape.txs = txs /\ shape.ins = ins /\ shape.outs = outs
      /\ shape.len = len /\ shape.form = form /\ shape.cut = cut
  BY <1>2
<1>4. /\ txs \in Fit /\ ins \in Fit /\ outs \in Fit /\ len \in Fit
      /\ len \in Nat \ {2} /\ cut \in Nat
  BY <1>2, Ranges
<1>0. txs \in Nat /\ ins \in Nat /\ outs \in Nat
  BY <1>4 DEF Fit
<1>5. IsShape(shape)
  BY <1>0, <1>2, <1>3, <1>4 DEF IsShape
<1>6. IsBuffer(buffer, shape)
  BY <1>2, <1>3, <1>5, BufferStarts
<1>7. IsBlock
  BY <1>5, <1>6 DEF IsBlock
<1>8. FieldCount \in Nat /\ Len(buffer) \in Nat /\ Off(0) = 0
  BY <1>7, OffAre
<1>9. IsList(Parsing!Fields(shape))
  BY <1>5, FieldsAre
<1>10. Begins(parsed, Parsing!Fields(shape)) /\ Len(parsed) = 0
  BY <1>1, <1>8, <1>9 DEF Begins, IsList, FieldCount
<1>11. Done(0)
  BY <1>1, <1>8, <1>10 DEF Done, Reached, Off, FieldCount
<1> QED
  BY <1>1, <1>7, <1>11 DEF BlockInv, InBlock

LEMMA ScriptStarts ==
  ASSUME Parsing!Init, task = "script"
  PROVE  ScriptInv
<1>1. left = 0 /\ position = 1 /\ parsed = <<>> /\ step = "opcode"
  BY DEF Parsing!Init
<1>2. PICK script \in Scripts : buffer = [k \in 1..Len(script) |-> Parsing!Num(script[k])]
  BY DEF Parsing!Init
<1>3. script \in Seq(0..255)
  BY Ranges
<1>4. Len(script) \in Nat /\ \A k \in 1..Len(script) : script[k] \in 0..255
  <2> DEFINE S == 0..255
  <2>1. script \in Seq(S)
    BY <1>3
  <2> HIDE DEF S
  <2>2. Len(script) \in Nat /\ \A k \in 1..Len(script) : script[k] \in S
    BY <2>1
  <2> QED
    BY <2>2 DEF S
<1>5. IsList(buffer) /\ Len(buffer) = Len(script)
  BY <1>2, <1>4 DEF IsList
<1>6. \A k \in 1..Len(buffer) : \E b \in 0..255 : buffer[k] = Parsing!Num(b)
  BY <1>2, <1>4, <1>5
<1>7. Items(parsed) = <<>>
  BY <1>1 DEF Items
<1>8. Parsing!Script(parsed) = <<>>
  BY <1>7, ScriptIsItems, FlattenEmpty
<1>9. Spells(parsed)
  <2>1. IsList(<<>>) /\ Len(<<>>) = 0 /\ \A k \in 1..Len(<<>>) : FALSE
    BY DEF IsList
  <2> QED
    BY <1>1, <1>7, <1>8, <2>1 DEF Spells, AllLists
<1> QED
  BY <1>1, <1>5, <1>6, <1>8, <1>9 DEF ScriptInv

LEMMA ReadKeepsTask ==
  ASSUME NEW fields, NEW width, NEW next, NEW count, Parsing!Read(fields, width, next, count)
  PROVE  task' = task
BY DEF Parsing!Read

LEMMA ParsingKeeps ==
  ASSUME ParsingInv, Parsing!Next
  PROVE  ParsingInv'
<1>1. CASE task = "block"
  <2>1. step # "opcode" /\ BlockInv
    BY <1>1 DEF ParsingInv, BlockInv, InBlock
  <2>2. \/ Parsing!ParseHeader \/ Parsing!ParseTxStart \/ Parsing!ParseTxInput
        \/ Parsing!ParseOutCount \/ Parsing!ParseTxOutput \/ Parsing!ReturnBlock
    BY <2>1 DEF Parsing!Next, Parsing!ParseOpcode, Parsing!ReturnScript
  <2>3. BlockInv'
    BY <1>1, <2>1, <2>2, HeaderKeeps, StartKeeps, InputKeeps, OutCountKeeps, OutputKeeps,
       BlockReturns
  <2>4. task' = task
    BY <2>2, ReadKeepsTask
       DEF Parsing!ParseHeader, Parsing!ParseTxStart, Parsing!ParseTxInput,
           Parsing!ParseOutCount, Parsing!ParseTxOutput, Parsing!ReturnBlock
  <2> QED
    BY <1>1, <2>3, <2>4 DEF ParsingInv, ScriptInv
<1>2. CASE task = "script"
  <2>1. step \in {"opcode", "returned"} /\ ScriptInv
    BY <1>2 DEF ParsingInv, ScriptInv
  <2>2. Parsing!ParseOpcode \/ Parsing!ReturnScript
    BY <2>1 DEF Parsing!Next, Parsing!ParseHeader, Parsing!ParseTxStart,
       Parsing!ParseTxInput, Parsing!ParseOutCount, Parsing!ParseTxOutput,
       Parsing!ReturnBlock
  <2>3. ScriptInv'
    BY <1>2, <2>1, <2>2, OpcodeKeeps, ScriptReturns
  <2>4. task' = task
    BY <2>2 DEF Parsing!ParseOpcode, Parsing!ReturnScript
  <2> QED
    BY <1>2, <2>3, <2>4 DEF ParsingInv, BlockInv
<1> QED
  BY <1>1, <1>2 DEF ParsingInv

LEMMA ParsingStutters ==
  ASSUME ParsingInv, UNCHANGED parsingVars
  PROVE  ParsingInv'
<1>1. /\ task' = task /\ shape' = shape /\ buffer' = buffer /\ position' = position
      /\ left' = left /\ parsed' = parsed /\ step' = step
  BY DEF parsingVars
<1>2. CASE task = "block"
  <2>1. BlockInv /\ IsBlock /\ IsBlock' /\ FieldCount' = FieldCount
    BY <1>1, <1>2, BlockSame DEF ParsingInv, BlockInv
  <2>2. \A q : Done(q) => Done(q)'
    BY <1>1 DEF Done
  <2>3. InBlock'
    BY <1>1, <1>2, <2>1, <2>2 DEF BlockInv, InBlock
  <2> QED
    BY <1>1, <1>2, <2>1, <2>3 DEF ParsingInv, BlockInv, ScriptInv
<1>3. CASE task = "script"
  <2>1. ScriptInv
    BY DEF ParsingInv
  <2>2. Spells(parsed)'
    BY <1>1, <1>3, <2>1, SpellsSame DEF ScriptInv, Spells
  <2>3. (\A k \in 1..Len(buffer) : \E b \in 0..255 : buffer[k] = Parsing!Num(b))'
    BY <1>1, <1>3, <2>1 DEF ScriptInv, Parsing!Num
  <2> QED
    BY <1>1, <1>3, <2>1, <2>2, <2>3 DEF ParsingInv, BlockInv, ScriptInv
<1> QED
  BY <1>2, <1>3 DEF ParsingInv

LEMMA ParsingSays == ParsingInv => ParsedAsWritten
<1> SUFFICES ASSUME ParsingInv PROVE ParsedAsWritten
  OBVIOUS
<1>1. CASE task = "block"
  <2>1. BlockInv /\ left \in Nat /\ InBlock
    BY <1>1 DEF ParsingInv, BlockInv
  <2>2. /\ position \in Nat \ {0} /\ position <= Len(buffer) + 1
        /\ Parsing!ParsedAsWritten /\ Parsing!ThrownWhenCut
    BY <1>1, <2>1, BlockSays
  <2>3. step \in {"header", "tx", "inputs", "outputs", "returned", "threw"}
    BY <2>1 DEF InBlock
  <2>4. Parsing!TypeOK
    BY <1>1, <2>1, <2>2, <2>3 DEF Parsing!TypeOK
  <2>5. Parsing!StackSpellsScript
    BY <1>1 DEF Parsing!StackSpellsScript
  <2> QED
    BY <2>2, <2>4, <2>5 DEF ParsedAsWritten
<1>2. CASE task = "script"
  <2>1. ScriptInv /\ step \in {"opcode", "returned"}
    BY <1>2 DEF ParsingInv, ScriptInv
  <2>2. position \in Nat \ {0} /\ left \in Nat /\ Parsing!StackSpellsScript
    BY <1>2, <2>1, ScriptSays
  <2>3. Parsing!TypeOK
    BY <1>2, <2>1, <2>2 DEF Parsing!TypeOK
  <2>4. Parsing!ParsedAsWritten /\ Parsing!ThrownWhenCut
    BY <1>2 DEF Parsing!ParsedAsWritten, Parsing!ThrownWhenCut
  <2> QED
    BY <2>2, <2>3, <2>4 DEF ParsedAsWritten
<1> QED
  BY <1>1, <1>2 DEF ParsingInv

(* For any counts and lengths that eight bytes can hold, in bytes of any   *)
(* number of values above three, written in any of the four forms of a     *)
(* number and read by a shift, by readUInt32LE or by swap64 and its hex    *)
(* digits; for every cut and every script: parseBlock returns the fields   *)
(* that the block was written with, and throws exactly when the block ends *)
(* within a field that it reads (bitcoin-block.js 21 to 168); the stack of *)
(* parseScript spells the script, with zeros for the end of a push that is *)
(* cut short (bitcoin-script.js).                                          *)
THEOREM BlocksParsedAsWritten == SpecAny => []ParsedAsWritten
<1>1. InitAny => ParsingInv
  <2> SUFFICES ASSUME Parsing!Init PROVE ParsingInv
    BY DEF InitAny
  <2>1. task \in {"block", "script"}
    BY DEF Parsing!Init
  <2> QED
    BY <2>1, BlockStarts, ScriptStarts DEF ParsingInv, BlockInv, ScriptInv
<1>2. ParsingInv /\ [NextAny]_all => ParsingInv'
  <2> SUFFICES ASSUME ParsingInv, [NextAny]_all PROVE ParsingInv'
    OBVIOUS
  <2>1. Parsing!Next \/ UNCHANGED parsingVars
    BY DEF NextAny, all
  <2> QED
    BY <2>1, ParsingKeeps, ParsingStutters
<1> QED
  BY <1>1, <1>2, ParsingSays, PTL DEF SpecAny
=============================================================================
