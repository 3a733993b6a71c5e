-------------------------- MODULE PeerFraming_proofs --------------------------
(***************************************************************************)
(* Proofs about PeerFraming, for every length of a tag, of a length and of *)
(* a message, and every way TCP cuts the stream.                           *)
(***************************************************************************)
EXTENDS PeerFraming, TLAPS, SequenceTheorems

(* Where ciphertext i ends in the stream.                                  *)
EndOf(i) == IF i = 0 THEN 0 ELSE cts[i].to

(* The stream is the frames end to end: a length, then a body of that size,*)
(* each with its tag.                                                      *)
Layout ==
  /\ Len(cts) % 2 = 0
  /\ \A i \in 1..Len(cts) :
       /\ cts[i].from = EndOf(i - 1)
       /\ cts[i].to =
            cts[i].from + TagLen + (IF i % 2 = 1 THEN LenLen ELSE cts[i].size)
       /\ i % 2 = 0 => cts[i - 1].size = cts[i].size
  /\ \A i, j \in 1..Len(cts) : i < j => cts[i].to <= cts[j].from

(* A frame is delivered with the nonce of its body, which is used up then. *)
DeliveredByNonce ==
  /\ NeverOutOfOrder
  /\ \A i \in 1..Len(delivered) : 2 * delivered[i] <= rn

(* With whole frames, nonce and buffer stand after as many frames as there *)
(* were events.                                                            *)
FrameByFrame ==
  chunking = "frames" =>
    /\ OneFramePerEvent
    /\ rn = 2 * events /\ rn <= Len(cts)
    /\ l = NoLength

(* With a frame or a part of one at a time, nothing is left in the buffer. *)
PartByPart ==
  chunking = "parts" =>
    /\ rn <= Len(cts)
    /\ avail = EndOf(rn) /\ pos = avail
    /\ l = NoLength <=> rn % 2 = 0
    /\ Len(delivered) = rn \div 2
    /\ \A i \in 1..Len(delivered) : delivered[i] = i

FramingInv ==
  /\ Layout
  /\ avail <= Sent
  /\ CarriedLengthIsCurrent
  /\ DeliveredByNonce
  /\ FrameByFrame
  /\ PartByPart

(* The constants, as the proofs use them.                                  *)
LEMMA Constants ==
  /\ TagLen \in Nat /\ TagLen > 0
  /\ LenLen \in Nat /\ LenLen > 0
  /\ \A n \in Sizes : n \in Nat /\ n > LenLen
BY LengthsAssumption, SizesAssumption

LEMMA Initially ==
  ASSUME Init
  PROVE  FramingInv
BY DEF Init, FramingInv, Layout, CarriedLengthIsCurrent, TypeOK, NoLength,
       DeliveredByNonce, NeverOutOfOrder, FrameByFrame, OneFramePerEvent,
       PartByPart, Sent, EndOf

(* A ciphertext is longer than nothing, so the ends of the ciphertexts     *)
(* increase, and the last one is the end of what was sent.                 *)
LEMMA EndsIncrease ==
  ASSUME Layout, TypeOK
  PROVE  /\ \A i \in 0..Len(cts) : EndOf(i) \in Nat
         /\ \A i, j \in 0..Len(cts) : i < j => EndOf(i) < EndOf(j)
         /\ \A i, j \in 0..Len(cts) : EndOf(i) < EndOf(j) => i < j
         /\ Sent = EndOf(Len(cts))
<1>1. \A i \in 1..Len(cts) : /\ cts[i].from \in Nat /\ cts[i].to \in Nat
                            /\ cts[i].from < cts[i].to
  <2> SUFFICES ASSUME NEW i \in 1..Len(cts)
               PROVE  /\ cts[i].from \in Nat /\ cts[i].to \in Nat
                      /\ cts[i].from < cts[i].to
    OBVIOUS
  <2>1. cts[i] \in [from : Nat, to : Nat, size : Sizes]
    BY ElementOfSeq DEF TypeOK
  <2>2. cts[i].size \in Nat
    BY <2>1, Constants
  <2> QED
    BY <2>1, <2>2, Constants DEF Layout
<1>2. \A i \in 0..Len(cts) : EndOf(i) \in Nat
  BY <1>1 DEF EndOf
<1>3. ASSUME NEW i \in 0..Len(cts), NEW j \in 0..Len(cts), i < j
      PROVE  EndOf(i) < EndOf(j)
  <2>1. j \in 1..Len(cts) /\ cts[j].from < cts[j].to /\ cts[j].from \in Nat
    BY <1>1, <1>3
  <2>2. CASE i = 0
    BY <1>1, <2>1, <2>2 DEF EndOf
  <2>3. CASE i # 0
    <3>1. i \in 1..Len(cts) /\ cts[i].to <= cts[j].from
      BY <1>3, <2>1, <2>3 DEF Layout
    <3> QED
      BY <1>1, <2>1, <3>1 DEF EndOf
  <2> QED
    BY <2>2, <2>3
<1>4. ASSUME NEW i \in 0..Len(cts), NEW j \in 0..Len(cts), EndOf(i) < EndOf(j)
      PROVE  i < j
  <2>1. CASE i = j
    BY <1>2, <1>4, <2>1
  <2>2. CASE j < i
    <3>1. EndOf(j) < EndOf(i)
      BY <1>3, <2>2
    <3> QED
      BY <1>2, <1>4, <3>1
  <2> QED
    BY <2>1, <2>2
<1>5. Sent = EndOf(Len(cts))
  BY DEF Sent, EndOf, TypeOK
<1> QED
  BY <1>2, <1>3, <1>4, <1>5

(* A frame that is sent extends the layout and leaves what was there.      *)
LEMMA SendLayout ==
  ASSUME Layout, TypeOK, PeerSend
  PROVE  /\ Layout' /\ cts' \in Seq([from : Nat, to : Nat, size : Sizes])
         /\ Len(cts') = Len(cts) + 2
         /\ \A i \in 1..Len(cts) : cts'[i] = cts[i]
         /\ \A i \in 0..Len(cts) : EndOf(i)' = EndOf(i)
         /\ Sent' \in Nat /\ Sent <= Sent'
<1> DEFINE mid == Sent + LenLen + TagLen
<1>1. PICK n \in Sizes :
        cts' = cts \o <<[from |-> Sent, to |-> mid, size |-> n],
                        [from |-> mid, to |-> mid + n + TagLen, size |-> n]>>
  BY DEF PeerSend
<1>2. Sent \in Nat /\ n \in Nat /\ mid \in Nat
  <2>1. Len(cts) \in 0..Len(cts)
    BY LenProperties DEF TypeOK
  <2> QED
    BY <2>1, EndsIncrease, Constants
<1> DEFINE a == [from |-> Sent, to |-> mid, size |-> n]
           b == [from |-> mid, to |-> mid + n + TagLen, size |-> n]
           Ct == [from : Nat, to : Nat, size : Sizes]
<1>3. cts \in Seq(Ct) /\ a \in Ct /\ b \in Ct
  BY <1>1, <1>2, Constants DEF TypeOK
<1>4. /\ cts' \in Seq(Ct)
      /\ Len(cts') = Len(cts) + 2
      /\ \A i \in 1..Len(cts) : cts'[i] = cts[i]
      /\ cts'[Len(cts) + 1] = a
      /\ cts'[Len(cts) + 2] = b
  <2> HIDE DEF a, b, Ct
  <2>1. cts' = cts \o <<a, b>>
    BY <1>1 DEF a, b
  <2>2. <<a, b>> \in Seq(Ct)
    BY <1>3
  <2> QED
    BY <1>3, <2>1, <2>2, ConcatProperties
<1>8. Len(cts) \in Nat /\ Len(cts') \in Nat
  BY <1>3, <1>4, LenProperties
<1> HIDE DEF Ct
<1>5. \A i \in 0..Len(cts) : EndOf(i)' = EndOf(i)
  BY <1>4 DEF EndOf
<1>6. Layout'
  <2>1. Len(cts)' % 2 = 0
    BY <1>8, <1>4 DEF Layout
  <2>2. ASSUME NEW i \in 1..Len(cts')
        PROVE  /\ cts'[i].from = EndOf(i - 1)'
               /\ cts'[i].to = cts'[i].from + TagLen
                               + (IF i % 2 = 1 THEN LenLen ELSE cts'[i].size)
               /\ i % 2 = 0 => cts'[i - 1].size = cts'[i].size
    <3>1. CASE i <= Len(cts)
      <4>1. i \in 1..Len(cts) /\ i - 1 \in 0..Len(cts)
        BY <1>8, <3>1
      <4>2. EndOf(i - 1)' = EndOf(i - 1) /\ cts'[i] = cts[i]
        BY <1>4, <1>5, <4>1
      <4>3. i % 2 = 0 => i - 1 \in 1..Len(cts)
        BY <1>8, <4>1
      <4> QED
        BY <1>4, <4>1, <4>2, <4>3 DEF Layout
    <3>2. CASE i = Len(cts) + 1
      <4>1. i % 2 = 1 /\ i - 1 = Len(cts)
        <5>1. Len(cts) % 2 = 0
          BY DEF Layout
        <5> QED
          BY <1>8, <3>2, <5>1
      <4>2. EndOf(i - 1)' = Sent
        BY <1>8, <1>5, <4>1, EndsIncrease
      <4> QED
        BY <1>2, <1>4, <3>2, <4>1, <4>2, Constants
    <3>3. CASE i = Len(cts) + 2
      <4>1. i % 2 = 0 /\ i - 1 = Len(cts) + 1 /\ i - 1 # 0
        BY <1>8, <3>3 DEF Layout
      <4>2. EndOf(i - 1)' = mid
        BY <1>4, <4>1 DEF EndOf
      <4> QED
        BY <1>2, <1>4, <3>3, <4>1, <4>2, Constants
    <3> QED
      BY <1>8, <1>4, <3>1, <3>2, <3>3
  <2>3. ASSUME NEW i \in 1..Len(cts'), NEW j \in 1..Len(cts'), i < j
        PROVE  cts'[i].to <= cts'[j].from
    <3>1. \A k \in 1..Len(cts) : cts[k].to <= Sent /\ cts[k].to \in Nat
      <4> SUFFICES ASSUME NEW k \in 1..Len(cts)
                   PROVE  cts[k].to <= Sent /\ cts[k].to \in Nat
        OBVIOUS
      <4>1. k \in 0..Len(cts) /\ Len(cts) \in 0..Len(cts) /\ EndOf(k) = cts[k].to
        BY <1>8 DEF EndOf
      <4> QED
        BY <1>8, <4>1, EndsIncrease
    <3>2. CASE j <= Len(cts)
      BY SMTT(30), <1>8, <1>4, <2>3, <3>2 DEF Layout
    <3>3. CASE i <= Len(cts) /\ j > Len(cts)
      <4>1. cts'[i].to <= Sent /\ cts'[i].to \in Nat
        BY <1>8, <1>4, <3>1, <3>3
      <4>2. j = Len(cts) + 1 \/ j = Len(cts) + 2
        BY SMTT(30), <1>8, <1>4, <3>3
      <4>3. cts'[j].from \in {Sent, mid}
        BY <1>4, <4>2
      <4> QED
        BY <1>2, <4>1, <4>3, Constants
    <3>4. CASE i > Len(cts)
      <4>1. i = Len(cts) + 1 /\ j = Len(cts) + 2
        BY <1>8, <1>4, <2>3, <3>4
      <4> QED
        BY <1>2, <1>4, <4>1
    <3> QED
      BY <1>8, <3>2, <3>3, <3>4
  <2> QED
    BY <2>1, <2>2, <2>3 DEF Layout
<1>7. Sent' \in Nat /\ Sent <= Sent'
  <2>1. Sent' = mid + n + TagLen
    BY <1>8, <1>4 DEF Sent
  <2> QED
    BY <1>2, <2>1, Constants
<1> QED
  BY <1>4, <1>5, <1>6, <1>7 DEF Ct

(* A slice starts where the buffer does, has at most the length asked for, *)
(* and ends with the buffer.                                               *)
LEMMA CutFacts ==
  ASSUME NEW p \in Nat, NEW n \in Nat, NEW end \in Nat, p <= end
  PROVE  /\ Cut(p, n, end).from = p
         /\ Cut(p, n, end).to \in p..end
         /\ Cut(p, n, end).to <= p + n
         /\ p + n <= end => Cut(p, n, end).to = p + n
         /\ Cut(p, n, end).to # end => Cut(p, n, end).to = p + n
BY DEF Cut

(* What is cut off as a length and authenticates is a length: a body is    *)
(* longer than any slice taken for a length.                               *)
LEMMA LengthIsRead ==
  ASSUME Layout, TypeOK, NEW end \in Nat, pos <= end,
         Authentic(rn, Cut(pos, LenLen + TagLen, end))
  PROVE  /\ rn % 2 = 0 /\ rn + 2 <= Len(cts)
         /\ pos = EndOf(rn)
         /\ Cut(pos, LenLen + TagLen, end).to = EndOf(rn + 1)
         /\ LengthRead(rn + 1) = {cts[rn + 1].size}
         /\ cts[rn + 1].size \in Sizes /\ cts[rn + 2].size = cts[rn + 1].size
<1> DEFINE c == Cut(pos, LenLen + TagLen, end)
<1>1. pos \in Nat /\ rn \in Nat /\ Len(cts) \in Nat /\ Len(cts) % 2 = 0
  BY LenProperties DEF TypeOK, Layout
<1>2. c.from = pos /\ c.to \in Nat /\ c.to <= pos + LenLen + TagLen
  <2>1. LenLen + TagLen \in Nat
    BY Constants
  <2>2. c.from = pos /\ c.to \in pos..end /\ c.to <= pos + (LenLen + TagLen)
    BY <1>1, <2>1, CutFacts
  <2> QED
    BY <1>1, <2>1, <2>2, Constants
<1> HIDE DEF c
<1>3. rn < Len(cts) /\ cts[rn + 1].from = pos /\ cts[rn + 1].to = c.to
  BY <1>2 DEF Authentic, c
<1>4. rn + 1 \in 1..Len(cts)
  BY <1>1, <1>3
<1>5. cts[rn + 1].size \in Sizes
  <2>1. cts[rn + 1] \in [from : Nat, to : Nat, size : Sizes]
    BY <1>4, ElementOfSeq DEF TypeOK
  <2> QED
    BY <2>1
<1>6. (rn + 1) % 2 = 1
  <2>1. cts[rn + 1].size \in Nat /\ cts[rn + 1].size > LenLen
    BY <1>5, Constants
  <2>2. cts[rn + 1].to = cts[rn + 1].from + TagLen
          + (IF (rn + 1) % 2 = 1 THEN LenLen ELSE cts[rn + 1].size)
    BY <1>4 DEF Layout
  <2> QED
    BY <1>1, <1>2, <1>3, <2>1, <2>2, Constants
<1>7. rn % 2 = 0 /\ rn + 2 <= Len(cts)
  BY <1>1, <1>3, <1>6
<1>8. pos = EndOf(rn)
  <2>1. cts[rn + 1].from = EndOf((rn + 1) - 1)
    BY <1>4 DEF Layout
  <2> QED
    BY <1>1, <1>3, <2>1
<1>9. c.to = EndOf(rn + 1)
  BY <1>1, <1>3 DEF EndOf
<1>10. LengthRead(rn + 1) = {cts[rn + 1].size}
  BY <1>6 DEF LengthRead
<1>11. cts[rn + 2].size = cts[rn + 1].size
  <2>1. rn + 2 \in 1..Len(cts) /\ (rn + 2) % 2 = 0
    BY <1>1, <1>7
  <2>2. cts[(rn + 2) - 1].size = cts[rn + 2].size
    BY <2>1 DEF Layout
  <2> QED
    BY <1>1, <2>2
<1> QED
  BY <1>5, <1>7, <1>8, <1>9, <1>10, <1>11 DEF c

(* The three things an event can come to.                                  *)
Skips == delivered' = delivered /\ l' = NoLength /\ rn' \in rn..rn + 2

Carries(end) ==
  /\ delivered' = delivered
  /\ rn % 2 = 0 /\ rn + 2 <= Len(cts) /\ rn' = rn + 1
  /\ l' = cts[rn + 1].size /\ l' # NoLength
  /\ pos' = end /\ pos' = EndOf(rn + 1)

Delivers ==
  /\ l' = NoLength
  /\ rn' \in rn + 1..rn + 2 /\ rn' % 2 = 0 /\ rn' <= Len(cts)
  /\ delivered' = Append(delivered, rn' \div 2)
  /\ pos' = EndOf(rn')

(* A body is cut off and decrypted with the nonce that follows a length.   *)
LEMMA BodyOutcome ==
  ASSUME TypeOK, NEW end \in Nat, NEW p \in Nat, p <= end,
         NEW k \in Nat, k % 2 = 1, NEW n \in Nat, ReadBody(p, k, n, end)
  PROVE  /\ pos' \in p..end
         /\ l' = NoLength
         /\ \/ delivered' = delivered /\ rn' \in k..k + 1
            \/ /\ rn' = k + 1 /\ rn' % 2 = 0 /\ rn' <= Len(cts)
               /\ delivered' = Append(delivered, rn' \div 2)
               /\ pos' = EndOf(rn')
<1> DEFINE c == Cut(p, n + TagLen, end)
<1>1. c.from = p /\ c.to \in p..end
  <2>1. n + TagLen \in Nat
    BY Constants
  <2> QED
    BY <2>1, CutFacts
<1> HIDE DEF c
<1>2. pos' = c.to /\ l' = NoLength
  BY DEF ReadBody, c
<1>3. CASE delivered' = delivered /\ rn' \in {k, k + 1}
  <2>1. rn' \in k..k + 1
    BY <1>3
  <2> QED
    BY <1>1, <1>2, <1>3, <2>1
<1>4. CASE Authentic(k, c) /\ rn' = k + 1
           /\ delivered' = Append(delivered, MessageRead(k + 1))
  <2>1. Len(cts) \in Nat /\ k < Len(cts) /\ cts[k + 1].to = c.to
    BY <1>4, LenProperties DEF Authentic, TypeOK
  <2>2. (k + 1) % 2 = 0 /\ MessageRead(k + 1) = (k + 1) \div 2
    <3>1. (k + 1) % 2 = 0 /\ ((k + 1) + 1) \div 2 = (k + 1) \div 2
      OBVIOUS
    <3> QED
      BY <3>1 DEF MessageRead, FrameOf
  <2>3. pos' = EndOf(k + 1)
    BY <1>2, <2>1 DEF EndOf
  <2> QED
    BY <1>1, <1>2, <1>4, <2>1, <2>2, <2>3
<1>5. \/ delivered' = delivered /\ rn' \in {k, k + 1}
      \/ Authentic(k, c) /\ rn' = k + 1
         /\ delivered' = Append(delivered, MessageRead(k + 1))
  BY DEF ReadBody, c
<1> QED
  BY <1>3, <1>4, <1>5

LEMMA EventOutcome ==
  ASSUME FramingInv, NEW end \in avail + 1..Sent,
         IF l = NoLength THEN ReadLength(end) ELSE ReadBody(pos, rn, l, end)
  PROVE  /\ pos' \in 0..end
         /\ Skips \/ Carries(end) \/ Delivers
<1>1. /\ TypeOK /\ Layout /\ CarriedLengthIsCurrent
      /\ end \in Nat /\ pos \in Nat /\ pos <= end /\ rn \in Nat
      /\ Len(cts) \in Nat
  <2>1. TypeOK /\ Layout /\ CarriedLengthIsCurrent
    BY DEF FramingInv, CarriedLengthIsCurrent
  <2>2. Sent \in Nat
    <3>1. Len(cts) \in 0..Len(cts)
      BY <2>1, LenProperties DEF TypeOK
    <3> QED
      BY <2>1, <3>1, EndsIncrease
  <2> QED
    BY <2>1, <2>2, LenProperties DEF TypeOK
<1>2. CASE l # NoLength
  <2>1. l \in Nat /\ rn % 2 = 1 /\ ReadBody(pos, rn, l, end)
    BY <1>1, <1>2, Constants DEF TypeOK, CarriedLengthIsCurrent
  <2>2. /\ pos' \in pos..end /\ l' = NoLength
        /\ \/ delivered' = delivered /\ rn' \in rn..rn + 1
           \/ /\ rn' = rn + 1 /\ rn' % 2 = 0 /\ rn' <= Len(cts)
              /\ delivered' = Append(delivered, rn' \div 2)
              /\ pos' = EndOf(rn')
    BY <1>1, <2>1, BodyOutcome
  <2> QED
    BY <1>1, <2>2 DEF Skips, Delivers
<1>3. CASE l = NoLength
  <2> DEFINE c == Cut(pos, LenLen + TagLen, end)
  <2>1. c.to \in pos..end
    <3>1. LenLen + TagLen \in Nat
      BY Constants
    <3> QED
      BY <1>1, <3>1, CutFacts
  <2> HIDE DEF c
  <2>2. CASE pos' = c.to /\ l' = NoLength /\ delivered' = delivered
             /\ rn' \in {rn, rn + 1}
    BY <1>1, <2>1, <2>2 DEF Skips
  <2>3. CASE Authentic(rn, c)
             /\ \E n \in LengthRead(rn + 1) :
                  IF c.to = end
                  THEN /\ pos' = end /\ rn' = rn + 1 /\ l' = n
                       /\ UNCHANGED delivered
                  ELSE ReadBody(c.to, rn + 1, n, end)
    <3>1. /\ rn % 2 = 0 /\ rn + 2 <= Len(cts) /\ c.to = EndOf(rn + 1)
          /\ LengthRead(rn + 1) = {cts[rn + 1].size}
          /\ cts[rn + 1].size \in Sizes
      BY <1>1, <2>3, LengthIsRead DEF c
    <3> DEFINE n == cts[rn + 1].size
    <3>2. n \in Nat /\ n # NoLength
      BY <3>1, Constants DEF NoLength
    <3>3. CASE c.to = end
      BY <1>1, <2>3, <3>1, <3>2, <3>3 DEF Carries
    <3>4. CASE c.to # end
      <4>1. ReadBody(c.to, rn + 1, n, end)
        BY <2>3, <3>1, <3>4
      <4>2. c.to \in Nat /\ c.to <= end /\ rn + 1 \in Nat /\ (rn + 1) % 2 = 1
        BY <1>1, <2>1, <3>1
      <4>3. /\ pos' \in c.to..end /\ l' = NoLength
            /\ \/ delivered' = delivered /\ rn' \in (rn + 1)..(rn + 1) + 1
               \/ /\ rn' = (rn + 1) + 1 /\ rn' % 2 = 0 /\ rn' <= Len(cts)
                  /\ delivered' = Append(delivered, rn' \div 2)
                  /\ pos' = EndOf(rn')
        BY <1>1, <3>2, <4>1, <4>2, BodyOutcome
      <4> QED
        BY <1>1, <4>2, <4>3 DEF Skips, Delivers
    <3> QED
      BY <3>3, <3>4
  <2> QED
    BY <1>3, <2>2, <2>3 DEF ReadLength, c
<1> QED
  BY <1>2, <1>3

(* A ciphertext that has arrived whole, cut off from where it starts with  *)
(* the length it has, is what the nonce at its place opens.                *)
LEMMA WholeCiphertext ==
  ASSUME Layout, TypeOK, NEW k \in Nat, k < Len(cts),
         NEW end \in Nat, EndOf(k + 1) <= end,
         NEW n \in Nat,
         n = IF (k + 1) % 2 = 1 THEN LenLen ELSE cts[k + 1].size
  PROVE  /\ Cut(EndOf(k), n + TagLen, end).to = EndOf(k + 1)
         /\ ~Short(Cut(EndOf(k), n + TagLen, end))
         /\ Authentic(k, Cut(EndOf(k), n + TagLen, end))
<1> DEFINE c == Cut(EndOf(k), n + TagLen, end)
<1>1. Len(cts) \in Nat /\ k + 1 \in 1..Len(cts) /\ k \in 0..Len(cts)
  BY LenProperties DEF TypeOK
<1>2. EndOf(k) \in Nat /\ EndOf(k + 1) \in Nat /\ EndOf(k) < EndOf(k + 1)
  <2>1. k + 1 \in 0..Len(cts) /\ k < k + 1
    BY <1>1
  <2> QED
    BY <1>1, <2>1, EndsIncrease
<1>3. /\ cts[k + 1].from = EndOf(k) /\ cts[k + 1].to = EndOf(k + 1)
      /\ EndOf(k + 1) = EndOf(k) + (n + TagLen)
  <2>1. cts[k + 1].from = EndOf((k + 1) - 1)
    BY <1>1 DEF Layout
  <2>2. cts[k + 1].from = EndOf(k)
    BY <1>1, <2>1
  <2>3. cts[k + 1].to = cts[k + 1].from + TagLen + n
    BY <1>1 DEF Layout
  <2>4. cts[k + 1].to = EndOf(k + 1)
    BY <1>1 DEF EndOf
  <2> QED
    BY <1>2, <2>2, <2>3, <2>4, Constants
<1>4. n + TagLen \in Nat
  BY Constants
<1>5. c.from = EndOf(k) /\ c.to = EndOf(k + 1)
  <2>1. EndOf(k) <= end /\ EndOf(k) + (n + TagLen) <= end
    BY <1>2, <1>3
  <2>2. c.from = EndOf(k) /\ c.to = EndOf(k) + (n + TagLen)
    BY <1>2, <1>4, <2>1 DEF Cut
  <2> QED
    BY <1>3, <2>2
<1> HIDE DEF c
<1>6. ~Short(c)
  BY SMTT(30), <1>2, <1>3, <1>5, Constants DEF Short
<1>7. Authentic(k, c)
  BY <1>3, <1>5 DEF Authentic
<1> QED
  BY <1>5, <1>6, <1>7 DEF c

LEMMA WholeLength ==
  ASSUME Layout, TypeOK, rn % 2 = 0, rn + 2 <= Len(cts), pos = EndOf(rn),
         NEW end \in Nat, pos <= end, EndOf(rn + 1) <= end, ReadLength(end)
  PROVE  IF end = EndOf(rn + 1) THEN Carries(end)
         ELSE ReadBody(EndOf(rn + 1), rn + 1, cts[rn + 1].size, end)
<1> DEFINE c == Cut(pos, LenLen + TagLen, end)
<1>1. rn \in Nat /\ Len(cts) \in Nat /\ rn < Len(cts) /\ (rn + 1) % 2 = 1
  <2>1. rn \in Nat /\ Len(cts) \in Nat
    BY LenProperties DEF TypeOK
  <2> QED
    BY <2>1
<1>2. c.to = EndOf(rn + 1) /\ ~Short(c) /\ Authentic(rn, c)
  BY <1>1, WholeCiphertext, Constants
<1>3. LengthRead(rn + 1) = {cts[rn + 1].size} /\ cts[rn + 1].size \in Sizes
  BY <1>2, LengthIsRead
<1>4. cts[rn + 1].size # NoLength
  BY <1>3, Constants DEF NoLength
<1> HIDE DEF c
<1>5. \E n \in LengthRead(rn + 1) :
        IF c.to = end
        THEN pos' = end /\ rn' = rn + 1 /\ l' = n /\ UNCHANGED delivered
        ELSE ReadBody(c.to, rn + 1, n, end)
  BY <1>2 DEF ReadLength, c
<1> QED
  BY <1>2, <1>3, <1>4, <1>5 DEF Carries

LEMMA WholeBody ==
  ASSUME Layout, TypeOK, NEW k \in Nat, k % 2 = 1, k < Len(cts),
         k \in rn..rn + 1,
         NEW end \in Nat, EndOf(k + 1) <= end,
         ReadBody(EndOf(k), k, cts[k].size, end)
  PROVE  Delivers /\ rn' = k + 1
<1> DEFINE c == Cut(EndOf(k), cts[k].size + TagLen, end)
<1>1. rn \in Nat /\ Len(cts) \in Nat
  BY LenProperties DEF TypeOK
<1>2. cts[k].size = cts[k + 1].size /\ cts[k].size \in Nat
  <2>1. k + 1 \in 1..Len(cts) /\ (k + 1) % 2 = 0 /\ k \in 1..Len(cts)
    BY <1>1
  <2>2. cts[(k + 1) - 1].size = cts[k + 1].size
    BY <2>1 DEF Layout
  <2>3. cts[k] \in [from : Nat, to : Nat, size : Sizes]
    BY <2>1, ElementOfSeq DEF TypeOK
  <2> QED
    BY <2>2, <2>3, Constants
<1>3. c.to = EndOf(k + 1) /\ ~Short(c) /\ Authentic(k, c)
  <2>1. (k + 1) % 2 # 1
    OBVIOUS
  <2> QED
    BY <1>2, <2>1, WholeCiphertext
<1> HIDE DEF c
<1>4. /\ pos' = EndOf(k + 1) /\ l' = NoLength /\ rn' = k + 1
      /\ delivered' = Append(delivered, MessageRead(k + 1))
  BY <1>3 DEF ReadBody, c
<1>5. (k + 1) % 2 = 0 /\ MessageRead(k + 1) = (k + 1) \div 2
  <2>1. (k + 1) % 2 = 0 /\ ((k + 1) + 1) \div 2 = (k + 1) \div 2
    OBVIOUS
  <2> QED
    BY <2>1 DEF MessageRead, FrameOf
<1> QED
  BY <1>1, <1>4, <1>5 DEF Delivers

(* An event of whole frames delivers the next one.                         *)
LEMMA FrameEvent ==
  ASSUME FramingInv, chunking = "frames", NEW end \in avail + 1..Sent,
         Chunk(end),
         IF l = NoLength THEN ReadLength(end) ELSE ReadBody(pos, rn, l, end)
  PROVE  Delivers /\ rn' = rn + 2
<1>1. /\ TypeOK /\ Layout /\ rn \in Nat /\ avail \in Nat /\ pos \in 0..avail
      /\ Len(cts) \in Nat /\ Len(cts) % 2 = 0 /\ events \in Nat
  BY LenProperties DEF FramingInv, CarriedLengthIsCurrent, TypeOK, Layout
<1>2. l = NoLength /\ rn = 2 * events /\ rn <= Len(cts) /\ pos = EndOf(rn)
  BY <1>1 DEF FramingInv, FrameByFrame, OneFramePerEvent, EndOf
<1>3. end \in Nat /\ pos < end
  <2>1. Sent \in Nat
    <3>1. Len(cts) \in 0..Len(cts)
      BY <1>1
    <3> QED
      BY <1>1, <3>1, EndsIncrease
  <2> QED
    BY <1>1, <2>1
<1>4. PICK i \in 1..Len(cts) : i % 2 = 0 /\ cts[i].to = end
  BY DEF Chunk
<1>5. rn + 2 <= i
  <2>1. EndOf(i) = end /\ i \in 0..Len(cts) /\ rn \in 0..Len(cts)
    BY <1>1, <1>2, <1>4 DEF EndOf
  <2>2. rn < i
    BY <1>1, <1>2, <1>3, <2>1, EndsIncrease
  <2> QED
    BY <1>1, <1>2, <1>4, <2>2
<1>6. EndOf(rn + 1) \in Nat /\ EndOf(rn + 1) < EndOf(rn + 2) /\ EndOf(rn + 2) <= end
  <2>1. rn + 1 \in 0..Len(cts) /\ rn + 2 \in 0..Len(cts) /\ i \in 0..Len(cts)
    BY <1>1, <1>4, <1>5
  <2>2. EndOf(i) = end
    BY <1>4 DEF EndOf
  <2>3. rn + 2 = i \/ rn + 2 < i
    BY <1>1, <1>4, <1>5
  <2> QED
    BY <1>1, <2>1, <2>2, <2>3, EndsIncrease
<1>7. rn % 2 = 0 /\ rn + 2 <= Len(cts) /\ EndOf(rn + 2) \in Nat
  <2>1. rn + 2 \in 0..Len(cts)
    BY <1>1, <1>4, <1>5
  <2> QED
    BY <1>1, <1>2, <2>1, EndsIncrease
<1>8. ReadBody(EndOf(rn + 1), rn + 1, cts[rn + 1].size, end)
  <2>1. EndOf(rn + 1) <= end /\ end # EndOf(rn + 1) /\ pos <= end
    BY <1>1, <1>3, <1>6, <1>7
  <2> QED
    BY <1>1, <1>2, <1>3, <1>7, <2>1, WholeLength
<1>9. /\ rn + 1 \in Nat /\ (rn + 1) % 2 = 1 /\ rn + 1 < Len(cts)
      /\ rn + 1 \in rn..rn + 1 /\ EndOf((rn + 1) + 1) <= end
  BY <1>1, <1>6, <1>7
<1>10. Delivers /\ rn' = (rn + 1) + 1
  BY <1>1, <1>3, <1>8, <1>9, WholeBody
<1> QED
  BY <1>1, <1>10

(* An event that brings a frame delivers it; one that brings a length      *)
(* carries it; one that brings the body after it delivers the frame.       *)
LEMMA PartEvent ==
  ASSUME FramingInv, chunking = "parts", NEW end \in avail + 1..Sent,
         Chunk(end),
         IF l = NoLength THEN ReadLength(end) ELSE ReadBody(pos, rn, l, end)
  PROVE  (Carries(end) \/ Delivers) /\ end = EndOf(rn')
<1>1. /\ TypeOK /\ Layout /\ rn \in Nat /\ avail \in Nat
      /\ Len(cts) \in Nat /\ Len(cts) % 2 = 0
  BY LenProperties DEF FramingInv, CarriedLengthIsCurrent, TypeOK, Layout
<1>2. /\ avail = EndOf(rn) /\ pos = avail /\ rn <= Len(cts)
      /\ l = NoLength <=> rn % 2 = 0
  BY DEF FramingInv, PartByPart
<1>3. \A i \in 0..Len(cts) : EndOf(i) \in Nat
  BY <1>1, EndsIncrease
<1>4. end \in Nat /\ avail < end
  <2>1. Sent \in Nat
    <3>1. Len(cts) \in 0..Len(cts)
      BY <1>1
    <3> QED
      BY <1>1, <3>1, EndsIncrease
  <2> QED
    BY <1>1, <2>1
<1>5. PICK i \in 1..Len(cts) :
        /\ cts[i].to = end
        /\ cts[i].from = avail \/ (i % 2 = 0 /\ cts[i - 1].from = avail)
  BY DEF Chunk
<1>6. \A j \in 1..Len(cts) : cts[j].from = avail => j = rn + 1
  <2> SUFFICES ASSUME NEW j \in 1..Len(cts), cts[j].from = avail
               PROVE  j = rn + 1
    OBVIOUS
  <2>1. EndOf(j - 1) = EndOf(rn) /\ j - 1 \in 0..Len(cts) /\ rn \in 0..Len(cts)
    BY <1>1, <1>2 DEF Layout
  <2>2. ~(j - 1 < rn) /\ ~(rn < j - 1)
    BY <1>3, <2>1, <1>1, EndsIncrease
  <2> QED
    BY <1>1, <2>1, <2>2
<1>7. i = rn + 1 \/ (rn % 2 = 0 /\ i = rn + 2)
  <2>1. CASE cts[i].from = avail
    BY <1>6, <2>1
  <2>2. CASE i % 2 = 0 /\ cts[i - 1].from = avail
    <3>1. i - 1 \in 1..Len(cts)
      BY <1>1, <2>2
    <3>2. i - 1 = rn + 1
      BY <1>6, <2>2, <3>1
    <3> QED
      BY <1>1, <2>2, <3>2
  <2> QED
    BY <1>5, <2>1, <2>2
<1>8. EndOf(i) = end
  BY <1>5 DEF EndOf
<1>9. CASE rn % 2 = 0
  <2>1. rn + 2 <= Len(cts) /\ l = NoLength
    BY <1>1, <1>2, <1>7, <1>9
  <2>2. EndOf(rn + 1) < EndOf(rn + 2) /\ EndOf(rn + 1) \in Nat /\ EndOf(rn + 2) \in Nat
    <3>1. rn + 1 \in 0..Len(cts) /\ rn + 2 \in 0..Len(cts) /\ rn + 1 < rn + 2
      BY <1>1, <2>1
    <3> QED
      BY <1>1, <3>1, EndsIncrease
  <2>3. end = EndOf(rn + 1) \/ (end = EndOf(rn + 2) /\ end # EndOf(rn + 1))
    BY <1>1, <1>7, <1>8, <2>2
  <2>4. EndOf(rn + 1) <= end /\ pos <= end
    BY <1>1, <1>2, <1>4, <2>2, <2>3
  <2>5. IF end = EndOf(rn + 1) THEN Carries(end)
        ELSE ReadBody(EndOf(rn + 1), rn + 1, cts[rn + 1].size, end)
    BY <1>1, <1>2, <1>4, <1>9, <2>1, <2>4, WholeLength
  <2>6. CASE end = EndOf(rn + 1)
    BY <2>5, <2>6 DEF Carries
  <2>7. CASE end = EndOf(rn + 2) /\ end # EndOf(rn + 1)
    <3>1. /\ rn + 1 \in Nat /\ (rn + 1) % 2 = 1 /\ rn + 1 < Len(cts)
          /\ rn + 1 \in rn..rn + 1 /\ EndOf((rn + 1) + 1) <= end
      BY <1>1, <1>4, <1>9, <2>1, <2>7
    <3>2. Delivers /\ rn' = (rn + 1) + 1
      BY <1>1, <1>4, <2>5, <2>7, <3>1, WholeBody
    <3>3. rn' = rn + 2
      BY <1>1, <3>2
    <3> QED
      BY <2>7, <3>2, <3>3
  <2> QED
    BY <2>3, <2>6, <2>7
<1>10. CASE rn % 2 # 0
  <2>1. i = rn + 1 /\ l # NoLength /\ rn % 2 = 1
    BY <1>1, <1>2, <1>7, <1>10
  <2>2. l = cts[rn].size /\ ReadBody(EndOf(rn), rn, cts[rn].size, end)
    BY <1>2, <2>1 DEF FramingInv, CarriedLengthIsCurrent
  <2>3. rn < Len(cts) /\ rn \in rn..rn + 1 /\ EndOf(rn + 1) <= end
    BY <1>1, <1>4, <1>8, <2>1
  <2>4. Delivers /\ rn' = rn + 1
    BY <1>1, <1>4, <2>1, <2>2, <2>3, WholeBody
  <2> QED
    BY <1>8, <2>1, <2>4
<1> QED
  BY <1>9, <1>10

(* Halves of natural numbers.                                              *)
LEMMA HalfBound ==
  ASSUME NEW f \in Nat, NEW n \in Nat, 2 * f <= n
  PROVE  (n + 1) \div 2 \in Nat /\ f <= (n + 1) \div 2
OBVIOUS

LEMMA HalfOfEven ==
  ASSUME NEW n \in Nat, n % 2 = 0
  PROVE  n \div 2 \in Nat /\ 2 * (n \div 2) = n
OBVIOUS

LEMMA NextHalf ==
  ASSUME NEW n \in Nat
  PROVE  /\ n % 2 = 0 => (n + 1) \div 2 = n \div 2
         /\ n % 2 = 1 => (n + 1) \div 2 = n \div 2 + 1
         /\ (n + 2) \div 2 = n \div 2 + 1
OBVIOUS

(* What an event comes to keeps every part of the invariant.               *)
LEMMA DataStep ==
  ASSUME FramingInv, OnData
  PROVE  FramingInv'
<1>1. PICK end \in avail + 1..Sent :
        /\ Chunk(end)
        /\ avail' = end
        /\ events' = events + 1
        /\ IF l = NoLength THEN ReadLength(end) ELSE ReadBody(pos, rn, l, end)
        /\ UNCHANGED <<cts, chunking>>
  BY DEF OnData
<1>2. /\ TypeOK /\ Layout /\ avail \in Nat /\ rn \in Nat /\ Len(cts) \in Nat
      /\ Len(cts) % 2 = 0 /\ delivered \in Seq(Nat) /\ Len(delivered) \in Nat
      /\ events \in Nat
  BY LenProperties DEF FramingInv, CarriedLengthIsCurrent, TypeOK, Layout
<1>3. end \in Nat /\ avail < end /\ end <= Sent
  <2>1. Sent \in Nat
    <3>1. Len(cts) \in 0..Len(cts)
      BY <1>2
    <3> QED
      BY <1>2, <3>1, EndsIncrease
  <2> QED
    BY <1>1, <1>2, <2>1
<1>4. pos' \in 0..end /\ (Skips \/ Carries(end) \/ Delivers)
  BY <1>1, EventOutcome
<1>5. \A i : EndOf(i)' = EndOf(i)
  BY <1>1 DEF EndOf
<1>6. Layout'
  BY <1>1, <1>2 DEF Layout, EndOf
<1>7. avail' <= Sent'
  BY <1>1, <1>3 DEF Sent
<1>8. CASE Skips
  <2>1. delivered' = delivered /\ l' = NoLength /\ rn' \in Nat /\ rn <= rn'
    BY <1>2, <1>8 DEF Skips
  <2>2. TypeOK'
    BY <1>1, <1>2, <1>3, <1>4, <2>1 DEF TypeOK
  <2>3. CarriedLengthIsCurrent'
    BY <2>1, <2>2 DEF CarriedLengthIsCurrent
  <2>4. NeverOutOfOrder'
    BY <1>1, <2>1 DEF FramingInv, DeliveredByNonce, NeverOutOfOrder, FrameOf
  <2>5. \A i \in 1..Len(delivered') : 2 * delivered'[i] <= rn'
    <3> SUFFICES ASSUME NEW i \in 1..Len(delivered)
                 PROVE  2 * delivered[i] <= rn'
      BY <2>1
    <3>1. delivered[i] \in Nat
      BY <1>2, ElementOfSeq
    <3>2. 2 * delivered[i] <= rn
      BY DEF FramingInv, DeliveredByNonce
    <3> QED
      BY <1>2, <2>1, <3>1, <3>2
  <2>6. DeliveredByNonce'
    BY <2>4, <2>5 DEF DeliveredByNonce
  <2>7. chunking # "frames" /\ chunking # "parts"
    <3>1. ~Delivers /\ ~Carries(end)
      <4>1. CASE Delivers
        <5>1. Len(delivered') = Len(delivered) + 1
          BY <1>2, <4>1, AppendProperties DEF Delivers
        <5> QED
          BY <1>2, <2>1, <5>1
      <4>2. CASE Carries(end)
        BY <2>1, <4>2 DEF Carries
      <4> QED
        BY <4>1, <4>2
    <3> QED
      BY <1>1, <3>1, FrameEvent, PartEvent
  <2> QED
    BY <1>1, <1>6, <1>7, <2>3, <2>6, <2>7
       DEF FramingInv, FrameByFrame, PartByPart
<1>9. CASE Carries(end)
  <2>1. /\ delivered' = delivered /\ rn % 2 = 0 /\ rn + 2 <= Len(cts)
        /\ rn' = rn + 1 /\ l' = cts[rn + 1].size /\ l' # NoLength
        /\ pos' = end /\ pos' = EndOf(rn + 1)
    BY <1>9 DEF Carries
  <2>2. rn + 1 \in 1..Len(cts) /\ cts[rn + 1].size \in Sizes
    <3>1. rn + 1 \in 1..Len(cts)
      BY <1>2, <2>1
    <3>2. cts[rn + 1] \in [from : Nat, to : Nat, size : Sizes]
      BY <1>2, <3>1, ElementOfSeq DEF TypeOK
    <3> QED
      BY <3>1, <3>2
  <2>3. TypeOK'
    BY <1>1, <1>2, <1>3, <2>1, <2>2 DEF TypeOK
  <2>4. CarriedLengthIsCurrent'
    <3>1. rn' % 2 = 1 /\ rn' < Len(cts) /\ pos' = cts[rn'].to
      BY SMTT(30), <1>2, <2>1 DEF EndOf
    <3> QED
      BY <1>1, <2>1, <2>3, <3>1 DEF CarriedLengthIsCurrent
  <2>5. NeverOutOfOrder'
    BY <1>1, <2>1 DEF FramingInv, DeliveredByNonce, NeverOutOfOrder, FrameOf
  <2>6. \A i \in 1..Len(delivered') : 2 * delivered'[i] <= rn'
    <3> SUFFICES ASSUME NEW i \in 1..Len(delivered)
                 PROVE  2 * delivered[i] <= rn + 1
      BY <2>1
    <3>1. delivered[i] \in Nat
      BY <1>2, ElementOfSeq
    <3>2. 2 * delivered[i] <= rn
      BY DEF FramingInv, DeliveredByNonce
    <3> QED
      BY <1>2, <3>1, <3>2
  <2>7. DeliveredByNonce'
    BY <2>5, <2>6 DEF DeliveredByNonce
  <2>8. chunking # "frames"
    <3>1. ~Delivers
      BY <2>1 DEF Delivers
    <3> QED
      BY <1>1, <3>1, FrameEvent
  <2>9. PartByPart'
    <3> SUFFICES ASSUME chunking = "parts" PROVE PartByPart'
      BY <1>1 DEF PartByPart
    <3>1. /\ rn <= Len(cts) /\ Len(delivered) = rn \div 2
          /\ \A i \in 1..Len(delivered) : delivered[i] = i
      BY DEF FramingInv, PartByPart
    <3>2. rn' % 2 = 1 /\ rn' \div 2 = rn \div 2
      BY <1>2, <2>1
    <3>3. rn' <= Len(cts') /\ avail' = EndOf(rn')
      <4>1. cts' = cts /\ avail' = end
        BY <1>1
      <4>2. rn + 1 <= Len(cts)
        BY SMTT(30), <1>2, <2>1
      <4> QED
        BY <2>1, <4>1, <4>2
    <3>4. EndOf(rn)' = EndOf(rn')
      BY <1>1 DEF EndOf
    <3> QED
      BY <1>1, <2>1, <3>1, <3>2, <3>3, <3>4 DEF PartByPart
  <2> QED
    BY <1>1, <1>6, <1>7, <2>4, <2>7, <2>8, <2>9 DEF FramingInv, FrameByFrame
<1>10. CASE Delivers
  <2> DEFINE f == rn' \div 2
  <2>1. /\ l' = NoLength /\ rn' \in Nat /\ rn < rn' /\ rn' <= rn + 2
        /\ rn' % 2 = 0 /\ rn' <= Len(cts) /\ pos' = EndOf(rn')
        /\ f \in Nat /\ 2 * f = rn' /\ f > 0
    <3>1. rn' \in rn + 1..rn + 2 /\ rn' % 2 = 0
      BY <1>10 DEF Delivers
    <3>2. rn' \in Nat /\ rn < rn' /\ rn' <= rn + 2
      BY <1>2, <3>1
    <3>3. f \in Nat /\ 2 * f = rn' /\ f > 0
      <4>1. f \in Nat /\ 2 * f = rn'
        BY <3>1, <3>2, HalfOfEven
      <4>2. rn' > 0
        BY <1>2, <3>2
      <4> HIDE DEF f
      <4> QED
        BY <4>1, <4>2
    <3> QED
      BY <1>10, <3>1, <3>2, <3>3 DEF Delivers
  <2>2. delivered' = Append(delivered, f)
    BY <1>10 DEF Delivers
  <2> HIDE DEF f
  <2>3. /\ delivered' \in Seq(Nat) /\ Len(delivered') = Len(delivered) + 1
        /\ \A i \in 1..Len(delivered) : delivered'[i] = delivered[i]
        /\ delivered'[Len(delivered) + 1] = f
    BY <1>2, <2>1, <2>2, AppendProperties
  <2>4. TypeOK'
    BY <1>1, <1>2, <1>3, <1>4, <2>1, <2>3 DEF TypeOK
  <2>5. CarriedLengthIsCurrent'
    BY <2>1, <2>4 DEF CarriedLengthIsCurrent
  <2>6. \A i \in 1..Len(delivered) : delivered[i] \in Nat /\ 2 * delivered[i] <= rn
    BY <1>2, ElementOfSeq DEF FramingInv, DeliveredByNonce
  <2>7. FrameOf(Len(cts)) \in Nat /\ f <= FrameOf(Len(cts))
    <3>1. 2 * f <= Len(cts)
      BY <2>1
    <3> QED
      BY <1>2, <2>1, <3>1, HalfBound DEF FrameOf
  <2>8. NeverOutOfOrder'
    <3>1. \A i \in 1..Len(delivered') : delivered'[i] \in 1..FrameOf(Len(cts))
      <4> SUFFICES ASSUME NEW i \in 1..Len(delivered')
                   PROVE  delivered'[i] \in 1..FrameOf(Len(cts))
        OBVIOUS
      <4>1. CASE i \in 1..Len(delivered)
        BY <2>3, <4>1 DEF FramingInv, DeliveredByNonce, NeverOutOfOrder
      <4>2. CASE i = Len(delivered) + 1
        BY <2>1, <2>3, <2>7, <4>2
      <4> QED
        BY <1>2, <2>3, <4>1, <4>2
    <3>2. ASSUME NEW i \in 1..Len(delivered'), NEW j \in 1..Len(delivered'), i < j
          PROVE  delivered'[i] < delivered'[j]
      <4>1. i \in 1..Len(delivered) /\ delivered'[i] = delivered[i]
        BY SMTT(30), <1>2, <2>3, <3>2
      <4>2. CASE j \in 1..Len(delivered)
        BY <2>3, <3>2, <4>1, <4>2 DEF FramingInv, DeliveredByNonce, NeverOutOfOrder
      <4>3. CASE j = Len(delivered) + 1
        BY SMTT(30), <1>2, <2>1, <2>3, <2>6, <4>1, <4>3
      <4> QED
        BY <1>2, <2>3, <4>2, <4>3
    <3>3. FrameOf(Len(cts))' = FrameOf(Len(cts))
      BY <1>1 DEF FrameOf
    <3> QED
      BY <3>1, <3>2, <3>3 DEF NeverOutOfOrder
  <2>9. DeliveredByNonce'
    <3> SUFFICES ASSUME NEW i \in 1..Len(delivered')
                 PROVE  2 * delivered'[i] <= rn'
      BY <2>8 DEF DeliveredByNonce
    <3>1. CASE i \in 1..Len(delivered)
      <4>1. delivered'[i] = delivered[i]
        BY <2>3, <3>1
      <4>2. delivered[i] \in Nat /\ 2 * delivered[i] <= rn
        BY <2>6, <3>1
      <4> QED
        BY <1>2, <2>1, <4>1, <4>2
    <3>2. CASE i = Len(delivered) + 1
      BY <1>2, <2>1, <2>3, <3>2
    <3> QED
      BY <1>2, <2>3, <3>1, <3>2
  <2>10. FrameByFrame'
    <3> SUFFICES ASSUME chunking = "frames" PROVE FrameByFrame'
      BY <1>1 DEF FrameByFrame
    <3>1. rn' = rn + 2
      BY <1>1, FrameEvent
    <3>2. /\ rn = 2 * events /\ Len(delivered) = events
          /\ \A i \in 1..Len(delivered) : delivered[i] = i
      BY DEF FramingInv, FrameByFrame, OneFramePerEvent
    <3>3. /\ events' \in Nat /\ events' # 0 /\ rn' = 2 * events'
          /\ rn' # 0 /\ Len(delivered') = events' /\ f = events'
      BY <1>1, <1>2, <2>1, <2>3, <3>1, <3>2
    <3>4. \A i \in 1..Len(delivered') : delivered'[i] = i
      BY <1>1, <1>2, <2>3, <3>2, <3>3
    <3>5. pos' = cts'[2 * events'].to
      BY <1>1, <2>1, <3>3 DEF EndOf
    <3>6. OneFramePerEvent'
      BY <3>3, <3>4, <3>5 DEF OneFramePerEvent
    <3>7. rn' <= Len(cts')
      BY <1>1, <2>1
    <3> QED
      BY <2>1, <3>3, <3>6, <3>7 DEF FrameByFrame
  <2>11. PartByPart'
    <3> SUFFICES ASSUME chunking = "parts" PROVE PartByPart'
      BY <1>1 DEF PartByPart
    <3>1. end = EndOf(rn')
      BY <1>1, PartEvent
    <3>2. /\ Len(delivered) = rn \div 2
          /\ \A i \in 1..Len(delivered) : delivered[i] = i
      BY DEF FramingInv, PartByPart
    <3>3. Len(delivered') = rn' \div 2 /\ f = Len(delivered) + 1
      <4>1. rn' \div 2 = rn \div 2 + 1
        <5>1. rn' = rn + 2 \/ (rn' = rn + 1 /\ rn % 2 = 1)
          BY <1>2, <2>1
        <5> QED
          BY <1>2, <5>1, NextHalf
      <4> QED
        BY <2>3, <3>2, <4>1 DEF f
    <3>4. \A i \in 1..Len(delivered') : delivered'[i] = i
      BY <1>2, <2>3, <3>2, <3>3
    <3>5. EndOf(rn)' = EndOf(rn')
      BY <1>1 DEF EndOf
    <3> QED
      BY <1>1, <2>1, <3>1, <3>3, <3>4, <3>5 DEF PartByPart
  <2> QED
    BY <1>6, <1>7, <2>5, <2>9, <2>10, <2>11 DEF FramingInv
<1> QED
  BY <1>4, <1>8, <1>9, <1>10

LEMMA SendStep ==
  ASSUME FramingInv, PeerSend
  PROVE  FramingInv'
<1>1. /\ TypeOK /\ Layout /\ rn \in Nat /\ avail \in Nat /\ Len(cts) \in Nat
      /\ Len(cts) % 2 = 0 /\ Len(cts)' % 2 = 0 /\ Sent \in Nat /\ events \in Nat
  <2>1. TypeOK /\ Layout
    BY DEF FramingInv, CarriedLengthIsCurrent
  <2>2. Len(cts) \in Nat /\ Len(cts) \in 0..Len(cts)
    BY <2>1, LenProperties DEF TypeOK
  <2>3. Layout'
    BY <2>1, SendLayout
  <2> QED
    BY <2>1, <2>2, <2>3, EndsIncrease DEF TypeOK, Layout
<1>2. UNCHANGED <<avail, pos, rn, l, delivered, events, chunking>>
  BY DEF PeerSend
<1>3. /\ Layout' /\ cts' \in Seq([from : Nat, to : Nat, size : Sizes])
      /\ Len(cts') = Len(cts) + 2
      /\ \A i \in 1..Len(cts) : cts'[i] = cts[i]
      /\ \A i \in 0..Len(cts) : EndOf(i)' = EndOf(i)
      /\ Sent' \in Nat /\ Sent <= Sent'
  BY <1>1, SendLayout
<1>4. TypeOK'
  BY <1>1, <1>2, <1>3 DEF TypeOK
<1>5. avail' <= Sent'
  BY <1>1, <1>2, <1>3 DEF FramingInv
<1>6. CarriedLengthIsCurrent'
  <2> SUFFICES ASSUME l # NoLength
               PROVE  /\ rn % 2 = 1 /\ rn < Len(cts') /\ l = cts'[rn].size
                      /\ pos = cts'[rn].to /\ pos = avail
    BY <1>2, <1>4 DEF CarriedLengthIsCurrent
  <2>1. /\ rn % 2 = 1 /\ rn < Len(cts) /\ l = cts[rn].size
        /\ pos = cts[rn].to /\ pos = avail
    BY DEF FramingInv, CarriedLengthIsCurrent
  <2>2. rn \in 1..Len(cts)
    BY <1>1, <2>1
  <2>3. cts'[rn] = cts[rn]
    BY <1>3, <2>2
  <2>4. rn < Len(cts')
    <3>1. Len(cts') = Len(cts) + 2
      BY <1>3
    <3> QED
      BY <1>1, <2>1, <3>1
  <2> QED
    BY <2>1, <2>3, <2>4
<1>7. DeliveredByNonce'
  <2>1. FrameOf(Len(cts)) <= FrameOf(Len(cts'))
        /\ FrameOf(Len(cts)) \in Nat /\ FrameOf(Len(cts')) \in Nat
    BY <1>1, <1>3 DEF FrameOf
  <2>2. \A i \in 1..Len(delivered) : delivered[i] \in 1..FrameOf(Len(cts'))
    BY <2>1 DEF FramingInv, DeliveredByNonce, NeverOutOfOrder
  <2>3. NeverOutOfOrder'
    BY <1>2, <2>2 DEF FramingInv, DeliveredByNonce, NeverOutOfOrder, FrameOf
  <2> QED
    BY <1>2, <2>3 DEF FramingInv, DeliveredByNonce
<1>8. rn \in 0..Len(cts) => EndOf(rn)' = EndOf(rn)
  <2>1. rn \in 0..Len(cts) /\ rn # 0 => cts'[rn] = cts[rn]
    BY <1>1, <1>3
  <2> QED
    BY <1>2, <2>1 DEF EndOf
<1>9. FrameByFrame'
  <2> SUFFICES ASSUME chunking = "frames" PROVE FrameByFrame'
    BY <1>2 DEF FrameByFrame
  <2>1. OneFramePerEvent /\ rn = 2 * events /\ rn <= Len(cts) /\ l = NoLength
    BY DEF FramingInv, FrameByFrame
  <2>2. events # 0 => cts'[2 * events] = cts[2 * events]
    BY <1>1, <1>3, <2>1
  <2>3. OneFramePerEvent'
    BY <1>2, <2>1, <2>2 DEF OneFramePerEvent
  <2> QED
    BY <1>1, <1>2, <1>3, <2>1, <2>3 DEF FrameByFrame
<1>10. PartByPart'
  <2> SUFFICES ASSUME chunking = "parts" PROVE PartByPart'
    BY <1>2 DEF PartByPart
  <2>1. rn <= Len(cts) /\ avail = EndOf(rn)
    BY DEF FramingInv, PartByPart
  <2>2. EndOf(rn)' = avail /\ rn <= Len(cts')
    BY <1>1, <1>3, <1>8, <2>1
  <2> QED
    BY <1>2, <2>2 DEF FramingInv, PartByPart
<1> QED
  BY <1>3, <1>5, <1>6, <1>7, <1>9, <1>10 DEF FramingInv

(* The invariant holds in every reachable state.                           *)
THEOREM FramingInvariant == Spec => []FramingInv
<1>1. Init => FramingInv
  BY Initially
<1>2. FramingInv /\ [Next]_vars => FramingInv'
  <2> SUFFICES ASSUME FramingInv, [Next]_vars
               PROVE  FramingInv'
    OBVIOUS
  <2>1. CASE PeerSend
    BY <2>1, SendStep
  <2>2. CASE OnData
    BY <2>2, DataStep
  <2>3. CASE UNCHANGED vars
    BY <2>3 DEF vars, FramingInv, Layout, EndOf, Sent, CarriedLengthIsCurrent,
                TypeOK, DeliveredByNonce, NeverOutOfOrder, FrameOf,
                FrameByFrame, OneFramePerEvent, PartByPart
  <2> QED
    BY <2>1, <2>2, <2>3 DEF Next
<1> QED
  BY <1>1, <1>2, PTL DEF Spec

(* However TCP cuts the stream, what _onData hands to routeMessage is a    *)
(* frame the peer sent, in the order sent, none twice.                     *)
THEOREM OrderKept == Spec => []NeverOutOfOrder
<1>1. FramingInv => NeverOutOfOrder
  BY DEF FramingInv, DeliveredByNonce
<1> QED
  BY <1>1, FramingInvariant, PTL

(* Every variable keeps its type, and a length that _onData carries over   *)
(* in this.l is that of the body that comes next.                          *)
THEOREM CarriedLengthCorrect == Spec => []CarriedLengthIsCurrent
<1>1. FramingInv => CarriedLengthIsCurrent
  BY DEF FramingInv
<1> QED
  BY <1>1, FramingInvariant, PTL

(* With frames that arrive whole, each data event routes exactly the next. *)
THEOREM EventPerFrame == Spec => []OneFramePerEvent
<1>1. FramingInv => OneFramePerEvent
  BY DEF FramingInv, FrameByFrame, OneFramePerEvent
<1> QED
  BY <1>1, FramingInvariant, PTL

(* With frames that arrive one at a time, whole or as a length and a body, *)
(* a frame is routed by the event that completes it.                       *)
THEOREM CompleteFramesRouted == Spec => []CompleteFramesDelivered
<1>1. FramingInv => CompleteFramesDelivered
  <2> SUFFICES ASSUME FramingInv, chunking = "parts",
                      NEW f \in 1..FrameOf(Len(cts)), cts[2 * f].to <= avail
               PROVE  Len(delivered) >= f /\ delivered[f] = f
    BY DEF CompleteFramesDelivered
  <2>1. /\ TypeOK /\ Layout /\ rn \in Nat /\ Len(cts) \in Nat
        /\ Len(cts) % 2 = 0
    BY LenProperties DEF FramingInv, CarriedLengthIsCurrent, TypeOK, Layout
  <2>2. /\ rn <= Len(cts) /\ avail = EndOf(rn)
        /\ Len(delivered) = rn \div 2
        /\ \A i \in 1..Len(delivered) : delivered[i] = i
    BY DEF FramingInv, PartByPart
  <2>3. 2 * f \in 1..Len(cts) /\ f \in Nat
    BY <2>1 DEF FrameOf
  <2>4. 2 * f <= rn
    <3>1. EndOf(2 * f) <= EndOf(rn) /\ 2 * f \in 0..Len(cts) /\ rn \in 0..Len(cts)
      BY <2>1, <2>2, <2>3 DEF EndOf
    <3>2. ~(rn < 2 * f)
      BY <2>1, <3>1, EndsIncrease
    <3> QED
      BY <2>1, <2>3, <3>2
  <2>5. f <= rn \div 2 /\ rn \div 2 \in Nat
    BY <2>1, <2>3, <2>4
  <2> QED
    BY <2>2, <2>3, <2>5
<1> QED
  BY <1>1, FramingInvariant, PTL
=============================================================================
