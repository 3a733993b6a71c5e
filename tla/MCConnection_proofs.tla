------------------------- MODULE MCConnection_proofs -------------------------
(***************************************************************************)
(* Proofs about NoiseTransport, for every RotateAt, Overlap and MaxSend;   *)
(* and the theorems of PeerFraming and PeerSession for the behaviours of   *)
(* the run in which a connection is framed or lives.                       *)
(***************************************************************************)
EXTENDS MCConnection, NoiseTransportInv, TLAPS, FiniteSetTheorems,
        SequenceTheorems

(* The two ends are each other's peer.                                     *)
LEMMA PeerFacts ==
  ASSUME NEW e \in Node
  PROVE  Peer(e) \in Node /\ Peer(e) # e /\ Peer(Peer(e)) = e
BY EndsAssumption DEF Node, Peer

(* hkdf turns a key and a chaining key into a pair of the same kinds.      *)
LEMMA HkdfType ==
  ASSUME NEW ck \in ChainingKey, NEW k \in Key
  PROVE  Hkdf(ck, k) \in Derived
<1>1. [dir |-> k.dir, gen |-> k.gen] \in KeyName
  BY DEF Key, KeyName
<1>2. HkdfChainingKey(ck, k) \in ChainingKey
  BY <1>1, AppendProperties DEF HkdfChainingKey, ChainingKey
<1>3. Append(k.salts, ck) \in Seq(ChainingKey)
  BY AppendProperties DEF Key
<1>4. HkdfKey(ck, k) \in Key
  BY <1>3 DEF HkdfKey, Key
<1> QED
  BY <1>2, <1>4 DEF Hkdf, Derived

(* What the operations on a NoiseState return is a NoiseState.             *)
LEMMA CipherType ==
  ASSUME NEW st \in CipherState
  PROVE  /\ \A m \in Nat : Seal(st, m) \in Ciphertext
         /\ IncrementSendingNonce(st) \in CipherState
         /\ IncrementReceivingNonce(st) \in CipherState
         /\ \A d \in Derived : RotateSendingKeys(st, d) \in CipherState
         /\ \A d \in Derived : RotateReceivingKeys(st, d) \in CipherState
<1>1. \A m \in Nat : Seal(st, m) \in Ciphertext
  BY DEF CipherState, Ciphertext, Seal
<1>2. IncrementSendingNonce(st) \in CipherState
  BY DEF CipherState, IncrementSendingNonce
<1>3. IncrementReceivingNonce(st) \in CipherState
  BY DEF CipherState, IncrementReceivingNonce
<1>4. \A d \in Derived : RotateSendingKeys(st, d) \in CipherState
  BY DEF CipherState, RotateSendingKeys, Derived
<1>5. \A d \in Derived : RotateReceivingKeys(st, d) \in CipherState
  BY DEF CipherState, RotateReceivingKeys, Derived
<1> QED
  BY <1>1, <1>2, <1>3, <1>4, <1>5

(* SuspendSend and Transmit keep the types of what they write.             *)
LEMMA SuspendSendType ==
  ASSUME TypeOK, NEW e \in Node, NEW st \in CipherState,
         NEW rest \in SUBSET PendingSend, NEW cts \in Seq(Ciphertext),
         NEW m \in Nat, SuspendSend(e, st, rest, cts, m)
  PROVE  /\ ns' \in [Node -> CipherState]
         /\ sending' \in [Node -> SUBSET PendingSend]
         /\ wire' \in [Node -> Seq(Ciphertext)]
<1>1. Hkdf(st.ck, st.sk) \in Derived
  BY HkdfType DEF CipherState
<1>2. [cts |-> cts, msg |-> m, derived |-> Hkdf(st.ck, st.sk)] \in PendingSend
  BY <1>1 DEF PendingSend
<1> QED
  BY <1>2 DEF SuspendSend, TypeOK

LEMMA TransmitType ==
  ASSUME TypeOK, NEW e \in Node, NEW st \in CipherState,
         NEW rest \in SUBSET PendingSend, NEW cts \in Seq(Ciphertext),
         Transmit(e, st, rest, cts)
  PROVE  /\ ns' \in [Node -> CipherState]
         /\ sending' \in [Node -> SUBSET PendingSend]
         /\ wire' \in [Node -> Seq(Ciphertext)]
<1>1. wire[e] \o cts \in Seq(Ciphertext)
  BY ConcatProperties DEF TypeOK
<1> QED
  BY <1>1 DEF Transmit, TypeOK

LEMMA EncryptBodyType ==
  ASSUME TypeOK, NEW e \in Node, NEW st \in CipherState,
         NEW rest \in SUBSET PendingSend, NEW lc \in Ciphertext,
         NEW m \in Nat, EncryptBody(e, st, rest, lc, m)
  PROVE  /\ ns' \in [Node -> CipherState]
         /\ sending' \in [Node -> SUBSET PendingSend]
         /\ wire' \in [Node -> Seq(Ciphertext)]
<1> DEFINE cts == <<lc, Seal(st, m)>>
           next == IncrementSendingNonce(st)
<1>1. cts \in Seq(Ciphertext) /\ next \in CipherState
  <2>1. Seal(st, m) \in Ciphertext /\ next \in CipherState
    BY CipherType
  <2> QED
    BY <2>1
<1>2. SuspendSend(e, next, rest, cts, m) \/ Transmit(e, next, rest, cts)
  BY DEF EncryptBody
<1> QED
  BY <1>1, <1>2, SuspendSendType, TransmitType

(* Every step of an end keeps the types.                                   *)
LEMMA TypeStep ==
  ASSUME TypeOK, NEW e \in Node, Step(e)
  PROVE  TypeOK'
<1>0. ns[e] \in CipherState
  BY DEF TypeOK
<1>1. CASE EncryptMessage(e)
  <2> DEFINE m == asked[e] + 1
             lc == Seal(ns[e], m)
             next == IncrementSendingNonce(ns[e])
  <2>1. m \in Nat /\ sending[e] \in SUBSET PendingSend
    BY DEF TypeOK
  <2>2. lc \in Ciphertext /\ next \in CipherState
    BY <1>0, <2>1, CipherType
  <2>3. <<lc>> \in Seq(Ciphertext)
    BY <2>2
  <2>4. \/ SuspendSend(e, next, sending[e], <<lc>>, m)
        \/ EncryptBody(e, next, sending[e], lc, m)
    BY <1>1 DEF EncryptMessage
  <2>5. /\ ns' \in [Node -> CipherState]
        /\ sending' \in [Node -> SUBSET PendingSend]
        /\ wire' \in [Node -> Seq(Ciphertext)]
    BY <2>1, <2>2, <2>3, <2>4, SuspendSendType, EncryptBodyType
  <2>6. asked' \in [Node -> Nat] /\ UNCHANGED <<receiving, read, delivered>>
    BY <1>1 DEF EncryptMessage, TypeOK
  <2> QED
    BY <2>5, <2>6 DEF TypeOK
<1>2. CASE ResumeEncrypt(e)
  <2>1. PICK call \in sending[e] :
          LET st == RotateSendingKeys(ns[e], call.derived)
              rest == sending[e] \ {call}
          IN IF Len(call.cts) = 1
             THEN EncryptBody(e, st, rest, call.cts[1], call.msg)
             ELSE Transmit(e, st, rest, call.cts)
    BY <1>2 DEF ResumeEncrypt
  <2> DEFINE st == RotateSendingKeys(ns[e], call.derived)
             rest == sending[e] \ {call}
  <2>2. call \in PendingSend /\ rest \in SUBSET PendingSend
    BY DEF TypeOK
  <2>3. st \in CipherState
    BY <1>0, <2>2, CipherType DEF PendingSend
  <2>4. call.msg \in Nat /\ call.cts \in Seq(Ciphertext)
    BY <2>2 DEF PendingSend
  <2>5. Len(call.cts) = 1 => call.cts[1] \in Ciphertext
    BY <2>4
  <2>6. /\ ns' \in [Node -> CipherState]
        /\ sending' \in [Node -> SUBSET PendingSend]
        /\ wire' \in [Node -> Seq(Ciphertext)]
    <3> HIDE DEF st, rest
    <3>1. CASE Len(call.cts) = 1
      BY <2>1, <2>2, <2>3, <2>4, <2>5, <3>1, EncryptBodyType DEF st, rest
    <3>2. CASE Len(call.cts) # 1
      BY <2>1, <2>2, <2>3, <2>4, <3>2, TransmitType DEF st, rest
    <3> QED
      BY <3>1, <3>2
  <2>7. UNCHANGED <<receiving, read, asked, delivered>>
    BY <1>2 DEF ResumeEncrypt
  <2> QED
    BY <2>6, <2>7 DEF TypeOK
<1>3. ASSUME NEW msgs \in Seq(Nat), Opened(e, msgs)
      PROVE  /\ ns' \in [Node -> CipherState]
             /\ receiving' \in [Node -> SUBSET PendingReceive]
             /\ read' \in [Node -> Nat]
             /\ delivered' \in [Node -> Seq(Nat)]
  <2> DEFINE st == IncrementReceivingNonce(ns[e])
  <2>1. st \in CipherState
    BY <1>0, CipherType
  <2>2. Hkdf(st.ck, st.rk) \in Derived
    BY <2>1, HkdfType DEF CipherState
  <2>3. [msgs |-> msgs, derived |-> Hkdf(st.ck, st.rk)] \in PendingReceive
    BY <2>2 DEF PendingReceive
  <2>4. delivered[e] \o msgs \in Seq(Nat)
    BY ConcatProperties DEF TypeOK
  <2>5. ns' \in [Node -> CipherState] /\ read' \in [Node -> Nat]
    BY <1>3, <2>1 DEF Opened, TypeOK
  <2>6. receiving' \in [Node -> SUBSET PendingReceive]
    <3> DEFINE call == [msgs |-> msgs, derived |-> Hkdf(st.ck, st.rk)]
    <3>1. \/ receiving' = [receiving EXCEPT ![e] = @ \cup {call}]
          \/ receiving' = receiving
      BY <1>3 DEF Opened
    <3>2. receiving \in [Node -> SUBSET PendingReceive]
      BY DEF TypeOK
    <3>3. call \in PendingReceive
      BY <2>3
    <3> HIDE DEF call
    <3> QED
      BY <3>1, <3>2, <3>3
  <2>7. delivered' \in [Node -> Seq(Nat)]
    <3>1. \/ delivered' = [delivered EXCEPT ![e] = @ \o msgs]
          \/ delivered' = delivered
      BY <1>3 DEF Opened
    <3>2. delivered \in [Node -> Seq(Nat)]
      BY DEF TypeOK
    <3> QED
      BY <2>4, <3>1, <3>2
  <2> QED
    BY <2>5, <2>6, <2>7
<1>4. ASSUME NEW n \in Nat, Rejected(e, n)
      PROVE  /\ ns' \in [Node -> CipherState]
             /\ receiving' \in [Node -> SUBSET PendingReceive]
             /\ read' \in [Node -> Nat]
             /\ delivered' \in [Node -> Seq(Nat)]
  BY <1>4 DEF Rejected, TypeOK
<1>5. CASE DecryptLength(e)
  <2>1. Opened(e, << >>) \/ Rejected(e, 2)
    BY <1>5 DEF DecryptLength
  <2>2. UNCHANGED <<sending, wire, asked>>
    BY <1>5 DEF DecryptLength
  <2>3. << >> \in Seq(Nat)
    OBVIOUS
  <2> QED
    BY <1>3, <1>4, <2>1, <2>2, <2>3 DEF TypeOK
<1>6. CASE DecryptMessage(e)
  <2>1. Opened(e, <<NextCiphertext(e).msg>>) \/ Rejected(e, 1)
    BY <1>6 DEF DecryptMessage
  <2>2. UNCHANGED <<sending, wire, asked>>
    BY <1>6 DEF DecryptMessage
  <2>3. NextCiphertext(e) \in Ciphertext
    <3>1. read[e] \in Nat /\ wire[Peer(e)] \in Seq(Ciphertext)
      BY PeerFacts DEF TypeOK
    <3>2. read[e] < Len(wire[Peer(e)])
      BY <1>6 DEF DecryptMessage, MayDecrypt, Available
    <3> QED
      BY <3>1, <3>2 DEF NextCiphertext
  <2>4. <<NextCiphertext(e).msg>> \in Seq(Nat)
    BY <2>3 DEF Ciphertext
  <2> QED
    BY <1>3, <1>4, <2>1, <2>2, <2>4 DEF TypeOK
<1>7. CASE ResumeDecrypt(e)
  <2>1. PICK call \in receiving[e] :
          /\ ns' = [ns EXCEPT ![e] = RotateReceivingKeys(@, call.derived)]
          /\ receiving' = [receiving EXCEPT ![e] = @ \ {call}]
          /\ delivered' = [delivered EXCEPT ![e] = @ \o call.msgs]
    BY <1>7 DEF ResumeDecrypt
  <2>2. call \in PendingReceive
    BY DEF TypeOK
  <2>3. RotateReceivingKeys(ns[e], call.derived) \in CipherState
    BY <1>0, <2>2, CipherType DEF PendingReceive
  <2>4. delivered[e] \o call.msgs \in Seq(Nat)
    BY <2>2, ConcatProperties DEF TypeOK, PendingReceive
  <2>5. UNCHANGED <<sending, wire, read, asked>>
    BY <1>7 DEF ResumeDecrypt
  <2> QED
    BY <2>1, <2>3, <2>4, <2>5 DEF TypeOK
<1> QED
  BY <1>1, <1>2, <1>5, <1>6, <1>7 DEF Step

(* Whatever the scheduling, every reachable state is well typed: the keys, *)
(* nonces and pending calls of noise-state.js keep their shapes.           *)
THEOREM TypeCorrect == Spec => []TypeOK
<1>1. Init => TypeOK
  <2> SUFFICES ASSUME Init PROVE TypeOK
    OBVIOUS
  <2>1. ASSUME NEW e \in Node PROVE InitCipher(e) \in CipherState
    BY <2>1, PeerFacts
       DEF InitCipher, CipherState, BaseKey, Key, ChainingKey, KeyName
  <2>2. ns \in [Node -> CipherState]
    BY <2>1 DEF Init
  <2> QED
    BY <2>2 DEF Init, TypeOK
<1>2. TypeOK /\ [Next]_vars => TypeOK'
  <2> SUFFICES ASSUME TypeOK, [Next]_vars PROVE TypeOK'
    OBVIOUS
  <2>1. CASE Next
    BY <2>1, TypeStep DEF Next
  <2>2. CASE UNCHANGED vars
    BY <2>2 DEF vars, TypeOK
  <2> QED
    BY <2>1, <2>2
<1> QED
  BY <1>1, <1>2, PTL DEF Spec

(***************************************************************************)
(* The sealed log.                                                         *)
(***************************************************************************)

(* Sealing one more ciphertext at the log's position keeps the log well    *)
(* sealed, whether the key is kept or a fresh one follows.                 *)
LEMMA ExtendLog ==
  ASSUME NEW log \in Seq(Ciphertext), NEW k \in Key, NEW n \in Nat,
         WellSealed(log, k, n),
         NEW c \in Ciphertext, c.key = k, c.nonce = n,
         c.msg = (Len(log) + 2) \div 2,
         NEW k2 \in Key, NEW n2 \in Nat, Follows(c, k2, n2),
         k2.gen = k.gen => k2 = k
  PROVE  WellSealed(Append(log, c), k2, n2)
<1> DEFINE M == Append(log, c)
           N == Len(log)
<1>1. /\ M \in Seq(Ciphertext) /\ Len(M) = N + 1 /\ N \in Nat
      /\ \A i \in 1..N : M[i] = log[i]
      /\ M[N + 1] = c
  BY AppendProperties
<1>2. \A i \in 1..N : log[i] \in Ciphertext
  OBVIOUS
<1>3. \A i \in 1..Len(M) : i \in 1..N \/ i = N + 1
  BY <1>1
<1>4. k.gen \in Nat /\ k2.gen \in Nat /\ (k2.gen = k.gen \/ k2.gen = k.gen + 1)
  BY DEF Follows, Key
<1>5. \A i \in 1..N : log[i].key.gen \in Nat /\ log[i].nonce \in Nat
  BY <1>2 DEF Ciphertext, Key
<1>6. Less(c, k2, n2)
  BY <1>4 DEF Follows, Less, Ciphertext
<1>7. \A i \in 1..N : Less(log[i], k, n)
  BY DEF WellSealed
<1> HIDE DEF M, N
<1>8. ASSUME NEW i \in 1..Len(M)
      PROVE  After(M, i - 1, M[i].key, M[i].nonce)
  <2>1. CASE i = N + 1
    <3>1. After(log, N, k, n)
      BY DEF WellSealed, N
    <3>2. N # 0 => N \in 1..N /\ M[N] = log[N]
      BY <1>1
    <3> QED
      BY <1>1, <2>1, <3>1, <3>2 DEF After
  <2>2. CASE i \in 1..N
    <3>1. After(log, i - 1, log[i].key, log[i].nonce)
      BY <2>2 DEF WellSealed, N
    <3>2. i - 1 # 0 => i - 1 \in 1..N /\ M[i - 1] = log[i - 1]
      BY <1>1, <2>2
    <3> QED
      BY <1>1, <2>2, <3>1, <3>2 DEF After
  <2> QED
    BY <1>3, <2>1, <2>2
<1>9. After(M, Len(M), k2, n2)
  BY <1>1 DEF After
<1>10. ASSUME NEW i \in 1..Len(M)
       PROVE  Less(M[i], k2, n2)
  <2>1. CASE i = N + 1
    BY <1>1, <1>6, <2>1
  <2>2. CASE i \in 1..N
    <3>1. Less(log[i], k, n)
      BY <1>7, <2>2
    <3>2. k2.gen = k.gen => n < n2
      BY <1>4 DEF Follows
    <3> QED
      BY SMTT(30), <1>1, <1>4, <1>5, <2>2, <3>1, <3>2 DEF Less
  <2> QED
    BY <1>3, <2>1, <2>2
<1>11. ASSUME NEW i \in 1..Len(M), M[i].key.gen = k2.gen
       PROVE  M[i].key = k2
  <2>1. CASE i = N + 1
    BY <1>1, <1>11, <2>1
  <2>2. CASE i \in 1..N
    <3>1. M[i] = log[i] /\ Less(log[i], k, n)
      BY <1>1, <1>7, <2>2
    <3>2. log[i].key.gen <= k.gen
      BY <1>4, <1>5, <2>2, <3>1 DEF Less
    <3>3. k2.gen = k.gen
      BY <1>4, <1>5, <1>11, <2>2, <3>1, <3>2
    <3>4. log[i].key = k
      BY <1>11, <2>2, <3>1, <3>3 DEF WellSealed, N
    <3> QED
      BY <3>1, <3>3, <3>4
  <2> QED
    BY <1>3, <2>1, <2>2
<1>12. ASSUME NEW i \in 1..Len(M), NEW j \in 1..Len(M),
              M[i].key.gen = M[j].key.gen
       PROVE  M[i].key = M[j].key
  <2>1. \A h \in 1..N : log[h].key.gen = k.gen => log[h].key = k
    BY DEF WellSealed, N
  <2>2. CASE i \in 1..N /\ j \in 1..N
    BY <1>1, <1>12, <2>2 DEF WellSealed, N
  <2>3. CASE i = N + 1 \/ j = N + 1
    BY <1>1, <1>3, <1>12, <2>1, <2>3
  <2> QED
    BY <1>3, <2>2, <2>3
<1>13. ASSUME NEW i \in 1..Len(M), NEW j \in 1..Len(M), i < j
       PROVE  Less(M[i], M[j].key, M[j].nonce)
  <2>1. i \in 1..N
    BY <1>1, <1>3, <1>13
  <2>2. CASE j \in 1..N
    BY <1>1, <1>13, <2>1, <2>2 DEF WellSealed, N
  <2>3. CASE j = N + 1
    BY <1>1, <1>7, <2>1, <2>3
  <2> QED
    BY <1>3, <2>2, <2>3
<1>14. ASSUME NEW i \in 1..Len(M)
       PROVE  M[i].msg = (i + 1) \div 2
  <2>1. CASE i \in 1..N
    BY <1>1, <2>1 DEF WellSealed, N
  <2>2. CASE i = N + 1
    BY <1>1, <2>2 DEF N
  <2> QED
    BY <1>3, <2>1, <2>2
<1>15. WellSealed(M, k2, n2)
  BY <1>8, <1>9, <1>10, <1>11, <1>12, <1>13, <1>14 DEF WellSealed
<1> QED
  BY <1>15 DEF M

(* A receiver that is synced with a log, or dead, stays so when the log    *)
(* grows by one ciphertext under the log's key.                            *)
LEMMA ExtendReceiver ==
  ASSUME TypeOK, NEW r \in Node,
         NEW log \in Seq(Ciphertext), NEW k \in Key,
         Synced(r, log) \/ Dead(r, log, k),
         NEW c \in Ciphertext, c.key = k,
         NEW k2 \in Key, k2 = k \/ k2.gen = k.gen + 1
  PROVE  Synced(r, Append(log, c)) \/ Dead(r, Append(log, c), k2)
<1> DEFINE M == Append(log, c)
<1>1. /\ M \in Seq(Ciphertext) /\ Len(M) = Len(log) + 1 /\ Len(log) \in Nat
      /\ \A i \in 1..Len(log) : M[i] = log[i]
      /\ M[Len(log) + 1] = c
  BY AppendProperties
<1>2. read[r] \in Nat /\ ns[r].rk \in Key
  BY DEF TypeOK, CipherState
<1> HIDE DEF M
<1>3. CASE Synced(r, log)
  <2>1. read[r] <= Len(log)
    BY <1>3 DEF Synced
  <2>2. read[r] # 0 => read[r] \in 1..Len(log) /\ M[read[r]] = log[read[r]]
    BY <1>1, <1>2, <2>1
  <2>3. Synced(r, M)
    BY <1>1, <1>2, <1>3, <2>1, <2>2 DEF Synced, After
  <2> QED
    BY <2>3 DEF M
<1>4. CASE Dead(r, log, k)
  <2>1. ns[r].rk.gen <= k.gen /\ k # ns[r].rk /\ receiving[r] = {}
    BY <1>4 DEF Dead
  <2>2. ns[r].rk.gen <= k2.gen /\ k2 # ns[r].rk
    BY <1>2, <2>1 DEF Key
  <2>3. \A i \in 1..Len(M) : i > read[r] => M[i].key # ns[r].rk
    BY <1>1, <1>4, <2>1 DEF Dead
  <2>4. \E i \in 1..Len(M) : M[i].key.gen = ns[r].rk.gen /\ M[i].key # ns[r].rk
    <3>1. PICK i \in 1..Len(log) :
            log[i].key.gen = ns[r].rk.gen /\ log[i].key # ns[r].rk
      BY <1>4 DEF Dead
    <3>2. i \in 1..Len(M) /\ M[i] = log[i]
      BY <1>1
    <3> QED
      BY <3>1, <3>2
  <2>5. Dead(r, M, k2)
    BY <2>1, <2>2, <2>3, <2>4 DEF Dead
  <2> QED
    BY <2>5 DEF M
<1> QED
  BY <1>3, <1>4

(* Appending one or two ciphertexts at once.                               *)
LEMMA ConcatTwo ==
  ASSUME NEW s \in Seq(Ciphertext), NEW a \in Ciphertext, NEW b \in Ciphertext
  PROVE  /\ s \o <<a>> = Append(s, a)
         /\ s \o <<a, b>> = Append(Append(s, a), b)
<1>1. s \o <<a>> = Append(s, a)
  OBVIOUS
<1>2. s \o <<a, b>> = Append(Append(s, a), b)
  OBVIOUS
<1> QED
  BY <1>1, <1>2

(* A call starts only when none of its kind is pending.                    *)
LEMMA StartAlone ==
  ASSUME AwaitedCalls, NEW calls, SingleCall(calls), Cardinality(calls) < Overlap,
         HkdfYields \/ calls = {}
  PROVE  calls = {}
<1>1. CASE ~HkdfYields
  BY <1>1
<1>2. CASE Overlap = 1
  <2>1. ASSUME NEW call \in calls, calls = {call} PROVE FALSE
    <3>1. Cardinality(calls) = 1
      BY <2>1, FS_Singleton
    <3> QED
      BY <1>2, <3>1
  <2> QED
    BY <2>1 DEF SingleCall
<1> QED
  BY <1>1, <1>2 DEF AwaitedCalls

(* Sealing a body, from encryptMessage or from a rotation after the        *)
(* length, extends the log by that body and moves to the next position.    *)
LEMMA SealBody ==
  ASSUME TypeOK, NEW e \in Node, NEW st \in CipherState, NEW lc \in Ciphertext,
         NEW m \in Nat, EncryptBody(e, st, {}, lc, m),
         WellSealed(Append(wire[e], lc), st.sk, st.sn),
         Len(wire[e]) + 2 = 2 * m,
         asked'[e] = m
  PROVE  \E c \in Ciphertext, k \in Key, n \in Nat :
           /\ c.key = st.sk
           /\ k = st.sk \/ k.gen = st.sk.gen + 1
           /\ LET log == Append(Append(wire[e], lc), c)
              IN /\ WellSealed(log, k, n)
                 /\ Positions(e)' = {[log |-> log, key |-> k, nonce |-> n]}
           /\ SingleCall(sending[e])'
           /\ SendCounts(e)'
           /\ ns'[e].rk = st.rk /\ ns'[e].rn = st.rn
<1> DEFINE c == Seal(st, m)
           next == IncrementSendingNonce(st)
           log1 == Append(wire[e], lc)
           log == Append(log1, c)
           cts == <<lc, c>>
<1>1. wire[e] \in Seq(Ciphertext) /\ st.sk \in Key /\ st.sn \in Nat
  BY DEF TypeOK, CipherState
<1>2. c \in Ciphertext /\ next \in CipherState
  BY CipherType
<1>3. log1 \in Seq(Ciphertext) /\ Len(log1) = Len(wire[e]) + 1 /\ Len(wire[e]) \in Nat
  BY <1>1
<1>4. c.key = st.sk /\ c.nonce = st.sn /\ c.msg = m
  BY DEF Seal
<1>5. c.msg = (Len(log1) + 2) \div 2
  <2>1. Len(log1) + 2 = 2 * m + 1
    BY <1>3
  <2>2. (2 * m + 1) \div 2 = m
    OBVIOUS
  <2> QED
    BY <1>4, <2>1, <2>2
<1>6. /\ next.sk = st.sk /\ next.sn = st.sn + 1
      /\ next.ck = st.ck /\ next.rk = st.rk /\ next.rn = st.rn
  BY DEF IncrementSendingNonce, CipherState
<1>7. wire[e] \o cts = log
  BY <1>1, <1>2, ConcatTwo
<1>8. Len(cts) = 2
  OBVIOUS
<1>9. IF next.sn >= RotateAt THEN SuspendSend(e, next, {}, cts, m)
                             ELSE Transmit(e, next, {}, cts)
  BY DEF EncryptBody, SendingExpired
<1> HIDE DEF c, next, log1, log, cts
<1>10. CASE next.sn >= RotateAt
  <2> DEFINE d == Hkdf(next.ck, next.sk)
             call == [cts |-> cts, msg |-> m, derived |-> d]
  <2>1. d.key \in Key /\ d.key.gen = st.sk.gen + 1
    <3>1. d \in Derived
      BY <1>2, HkdfType DEF CipherState
    <3>2. d.key = HkdfKey(next.ck, next.sk)
      BY DEF Hkdf
    <3> QED
      BY <1>6, <3>1, <3>2 DEF Derived, HkdfKey
  <2>2. Follows(c, d.key, 0)
    BY <1>4, <1>6, <1>10, <2>1 DEF Follows
  <2>3. WellSealed(log, d.key, 0)
    <3>1. d.key.gen = st.sk.gen => d.key = st.sk
      BY <1>1, <2>1 DEF Key
    <3> HIDE DEF d
    <3> QED
      BY <1>1, <1>2, <1>3, <1>4, <1>5, <2>1, <2>2, <3>1, ExtendLog DEF log, log1
  <2>4. /\ ns'[e] = next
        /\ sending'[e] = {call}
        /\ wire'[e] = wire[e]
    BY <1>9, <1>10 DEF SuspendSend, TypeOK
  <2> HIDE DEF d
  <2>5. Positions(e)' = {[log |-> log, key |-> d.key, nonce |-> 0]}
    <3>1. Positions(e)' =
            {[log |-> wire[e] \o x.cts, key |-> x.derived.key, nonce |-> 0] :
               x \in {call}}
      BY <2>4 DEF Positions
    <3>2. call.cts = cts /\ call.derived.key = d.key
      OBVIOUS
    <3> QED
      BY <1>7, <3>1, <3>2
  <2>6. SingleCall(sending[e])' /\ SendCounts(e)'
    <3>1. SingleCall(sending[e])'
      BY <2>4 DEF SingleCall
    <3>2. call.msg = m /\ Len(call.cts) = 2
      BY <1>8
    <3>3. SendCounts(e)'
      <4> HIDE DEF call
      <4> QED
        BY <1>3, <2>4, <3>2 DEF SendCounts
    <3> QED
      BY <3>1, <3>3
  <2> QED
    BY <1>2, <1>4, <1>6, <2>1, <2>3, <2>4, <2>5, <2>6 DEF log, log1
<1>11. CASE ~(next.sn >= RotateAt)
  <2>1. Follows(c, st.sk, next.sn)
    BY <1>1, <1>4, <1>6, <1>11 DEF Follows
  <2>2. next.sn \in Nat
    BY <1>1, <1>6
  <2>3. WellSealed(log, st.sk, next.sn)
    BY <1>1, <1>2, <1>3, <1>4, <1>5, <2>1, <2>2, ExtendLog DEF log, log1
  <2>4. /\ ns'[e] = next
        /\ sending'[e] = {}
        /\ wire'[e] = wire[e] \o cts
    BY <1>9, <1>11 DEF Transmit, TypeOK
  <2>5. Positions(e)' = {[log |-> log, key |-> st.sk, nonce |-> next.sn]}
    BY <1>6, <1>7, <2>4 DEF Positions
  <2>6. Len(log) = Len(wire[e]) + 2
    BY <1>2, <1>3 DEF log
  <2>7. SingleCall(sending[e])' /\ SendCounts(e)'
    BY <1>7, <2>4, <2>6 DEF SingleCall, SendCounts
  <2> QED
    BY <1>1, <1>2, <1>4, <1>6, <2>2, <2>3, <2>4, <2>5, <2>7 DEF log, log1
<1> QED
  BY <1>10, <1>11

(***************************************************************************)
(* The sending side of a pair.                                             *)
(***************************************************************************)
Follower(e, log, k) == Synced(Peer(e), log) \/ Dead(Peer(e), log, k)

(* A step of encryptMessage keeps its log well sealed and its peer synced  *)
(* or dead, and leaves the receiving fields of its own state alone.        *)
LEMMA SendStep ==
  ASSUME TypeOK, AwaitedCalls, NEW e \in Node, PairInv(e),
         EncryptMessage(e) \/ ResumeEncrypt(e)
  PROVE  /\ SingleCall(sending[e])' /\ SendCounts(e)'
         /\ \A p \in Positions(e)' : /\ WellSealed(p.log, p.key, p.nonce)
                                     /\ Follower(e, p.log, p.key)
         /\ ns'[e].rk = ns[e].rk /\ ns'[e].rn = ns[e].rn
<1> DEFINE Goal ==
      /\ SingleCall(sending[e])' /\ SendCounts(e)'
      /\ \A p \in Positions(e)' : /\ WellSealed(p.log, p.key, p.nonce)
                                  /\ Follower(e, p.log, p.key)
      /\ ns'[e].rk = ns[e].rk /\ ns'[e].rn = ns[e].rn
<1>0. /\ ns[e] \in CipherState /\ ns[e].sk \in Key /\ ns[e].sn \in Nat
      /\ wire[e] \in Seq(Ciphertext) /\ Len(wire[e]) \in Nat
      /\ asked[e] \in Nat /\ Peer(e) \in Node
  BY PeerFacts DEF TypeOK, CipherState
<1>1. /\ SingleCall(sending[e]) /\ SendCounts(e)
      /\ \A p \in Positions(e) : /\ WellSealed(p.log, p.key, p.nonce)
                                 /\ Follower(e, p.log, p.key)
  BY DEF PairInv, Follower
<1>2. ASSUME NEW st \in CipherState, NEW lc \in Ciphertext, NEW m \in Nat,
             EncryptBody(e, st, {}, lc, m),
             WellSealed(Append(wire[e], lc), st.sk, st.sn),
             Follower(e, Append(wire[e], lc), st.sk),
             Len(wire[e]) + 2 = 2 * m, asked'[e] = m,
             st.rk = ns[e].rk, st.rn = ns[e].rn
      PROVE  Goal
  <2>1. PICK c \in Ciphertext, k \in Key, n \in Nat :
          /\ c.key = st.sk
          /\ k = st.sk \/ k.gen = st.sk.gen + 1
          /\ WellSealed(Append(Append(wire[e], lc), c), k, n)
          /\ Positions(e)' =
               {[log |-> Append(Append(wire[e], lc), c), key |-> k, nonce |-> n]}
          /\ SingleCall(sending[e])' /\ SendCounts(e)'
          /\ ns'[e].rk = st.rk /\ ns'[e].rn = st.rn
    BY ZenonT(60), <1>2, SealBody
  <2> DEFINE log1 == Append(wire[e], lc)
  <2>2. log1 \in Seq(Ciphertext) /\ st.sk \in Key
    BY <1>0 DEF CipherState
  <2>3. Synced(Peer(e), log1) \/ Dead(Peer(e), log1, st.sk)
    BY <1>2 DEF Follower
  <2> HIDE DEF log1
  <2>4. Follower(e, Append(log1, c), k)
    BY <1>0, <2>1, <2>2, <2>3, ExtendReceiver DEF Follower
  <2> QED
    BY <1>2, <2>1, <2>4 DEF log1
<1>3. CASE EncryptMessage(e)
  <2> DEFINE m == asked[e] + 1
             lc == Seal(ns[e], m)
             next == IncrementSendingNonce(ns[e])
             log1 == Append(wire[e], lc)
  <2>1. sending[e] = {}
    BY <1>1, <1>3, StartAlone DEF EncryptMessage, Turn
  <2>2. Len(wire[e]) = 2 * asked[e]
    BY <1>1, <2>1 DEF SendCounts
  <2>3. /\ WellSealed(wire[e], ns[e].sk, ns[e].sn)
        /\ Follower(e, wire[e], ns[e].sk)
    <3>1. [log |-> wire[e], key |-> ns[e].sk, nonce |-> ns[e].sn] \in Positions(e)
      BY <2>1 DEF Positions
    <3> QED
      BY <1>1, <3>1
  <2>4. m \in Nat /\ lc \in Ciphertext /\ next \in CipherState
    <3>1. m \in Nat
      BY <1>0
    <3>2. lc \in Ciphertext
      BY <1>0, <3>1, CipherType
    <3>3. next \in CipherState
      BY <1>0, CipherType
    <3> QED
      BY <3>1, <3>2, <3>3
  <2>5. lc.key = ns[e].sk /\ lc.nonce = ns[e].sn /\ lc.msg = m
    BY DEF Seal
  <2>6. /\ next.sk = ns[e].sk /\ next.sn = ns[e].sn + 1 /\ next.ck = ns[e].ck
        /\ next.rk = ns[e].rk /\ next.rn = ns[e].rn
    BY <1>0 DEF IncrementSendingNonce, CipherState
  <2>7. lc.msg = (Len(wire[e]) + 2) \div 2
    BY <1>0, <2>2, <2>5
  <2>8. IF next.sn >= RotateAt THEN SuspendSend(e, next, sending[e], <<lc>>, m)
                               ELSE EncryptBody(e, next, sending[e], lc, m)
    BY <1>3 DEF EncryptMessage, SendingExpired
  <2>9. asked'[e] = m
    BY <1>0, <1>3 DEF EncryptMessage, TypeOK
  <2>10. wire[e] \o <<lc>> = log1 /\ Len(<<lc>>) = 1
    BY <1>0, <2>4, ConcatTwo
  <2> HIDE DEF lc, next, m, log1
  <2>11. ASSUME NEW k2 \in Key, NEW n2 \in Nat, Follows(lc, k2, n2),
                k2 = ns[e].sk \/ k2.gen = ns[e].sk.gen + 1
         PROVE  WellSealed(log1, k2, n2) /\ Follower(e, log1, k2)
    <3>1. k2.gen = ns[e].sk.gen => k2 = ns[e].sk
      BY <1>0, <2>11 DEF Key
    <3>2. WellSealed(log1, k2, n2)
      BY <1>0, <2>3, <2>4, <2>5, <2>7, <2>11, <3>1, ExtendLog DEF log1
    <3>3. Synced(Peer(e), wire[e]) \/ Dead(Peer(e), wire[e], ns[e].sk)
      BY <2>3 DEF Follower
    <3>4. Follower(e, log1, k2)
      BY <1>0, <2>4, <2>5, <2>11, <3>3, ExtendReceiver DEF Follower, log1
    <3> QED
      BY <3>2, <3>4
  <2>12. CASE next.sn >= RotateAt
    <3> DEFINE d == Hkdf(next.ck, next.sk)
               call == [cts |-> <<lc>>, msg |-> m, derived |-> d]
    <3>1. d.key \in Key /\ d.key.gen = ns[e].sk.gen + 1
      <4>1. d \in Derived
        BY <2>4, HkdfType DEF CipherState
      <4>2. d.key = HkdfKey(next.ck, next.sk)
        BY DEF Hkdf
      <4> QED
        BY <2>6, <4>1, <4>2 DEF Derived, HkdfKey
    <3>2. Follows(lc, d.key, 0)
      BY <2>5, <2>6, <2>12, <3>1 DEF Follows
    <3>3. WellSealed(log1, d.key, 0) /\ Follower(e, log1, d.key)
      <4> HIDE DEF d
      <4> QED
        BY <2>11, <3>1, <3>2
    <3>4. ns'[e] = next /\ sending'[e] = {call} /\ wire'[e] = wire[e]
      BY <2>1, <2>8, <2>12 DEF SuspendSend, TypeOK
    <3> HIDE DEF d
    <3>5. call.cts = <<lc>> /\ call.derived.key = d.key /\ call.msg = m
      OBVIOUS
    <3>6. Positions(e)' = {[log |-> log1, key |-> d.key, nonce |-> 0]}
      <4>1. Positions(e)' =
              {[log |-> wire[e] \o x.cts, key |-> x.derived.key, nonce |-> 0] :
                 x \in {call}}
        BY <3>4 DEF Positions
      <4> QED
        BY <2>10, <3>5, <4>1
    <3>7. SingleCall(sending[e])'
      BY <3>4 DEF SingleCall
    <3>8. SendCounts(e)'
      <4>1. Len(wire[e]) + 2 = 2 * m
        BY <1>0, <2>2 DEF m
      <4> HIDE DEF call
      <4> QED
        BY <2>9, <2>10, <3>4, <3>5, <4>1 DEF SendCounts
    <3> QED
      BY <2>6, <3>3, <3>4, <3>6, <3>7, <3>8
  <2>13. CASE ~(next.sn >= RotateAt)
    <3>1. EncryptBody(e, next, {}, lc, m)
      BY <2>1, <2>8, <2>13
    <3>2. Follows(lc, next.sk, next.sn) /\ next.sk \in Key /\ next.sn \in Nat
      BY <1>0, <2>5, <2>6, <2>13 DEF Follows
    <3>3. WellSealed(log1, next.sk, next.sn) /\ Follower(e, log1, next.sk)
      BY <2>6, <2>11, <3>2
    <3>4. Len(wire[e]) + 2 = 2 * m
      BY <1>0, <2>2 DEF m
    <3> QED
      BY <1>2, <2>4, <2>6, <2>9, <3>1, <3>3, <3>4 DEF log1
  <2> QED
    BY <2>12, <2>13
<1>4. CASE ResumeEncrypt(e)
  <2>1. PICK call \in sending[e] :
          LET st == RotateSendingKeys(ns[e], call.derived)
              rest == sending[e] \ {call}
          IN IF Len(call.cts) = 1
             THEN EncryptBody(e, st, rest, call.cts[1], call.msg)
             ELSE Transmit(e, st, rest, call.cts)
    BY <1>4 DEF ResumeEncrypt
  <2> DEFINE st == RotateSendingKeys(ns[e], call.derived)
  <2>2. sending[e] = {call} /\ sending[e] \ {call} = {}
    BY <1>1 DEF SingleCall
  <2>3. call \in PendingSend
    BY DEF TypeOK
  <2>4. /\ call.cts \in Seq(Ciphertext) /\ call.msg \in Nat
        /\ call.derived \in Derived /\ call.derived.key \in Key
    BY <2>3 DEF PendingSend, Derived
  <2>5. st \in CipherState
    BY <1>0, <2>4, CipherType
  <2>6. /\ st.sk = call.derived.key /\ st.sn = 0
        /\ st.rk = ns[e].rk /\ st.rn = ns[e].rn
    BY <1>0 DEF RotateSendingKeys, CipherState
  <2>7. /\ WellSealed(wire[e] \o call.cts, call.derived.key, 0)
        /\ Follower(e, wire[e] \o call.cts, call.derived.key)
    <3>1. [log |-> wire[e] \o call.cts, key |-> call.derived.key, nonce |-> 0]
            \in Positions(e)
      BY <2>2 DEF Positions
    <3> QED
      BY <1>1, <3>1
  <2>8. /\ Len(wire[e]) + 2 = 2 * asked[e] /\ call.msg = asked[e]
        /\ Len(call.cts) \in {1, 2}
    BY <1>1 DEF SendCounts
  <2>9. asked'[e] = asked[e]
    BY <1>4 DEF ResumeEncrypt
  <2>10. IF Len(call.cts) = 1 THEN EncryptBody(e, st, {}, call.cts[1], call.msg)
                              ELSE Transmit(e, st, {}, call.cts)
    BY <2>1, <2>2
  <2> HIDE DEF st
  <2>11. CASE Len(call.cts) = 1
    <3>1. call.cts[1] \in Ciphertext /\ call.cts = <<call.cts[1]>>
      BY <2>4, <2>11
    <3>2. wire[e] \o call.cts = Append(wire[e], call.cts[1])
      BY ZenonT(60), <1>0, <3>1, ConcatTwo
    <3> QED
      BY <1>2, <2>4, <2>5, <2>6, <2>7, <2>8, <2>9, <2>10, <2>11, <3>1, <3>2
  <2>12. CASE Len(call.cts) # 1
    <3>1. Transmit(e, st, {}, call.cts) /\ Len(call.cts) = 2
      BY <2>8, <2>10, <2>12
    <3>2. ns'[e] = st /\ sending'[e] = {} /\ wire'[e] = wire[e] \o call.cts
      BY <3>1 DEF Transmit, TypeOK
    <3>3. Positions(e)' =
            {[log |-> wire[e] \o call.cts, key |-> call.derived.key, nonce |-> 0]}
      BY <2>6, <3>2 DEF Positions
    <3>4. Len(wire'[e]) = Len(wire[e]) + 2
      <4>1. Len(wire[e] \o call.cts) = Len(wire[e]) + Len(call.cts)
        BY <1>0, <2>4, ConcatProperties
      <4> QED
        BY <1>0, <3>1, <3>2, <4>1
    <3>5. SingleCall(sending[e])' /\ SendCounts(e)'
      BY <2>8, <2>9, <3>2, <3>4 DEF SingleCall, SendCounts
    <3> QED
      BY <2>6, <2>7, <3>2, <3>3, <3>5
  <2> QED
    BY <2>11, <2>12
<1> QED
  BY <1>3, <1>4

(***************************************************************************)
(* The receiving side of a pair.                                           *)
(***************************************************************************)

(* Returning nothing, or the next message in order, keeps the messages     *)
(* returned so far in order.                                               *)
LEMMA ReturnInOrder ==
  ASSUME NEW seq \in Seq(Nat), \A i \in 1..Len(seq) : seq[i] = i,
         NEW msgs, msgs = << >> \/ msgs = <<Len(seq) + 1>>
  PROVE  /\ \A i \in 1..Len(seq \o msgs) : (seq \o msgs)[i] = i
         /\ Len(seq \o msgs) = Len(seq) + Len(msgs)
<1>1. CASE msgs = << >>
  <2>1. seq \o msgs = seq /\ Len(msgs) = 0
    BY <1>1
  <2> QED
    BY <2>1
<1>2. CASE msgs = <<Len(seq) + 1>>
  <2>1. seq \o msgs = Append(seq, Len(seq) + 1) /\ Len(msgs) = 1
    BY <1>2
  <2> QED
    BY <2>1, AppendProperties
<1> QED
  BY <1>1, <1>2

(* How a count of ciphertexts relates to a count of messages.              *)
LEMMA Halves ==
  ASSUME NEW r \in Nat
  PROVE  /\ r % 2 = 0 => (r + 1) % 2 = 1 /\ (r + 1) \div 2 = r \div 2
         /\ r % 2 # 0 => /\ r % 2 = 1 /\ (r + 1) % 2 = 0
                         /\ (r + 1) \div 2 = r \div 2 + 1
                         /\ (r + 2) \div 2 = (r + 1) \div 2
OBVIOUS

(* What an end reads next is at that place of any log that extends what    *)
(* its peer has written.                                                   *)
LEMMA NextInLog ==
  ASSUME TypeOK, NEW e \in Node, NEW log \in Seq(Ciphertext),
         Len(wire[Peer(e)]) <= Len(log),
         \A i \in 1..Len(wire[Peer(e)]) : log[i] = wire[Peer(e)][i],
         Available(e)
  PROVE  /\ read[e] + 1 \in 1..Len(wire[Peer(e)])
         /\ read[e] + 1 \in 1..Len(log)
         /\ NextCiphertext(e) = log[read[e] + 1]
         /\ log[read[e] + 1] \in Ciphertext
<1> DEFINE i == read[e] + 1
<1>1. Peer(e) \in Node
  BY PeerFacts
<1>2. read[e] \in Nat /\ wire[Peer(e)] \in Seq(Ciphertext)
  BY <1>1 DEF TypeOK
<1>3. Len(wire[Peer(e)]) \in Nat /\ Len(log) \in Nat
  BY <1>2
<1>4. i \in 1..Len(wire[Peer(e)]) /\ i \in 1..Len(log)
  BY <1>2, <1>3 DEF Available
<1>5. NextCiphertext(e) = wire[Peer(e)][i]
  BY DEF NextCiphertext
<1> HIDE DEF i
<1>6. log[i] \in Ciphertext
  BY <1>4
<1>7. NextCiphertext(e) = log[i]
  BY <1>4, <1>5
<1> QED
  BY <1>4, <1>6, <1>7 DEF i

(* A step of a decrypt call keeps the receiver synced with its peer's log  *)
(* or dead, and what it has returned in order.                             *)
LEMMA ReceiveStep ==
  ASSUME TypeOK, AwaitedCalls, NEW e \in Node,
         NEW log \in Seq(Ciphertext), NEW k \in Key, NEW n \in Nat,
         WellSealed(log, k, n),
         Len(wire[Peer(e)]) <= Len(log),
         \A i \in 1..Len(wire[Peer(e)]) : log[i] = wire[Peer(e)][i],
         Len(log) <= 2 * asked[Peer(e)],
         SingleCall(receiving[e]),
         \A i \in 1..Len(delivered[e]) : delivered[e][i] = i,
         Len(delivered[e]) <= asked[Peer(e)],
         Synced(e, log) \/ Dead(e, log, k),
         DecryptLength(e) \/ DecryptMessage(e) \/ ResumeDecrypt(e)
  PROVE  /\ SingleCall(receiving[e])'
         /\ \A i \in 1..Len(delivered'[e]) : delivered'[e][i] = i
         /\ Len(delivered'[e]) <= asked[Peer(e)]
         /\ (Synced(e, log) \/ Dead(e, log, k))'
         /\ ns'[e].sk = ns[e].sk /\ ns'[e].sn = ns[e].sn
<1> DEFINE Goal ==
      /\ SingleCall(receiving[e])'
      /\ \A i \in 1..Len(delivered'[e]) : delivered'[e][i] = i
      /\ Len(delivered'[e]) <= asked[Peer(e)]
      /\ (Synced(e, log) \/ Dead(e, log, k))'
      /\ ns'[e].sk = ns[e].sk /\ ns'[e].sn = ns[e].sn
<1>0. /\ ns[e] \in CipherState /\ ns[e].rk \in Key /\ ns[e].rn \in Nat
      /\ read[e] \in Nat /\ delivered[e] \in Seq(Nat) /\ Len(delivered[e]) \in Nat
      /\ asked[Peer(e)] \in Nat /\ Len(log) \in Nat
      /\ wire[Peer(e)] \in Seq(Ciphertext) /\ Len(wire[Peer(e)]) \in Nat
  <2>1. Peer(e) \in Node
    BY PeerFacts
  <2>2. ns[e] \in CipherState
    BY DEF TypeOK
  <2>3. ns[e].rk \in Key /\ ns[e].rn \in Nat
    BY <2>2 DEF CipherState
  <2>4. /\ read[e] \in Nat /\ delivered[e] \in Seq(Nat)
        /\ asked[Peer(e)] \in Nat /\ wire[Peer(e)] \in Seq(Ciphertext)
    BY <2>1 DEF TypeOK
  <2>5. /\ Len(delivered[e]) \in Nat /\ Len(log) \in Nat
        /\ Len(wire[Peer(e)]) \in Nat
    BY <2>4
  <2> QED
    BY <2>2, <2>3, <2>4, <2>5
<1>1. ASSUME NEW msgs \in Seq(Nat), receiving[e] = {}, Available(e),
             Opens(ns[e], NextCiphertext(e)), Opened(e, msgs),
             IF AtLength(e) THEN msgs = << >> ELSE msgs = <<NextCiphertext(e).msg>>
      PROVE  Goal
  <2> DEFINE i == read[e] + 1
             c == log[i]
             st == IncrementReceivingNonce(ns[e])
  <2>1. /\ i \in 1..Len(wire[Peer(e)]) /\ i \in 1..Len(log)
        /\ NextCiphertext(e) = c /\ c \in Ciphertext
    BY <1>1, NextInLog
  <2>2. c.key = ns[e].rk /\ c.nonce = ns[e].rn
    BY <1>1, <2>1 DEF Opens
  <2>3. ~Dead(e, log, k)
    <3>1. i > read[e]
      BY <1>0
    <3> HIDE DEF c, i
    <3>2. log[i].key = ns[e].rk
      BY <2>2 DEF c
    <3> QED
      BY <2>1, <3>1, <3>2 DEF Dead
  <2>4. Len(delivered[e]) = read[e] \div 2 /\ read[e] <= Len(log)
    BY <1>1, <2>3 DEF Synced
  <2>5. c.msg = (i + 1) \div 2
    BY <2>1 DEF WellSealed
  <2>6. /\ st.rk = ns[e].rk /\ st.rn = ns[e].rn + 1 /\ st.ck = ns[e].ck
        /\ st.sk = ns[e].sk /\ st.sn = ns[e].sn /\ st \in CipherState
    BY <1>0, CipherType DEF IncrementReceivingNonce, CipherState
  <2>7. ns'[e] = st /\ read'[e] = i
    BY <1>0, <1>1 DEF Opened, TypeOK
  <2>8. AtLength(e) => read[e] % 2 = 0 /\ i % 2 = 1 /\ i \div 2 = read[e] \div 2
    BY <1>0, Halves DEF AtLength
  <2>9. ~AtLength(e) => /\ read[e] % 2 = 1 /\ i % 2 = 0
                        /\ i \div 2 = read[e] \div 2 + 1
                        /\ (i + 1) \div 2 = i \div 2
    <3>1. i + 1 = read[e] + 2
      BY <1>0
    <3> QED
      BY <1>0, <3>1, Halves DEF AtLength
  <2>10. IF AtLength(e) THEN msgs = << >> ELSE msgs = <<i \div 2>>
    BY <1>1, <2>1, <2>5, <2>9
  <2>11. msgs = << >> \/ msgs = <<Len(delivered[e]) + 1>>
    BY <2>4, <2>9, <2>10
  <2> HIDE DEF c, st, i
  <2>12. CASE st.rn >= RotateAt
    <3> DEFINE d == Hkdf(st.ck, st.rk)
               call == [msgs |-> msgs, derived |-> d]
    <3>1. d.key.gen = ns[e].rk.gen + 1
      <4>1. d.key = HkdfKey(st.ck, st.rk)
        BY DEF Hkdf
      <4> QED
        BY <2>6, <4>1 DEF HkdfKey
    <3>2. receiving'[e] = {call} /\ delivered'[e] = delivered[e]
      BY <1>0, <1>1, <2>12 DEF Opened, ReceivingExpired, TypeOK, st
    <3> HIDE DEF d
    <3>3. call.msgs = msgs /\ call.derived = d
      OBVIOUS
    <3> HIDE DEF call
    <3>4. After(log, i, d.key, 0)
      BY <1>0, <2>1, <2>2, <2>6, <2>12, <3>1 DEF After, Follows, c
    <3>5. Synced(e, log)'
      <4>1. read'[e] <= Len(log)
        BY <2>1, <2>7
      <4>2. IF i % 2 = 1
            THEN call.msgs = << >> /\ Len(delivered'[e]) = i \div 2
            ELSE /\ call.msgs = <<i \div 2>>
                 /\ Len(delivered'[e]) + 1 = i \div 2
        BY <2>4, <2>8, <2>9, <2>10, <3>2, <3>3
      <4> QED
        BY <2>7, <3>2, <3>3, <3>4, <4>1, <4>2 DEF Synced
    <3>6. SingleCall(receiving[e])'
      BY <3>2 DEF SingleCall
    <3> QED
      BY <2>6, <2>7, <3>2, <3>5, <3>6
  <2>13. CASE ~(st.rn >= RotateAt)
    <3>1. receiving'[e] = {} /\ delivered'[e] = delivered[e] \o msgs
      BY <1>0, <1>1, <2>13 DEF Opened, ReceivingExpired, TypeOK, st
    <3>2. /\ \A j \in 1..Len(delivered'[e]) : delivered'[e][j] = j
          /\ Len(delivered'[e]) = Len(delivered[e]) + Len(msgs)
      BY <1>0, <2>11, <3>1, ReturnInOrder
    <3>3. Len(delivered'[e]) = i \div 2
      <4>1. CASE AtLength(e)
        <5>1. Len(msgs) = 0
          BY <2>10, <4>1
        <5> QED
          BY <1>0, <2>4, <2>8, <3>2, <4>1, <5>1
      <4>2. CASE ~AtLength(e)
        <5>1. Len(msgs) = 1
          BY <2>10, <4>2
        <5> QED
          BY <1>0, <2>4, <2>9, <3>2, <4>2, <5>1
      <4> QED
        BY <4>1, <4>2
    <3>4. i \div 2 <= asked[Peer(e)]
      BY <1>0, <2>1 DEF i
    <3>5. After(log, i, ns'[e].rk, ns'[e].rn)
      BY <1>0, <2>1, <2>2, <2>6, <2>7, <2>13 DEF After, Follows, c
    <3>6. Synced(e, log)'
      BY <2>1, <2>7, <3>1, <3>3, <3>5 DEF Synced
    <3>7. SingleCall(receiving[e])'
      BY <3>1 DEF SingleCall
    <3> QED
      BY <2>6, <2>7, <3>2, <3>3, <3>4, <3>6, <3>7
  <2> QED
    BY <2>12, <2>13
<1>2. ASSUME NEW m \in Nat, receiving[e] = {}, Available(e),
             ~Opens(ns[e], NextCiphertext(e)), Rejected(e, m)
      PROVE  Goal
  <2> DEFINE i == read[e] + 1
             c == log[i]
  <2>1. /\ i \in 1..Len(wire[Peer(e)]) /\ i \in 1..Len(log)
        /\ NextCiphertext(e) = c /\ c \in Ciphertext
    BY <1>2, NextInLog
  <2>2. ~(c.key = ns[e].rk /\ c.nonce = ns[e].rn)
    BY <1>2, <2>1 DEF Opens
  <2>3. /\ UNCHANGED <<ns, receiving, delivered>>
        /\ read'[e] = read[e] + m
    BY <1>0, <1>2 DEF Rejected, TypeOK
  <2> HIDE DEF c
  <2>4. CASE Synced(e, log)
    <3>1. After(log, read[e], ns[e].rk, ns[e].rn)
      BY <1>2, <2>4 DEF Synced
    <3>2. After(log, read[e], c.key, c.nonce)
      <4>1. After(log, i - 1, c.key, c.nonce)
        BY <2>1 DEF WellSealed, c
      <4>2. i - 1 = read[e]
        BY <1>0
      <4> QED
        BY <4>1, <4>2
    <3>3. c.key.gen = ns[e].rk.gen /\ c.nonce = ns[e].rn
      BY <3>1, <3>2 DEF After, Follows
    <3>4. c.key # ns[e].rk
      BY <2>2, <3>3
    <3>5. c.key.gen <= k.gen
      <4>1. Less(c, k, n)
        BY <2>1 DEF WellSealed, c
      <4>2. c.key.gen \in Nat /\ k.gen \in Nat
        BY <2>1 DEF Ciphertext, Key
      <4> QED
        BY <4>1, <4>2 DEF Less
    <3>6. k # ns[e].rk
      <4>1. c.key.gen = k.gen => c.key = k
        BY <2>1 DEF WellSealed, c
      <4> QED
        BY <3>3, <3>4, <4>1
    <3>7. \A j \in 1..Len(log) : log[j].key # ns[e].rk
      <4>1. \A j \in 1..Len(log) :
              log[j].key.gen = c.key.gen => log[j].key = c.key
        BY <2>1 DEF WellSealed, c
      <4> QED
        BY <3>3, <3>4, <4>1
    <3>8. i \in 1..Len(log) /\ log[i].key.gen = ns[e].rk.gen
          /\ log[i].key # ns[e].rk
      BY <2>1, <3>3, <3>4 DEF c
    <3>9. Dead(e, log, k)'
      BY <1>2, <2>3, <3>3, <3>5, <3>6, <3>7, <3>8 DEF Dead
    <3> QED
      BY <2>3, <3>9
  <2>5. CASE Dead(e, log, k)
    <3>1. \A j \in 1..Len(log) : j > read[e] + m => j > read[e]
      BY <1>0
    <3>2. Dead(e, log, k)'
      BY <2>3, <2>5, <3>1 DEF Dead
    <3> QED
      BY <2>3, <3>2
  <2> QED
    BY <2>4, <2>5
<1>3. CASE DecryptLength(e)
  <2>1. receiving[e] = {}
    BY <1>3, StartAlone DEF DecryptLength, MayDecrypt, Turn
  <2>2. Available(e) /\ AtLength(e)
    BY <1>3 DEF DecryptLength, MayDecrypt
  <2>3. IF Opens(ns[e], NextCiphertext(e)) THEN Opened(e, << >>) ELSE Rejected(e, 2)
    BY <1>3 DEF DecryptLength
  <2>4. << >> \in Seq(Nat)
    OBVIOUS
  <2> QED
    BY <1>1, <1>2, <2>1, <2>2, <2>3, <2>4
<1>4. CASE DecryptMessage(e)
  <2>1. receiving[e] = {}
    BY <1>4, StartAlone DEF DecryptMessage, MayDecrypt, Turn
  <2>2. Available(e) /\ ~AtLength(e)
    BY <1>4 DEF DecryptMessage, MayDecrypt
  <2>3. IF Opens(ns[e], NextCiphertext(e)) THEN Opened(e, <<NextCiphertext(e).msg>>)
                                           ELSE Rejected(e, 1)
    BY <1>4 DEF DecryptMessage
  <2>4. <<NextCiphertext(e).msg>> \in Seq(Nat)
    <3>1. NextCiphertext(e) \in Ciphertext
      BY <2>2, NextInLog
    <3> QED
      BY <3>1 DEF Ciphertext
  <2> QED
    BY <1>1, <1>2, <2>1, <2>2, <2>3, <2>4
<1>5. CASE ResumeDecrypt(e)
  <2>1. PICK call \in receiving[e] :
          /\ ns' = [ns EXCEPT ![e] = RotateReceivingKeys(@, call.derived)]
          /\ receiving' = [receiving EXCEPT ![e] = @ \ {call}]
          /\ delivered' = [delivered EXCEPT ![e] = @ \o call.msgs]
    BY <1>5 DEF ResumeDecrypt
  <2>2. receiving[e] = {call}
    BY DEF SingleCall
  <2>3. Synced(e, log)
    BY <2>2 DEF Dead
  <2>4. /\ read[e] <= Len(log)
        /\ After(log, read[e], call.derived.key, 0)
        /\ IF read[e] % 2 = 1
           THEN call.msgs = << >> /\ Len(delivered[e]) = read[e] \div 2
           ELSE /\ call.msgs = <<read[e] \div 2>>
                /\ Len(delivered[e]) + 1 = read[e] \div 2
    BY <2>3 DEF Synced
  <2>5. receiving'[e] = {} /\ delivered'[e] = delivered[e] \o call.msgs
    BY <1>0, <2>1, <2>2 DEF TypeOK
  <2>6. /\ ns'[e].rk = call.derived.key /\ ns'[e].rn = 0
        /\ ns'[e].sk = ns[e].sk /\ ns'[e].sn = ns[e].sn
    BY <1>0, <2>1 DEF RotateReceivingKeys, CipherState, TypeOK
  <2>7. call.msgs = << >> \/ call.msgs = <<Len(delivered[e]) + 1>>
    BY <2>4
  <2>8. /\ \A j \in 1..Len(delivered'[e]) : delivered'[e][j] = j
        /\ Len(delivered'[e]) = Len(delivered[e]) + Len(call.msgs)
    <3>1. /\ \A j \in 1..Len(delivered[e] \o call.msgs) :
               (delivered[e] \o call.msgs)[j] = j
          /\ Len(delivered[e] \o call.msgs) = Len(delivered[e]) + Len(call.msgs)
      BY <1>0, <2>7, ReturnInOrder
    <3> QED
      BY <2>5, <3>1
  <2>9. Len(delivered'[e]) = read[e] \div 2
    <3>1. CASE read[e] % 2 = 1
      <4>1. Len(call.msgs) = 0
        BY <2>4, <3>1
      <4> QED
        BY <1>0, <2>4, <2>8, <3>1, <4>1
    <3>2. CASE read[e] % 2 # 1
      <4>1. call.msgs = <<read[e] \div 2>>
        BY <2>4, <3>2
      <4>2. Len(call.msgs) = 1
        BY <4>1
      <4> QED
        BY <1>0, <2>4, <2>8, <3>2, <4>2
    <3> QED
      BY <3>1, <3>2
  <2>10. read[e] \div 2 <= asked[Peer(e)]
    BY <1>0, <2>4
  <2>11. read' = read
    BY <1>5 DEF ResumeDecrypt
  <2>12. Synced(e, log)'
    BY <2>4, <2>5, <2>6, <2>9, <2>11 DEF Synced
  <2>13. SingleCall(receiving[e])'
    BY <2>5 DEF SingleCall
  <2> QED
    BY <2>6, <2>8, <2>9, <2>10, <2>12, <2>13
<1> QED
  BY <1>3, <1>4, <1>5

(***************************************************************************)
(* Both sides together.                                                    *)
(***************************************************************************)

(* A concatenation starts with its first part.                             *)
LEMMA ConcatFacts ==
  ASSUME NEW a \in Seq(Ciphertext), NEW b \in Seq(Ciphertext)
  PROVE  /\ a \o b \in Seq(Ciphertext)
         /\ Len(a \o b) = Len(a) + Len(b)
         /\ \A i \in 1..Len(a) : (a \o b)[i] = a[i]
         /\ \A j \in 1..Len(b) : (a \o b)[Len(a) + j] = b[j]
<1>1. ASSUME NEW j \in 1..Len(b) PROVE (a \o b)[Len(a) + j] = b[j]
  <2>1. /\ Len(a) + j \in 1..Len(a) + Len(b) /\ ~(Len(a) + j <= Len(a))
        /\ Len(a) + j - Len(a) = j
    OBVIOUS
  <2> QED
    BY <2>1, ConcatProperties
<1> QED
  BY <1>1, ConcatProperties

(* The log of an end starts with what it has written, and holds at most    *)
(* two ciphertexts per message asked for.                                  *)
LEMMA PositionFacts ==
  ASSUME TypeOK, NEW e \in Node, SendCounts(e), NEW p \in Positions(e)
  PROVE  /\ p.log \in Seq(Ciphertext) /\ p.key \in Key /\ p.nonce \in Nat
         /\ Len(wire[e]) <= Len(p.log)
         /\ \A i \in 1..Len(wire[e]) : p.log[i] = wire[e][i]
         /\ Len(p.log) <= 2 * asked[e]
<1>0. /\ ns[e].sk \in Key /\ ns[e].sn \in Nat /\ asked[e] \in Nat
      /\ wire[e] \in Seq(Ciphertext) /\ Len(wire[e]) \in Nat
  BY DEF TypeOK, CipherState
<1>1. CASE sending[e] = {}
  <2>1. p = [log |-> wire[e], key |-> ns[e].sk, nonce |-> ns[e].sn]
    BY <1>1 DEF Positions
  <2>2. Len(wire[e]) = 2 * asked[e]
    BY <1>1 DEF SendCounts
  <2> QED
    BY <1>0, <2>1, <2>2
<1>2. CASE sending[e] # {}
  <2>1. PICK call \in sending[e] :
          p = [log |-> wire[e] \o call.cts, key |-> call.derived.key, nonce |-> 0]
    BY <1>2 DEF Positions
  <2>2. call \in PendingSend
    BY DEF TypeOK
  <2>3. call.cts \in Seq(Ciphertext) /\ call.derived.key \in Key
    BY <2>2 DEF PendingSend, Derived
  <2>4. Len(wire[e]) + 2 = 2 * asked[e] /\ Len(call.cts) \in {1, 2}
    BY DEF SendCounts
  <2> DEFINE log == wire[e] \o call.cts
  <2>5. /\ log \in Seq(Ciphertext)
        /\ Len(log) = Len(wire[e]) + Len(call.cts)
        /\ \A i \in 1..Len(wire[e]) : log[i] = wire[e][i]
    BY <1>0, <2>3, ConcatFacts
  <2>6. p.log = log /\ p.key = call.derived.key /\ p.nonce = 0
    BY <2>1
  <2> HIDE DEF log
  <2>7. Len(wire[e]) <= Len(log) /\ Len(log) <= 2 * asked[e]
    <3>1. Len(call.cts) = 1 \/ Len(call.cts) = 2
      BY <2>4
    <3>2. Len(log) = Len(wire[e]) + Len(call.cts)
      BY <2>5
    <3>3. \A a, b, c \in Nat :
            a + 2 = 2 * b /\ (c = a + 1 \/ c = a + 2) => a <= c /\ c <= 2 * b
      OBVIOUS
    <3>4. Len(log) = Len(wire[e]) + 1 \/ Len(log) = Len(wire[e]) + 2
      BY <3>1, <3>2
    <3>5. Len(log) \in Nat
      BY <1>0, <3>4
    <3> QED
      BY <1>0, <2>4, <3>3, <3>4, <3>5
  <2>8. p.log \in Seq(Ciphertext) /\ p.key \in Key /\ p.nonce \in Nat
    BY <2>3, <2>5, <2>6
  <2>9. Len(p.log) = Len(log)
    BY <2>6
  <2>10. \A i \in 1..Len(wire[e]) : p.log[i] = wire[e][i]
    BY <2>5, <2>6
  <2> QED
    BY <2>7, <2>8, <2>9, <2>10
<1> QED
  BY <1>1, <1>2

(* No step of either end breaks the invariant of either pair.              *)
LEMMA ChannelStep ==
  ASSUME TypeOK, AwaitedCalls, \A e \in Node : PairInv(e),
         NEW s \in Node, Step(s)
  PROVE  (\A e \in Node : PairInv(e))'
<1> DEFINE t == Peer(s)
<1>0. t \in Node /\ t # s /\ Peer(t) = s /\ \A e \in Node : e = s \/ e = t
  BY PeerFacts DEF Node, Peer
<1>1. PairInv(s) /\ PairInv(t)
  BY <1>0
<1>2. /\ asked[s] \in Nat /\ asked[t] \in Nat
      /\ delivered[t] \in Seq(Nat) /\ Len(delivered[t]) \in Nat
  BY <1>0 DEF TypeOK
<1> SUFFICES PairInv(s)' /\ PairInv(t)'
  BY <1>0
<1> HIDE DEF t
<1>3. CASE EncryptMessage(s) \/ ResumeEncrypt(s)
  <2>1. /\ SingleCall(sending[s])' /\ SendCounts(s)'
        /\ \A p \in Positions(s)' : /\ WellSealed(p.log, p.key, p.nonce)
                                    /\ Follower(s, p.log, p.key)
        /\ ns'[s].rk = ns[s].rk /\ ns'[s].rn = ns[s].rn
    BY <1>1, <1>3, SendStep
  <2>2. UNCHANGED <<receiving, read, delivered>>
    BY <1>3 DEF EncryptMessage, ResumeEncrypt
  <2>3. ns'[t] = ns[t] /\ sending'[t] = sending[t] /\ wire'[t] = wire[t]
    <3>1. \A st, rest, cts, m :
            SuspendSend(s, st, rest, cts, m) \/ Transmit(s, st, rest, cts) =>
              ns'[t] = ns[t] /\ sending'[t] = sending[t] /\ wire'[t] = wire[t]
      BY <1>0 DEF SuspendSend, Transmit, TypeOK
    <3>2. \A st, rest, lc, m :
            EncryptBody(s, st, rest, lc, m) =>
              ns'[t] = ns[t] /\ sending'[t] = sending[t] /\ wire'[t] = wire[t]
      BY <3>1 DEF EncryptBody
    <3> QED
      BY <1>3, <3>1, <3>2 DEF EncryptMessage, ResumeEncrypt
  <2>4. asked'[t] = asked[t] /\ asked[s] <= asked'[s] /\ asked'[s] \in Nat
    BY <1>0, <1>2, <1>3 DEF EncryptMessage, ResumeEncrypt, TypeOK
  <2>5. \A log, k : Follower(s, log, k) => Follower(s, log, k)'
    BY <2>2, <2>3 DEF Follower, Synced, Dead, t
  <2>6. \A log, k : Follower(t, log, k) => Follower(t, log, k)'
    BY <1>0, <2>1, <2>2 DEF Follower, Synced, Dead
  <2>7. PairInv(s)'
    <3>1. /\ SingleCall(receiving[s])
          /\ \A i \in 1..Len(delivered[s]) : delivered[s][i] = i
          /\ Len(delivered[s]) <= asked[t]
      BY <1>1 DEF PairInv, t
    <3> QED
      BY <2>1, <2>2, <2>4, <2>5, <3>1 DEF PairInv, Follower, t, SingleCall
  <2>8. PairInv(t)'
    <3>1. Positions(t)' = Positions(t)
      BY <2>3 DEF Positions
    <3>2. SendCounts(t)' /\ SingleCall(sending[t])' /\ SingleCall(receiving[t])'
      BY <1>1, <2>2, <2>3, <2>4 DEF PairInv, SendCounts, SingleCall
    <3>3. \A p \in Positions(t) : /\ WellSealed(p.log, p.key, p.nonce)
                                  /\ Follower(t, p.log, p.key)
      BY <1>1 DEF PairInv, Follower
    <3>4. /\ \A i \in 1..Len(delivered[t]) : delivered[t][i] = i
          /\ Len(delivered[t]) <= asked'[s]
      BY <1>0, <1>1, <1>2, <2>4 DEF PairInv
    <3> QED
      BY <1>0, <2>2, <2>6, <3>1, <3>2, <3>3, <3>4 DEF PairInv, Follower
  <2> QED
    BY <2>7, <2>8
<1>4. CASE DecryptLength(s) \/ DecryptMessage(s) \/ ResumeDecrypt(s)
  <2>1. UNCHANGED <<sending, wire, asked>>
    BY <1>4 DEF DecryptLength, DecryptMessage, ResumeDecrypt
  <2>2. /\ ns'[t] = ns[t] /\ receiving'[t] = receiving[t]
        /\ read'[t] = read[t] /\ delivered'[t] = delivered[t]
    BY <1>0, <1>4 DEF DecryptLength, DecryptMessage, ResumeDecrypt, Opened,
                      Rejected, TypeOK
  <2>3. ASSUME NEW p \in Positions(t)
        PROVE  /\ SingleCall(receiving[s])'
               /\ \A i \in 1..Len(delivered'[s]) : delivered'[s][i] = i
               /\ Len(delivered'[s]) <= asked[t]
               /\ (Synced(s, p.log) \/ Dead(s, p.log, p.key))'
               /\ ns'[s].sk = ns[s].sk /\ ns'[s].sn = ns[s].sn
    <3>1. SendCounts(t) /\ WellSealed(p.log, p.key, p.nonce)
      BY <1>1 DEF PairInv
    <3>2. Synced(s, p.log) \/ Dead(s, p.log, p.key)
      BY <1>0, <1>1 DEF PairInv
    <3>3. /\ p.log \in Seq(Ciphertext) /\ p.key \in Key /\ p.nonce \in Nat
          /\ Len(wire[t]) <= Len(p.log)
          /\ \A i \in 1..Len(wire[t]) : p.log[i] = wire[t][i]
          /\ Len(p.log) <= 2 * asked[t]
      BY <1>0, <3>1, PositionFacts
    <3>4. /\ SingleCall(receiving[s])
          /\ \A i \in 1..Len(delivered[s]) : delivered[s][i] = i
          /\ Len(delivered[s]) <= asked[t]
      BY <1>1 DEF PairInv, t
    <3> QED
      BY <1>4, <3>1, <3>2, <3>3, <3>4, ReceiveStep DEF t
  <2>4. PICK p \in Positions(t) : TRUE
    BY DEF Positions
  <2>5. /\ SingleCall(receiving[s])'
        /\ \A i \in 1..Len(delivered'[s]) : delivered'[s][i] = i
        /\ Len(delivered'[s]) <= asked[t]
        /\ ns'[s].sk = ns[s].sk /\ ns'[s].sn = ns[s].sn
    BY <2>3, <2>4
  <2>6. Positions(s)' = Positions(s) /\ Positions(t)' = Positions(t)
    BY <2>1, <2>2, <2>5 DEF Positions
  <2>7. PairInv(s)'
    <3>1. \A log, k : Follower(s, log, k) => Follower(s, log, k)'
      BY <2>2 DEF Follower, Synced, Dead, t
    <3>2. SendCounts(s)' /\ SingleCall(sending[s])'
      BY <1>1, <2>1 DEF PairInv, SendCounts, SingleCall
    <3>3. \A q \in Positions(s) : /\ WellSealed(q.log, q.key, q.nonce)
                                  /\ Follower(s, q.log, q.key)
      BY <1>1 DEF PairInv, Follower
    <3> QED
      BY <2>1, <2>5, <2>6, <3>1, <3>2, <3>3 DEF PairInv, Follower, t
  <2>8. PairInv(t)'
    <3>1. /\ SendCounts(t)' /\ SingleCall(sending[t])' /\ SingleCall(receiving[t])'
      BY <1>1, <2>1, <2>2 DEF PairInv, SendCounts, SingleCall
    <3>2. /\ \A i \in 1..Len(delivered'[t]) : delivered'[t][i] = i
          /\ Len(delivered'[t]) <= asked'[s]
      BY <1>0, <1>1, <2>1, <2>2 DEF PairInv
    <3>3. \A q \in Positions(t) : /\ WellSealed(q.log, q.key, q.nonce)
                                  /\ (Synced(s, q.log) \/ Dead(s, q.log, q.key))'
      BY <1>1, <2>3 DEF PairInv
    <3> QED
      BY <1>0, <2>6, <3>1, <3>2, <3>3 DEF PairInv
  <2> QED
    BY <2>7, <2>8
<1> QED
  BY <1>3, <1>4 DEF Step

(* The invariant of the encrypted channel: every sealed log is in order    *)
(* and every receiver follows its peer's log exactly or opens nothing any  *)
(* more, across all rotations of noise-state.js.                           *)
THEOREM ChannelInvariant == Spec => []ChannelInv
<1>1. Init => ChannelInv
  <2> SUFFICES ASSUME Init, NEW e \in Node PROVE PairInv(e)
    BY DEF ChannelInv
  <2>1. Peer(e) \in Node /\ Peer(Peer(e)) = e
    BY PeerFacts
  <2>2. /\ sending[e] = {} /\ receiving[e] = {} /\ wire[e] = << >>
        /\ asked[e] = 0 /\ asked[Peer(e)] = 0 /\ delivered[e] = << >>
        /\ ns[e].sk = BaseKey(e) /\ ns[e].sn = 0
    BY <2>1 DEF Init, InitCipher
  <2>3. /\ receiving[Peer(e)] = {} /\ read[Peer(e)] = 0
        /\ delivered[Peer(e)] = << >>
        /\ ns[Peer(e)].rk = BaseKey(e) /\ ns[Peer(e)].rn = 0
    BY <2>1 DEF Init, InitCipher
  <2>4. BaseKey(e).gen = 0
    BY DEF BaseKey
  <2>5. Positions(e) = {[log |-> << >>, key |-> BaseKey(e), nonce |-> 0]}
    BY <2>2 DEF Positions
  <2>6. WellSealed(<< >>, BaseKey(e), 0)
    BY <2>4 DEF WellSealed, After
  <2>7. Synced(Peer(e), << >>)
    BY <2>3, <2>4 DEF Synced, After
  <2> QED
    BY <2>2, <2>5, <2>6, <2>7 DEF PairInv, SingleCall, SendCounts
<1>2. TypeOK /\ ChannelInv /\ [Next]_vars => ChannelInv'
  <2> SUFFICES ASSUME TypeOK, ChannelInv, [Next]_vars PROVE ChannelInv'
    OBVIOUS
  <2>1. CASE Next
    BY <2>1, ChannelStep DEF Next, ChannelInv, AwaitedCalls
  <2>2. CASE UNCHANGED vars
    <3> SUFFICES ASSUME AwaitedCalls, NEW e \in Node PROVE PairInv(e)'
      BY DEF ChannelInv, AwaitedCalls
    <3>1. PairInv(e)
      BY DEF ChannelInv
    <3>2. Positions(e)' = Positions(e)
      BY <2>2 DEF vars, Positions
    <3>3. \A log, k : Follower(e, log, k) => Follower(e, log, k)'
      BY <2>2 DEF vars, Follower, Synced, Dead
    <3>4. SendCounts(e)'
      BY <2>2, <3>1 DEF vars, PairInv, SendCounts
    <3> QED
      BY <2>2, <3>1, <3>2, <3>3, <3>4 DEF vars, PairInv, SingleCall, Follower
  <2> QED
    BY <2>1, <2>2
<1> QED
  BY <1>1, <1>2, TypeCorrect, PTL DEF Spec

(***************************************************************************)
(* What follows from the invariant.                                        *)
(***************************************************************************)

(* decryptMessage returns the other end's messages in order, none skipped  *)
(* and none twice, however the rotations of the two directions interleave, *)
(* as long as calls are awaited or run to completion.                      *)
THEOREM InOrder == AwaitedCalls /\ Spec => []DeliveredInOrder
<1>1. AwaitedCalls /\ ChannelInv => DeliveredInOrder
  BY DEF ChannelInv, PairInv, DeliveredInOrder
<1>2. CASE AwaitedCalls
  BY <1>1, <1>2, ChannelInvariant, PTL
<1>3. CASE ~AwaitedCalls
  BY <1>3
<1> QED
  BY <1>2, <1>3

(* An end never seals two ciphertexts under one key and nonce, as long as  *)
(* calls are awaited or run to completion.                                 *)
THEOREM NoncesUnique == AwaitedCalls /\ Spec => []NonceUnique
<1>1. AwaitedCalls /\ TypeOK /\ ChannelInv => NonceUnique
  <2> SUFFICES ASSUME AwaitedCalls, TypeOK, ChannelInv, NEW e \in Node
               PROVE  /\ \A i, j \in 1..Len(wire[e]) :
                           Clash(wire[e][i], wire[e][j]) => i = j
                      /\ \A call \in sending[e] : \A k \in 1..Len(call.cts) :
                           /\ \A i \in 1..Len(wire[e]) :
                                ~Clash(call.cts[k], wire[e][i])
                           /\ \A other \in sending[e] :
                                \A j \in 1..Len(other.cts) :
                                  Clash(call.cts[k], other.cts[j]) =>
                                    call = other /\ k = j
    BY DEF NonceUnique
  <2>1. PairInv(e)
    BY DEF ChannelInv
  <2>2. ASSUME NEW p \in Positions(e), NEW i \in 1..Len(p.log),
               NEW j \in 1..Len(p.log), Clash(p.log[i], p.log[j])
        PROVE  i = j
    <3>1. p.log \in Seq(Ciphertext)
      BY <2>1, PositionFacts DEF PairInv
    <3>2. \A g, h \in 1..Len(p.log) :
            g < h => Less(p.log[g], p.log[h].key, p.log[h].nonce)
      BY <2>1 DEF PairInv, WellSealed
    <3>3. /\ p.log[i].key.gen \in Nat /\ p.log[i].nonce \in Nat
          /\ p.log[j].key.gen \in Nat /\ p.log[j].nonce \in Nat
      <4>1. \A h \in 1..Len(p.log) : p.log[h] \in Ciphertext
        BY <3>1
      <4>2. \A c \in Ciphertext : c.key.gen \in Nat /\ c.nonce \in Nat
        BY DEF Ciphertext, Key
      <4> QED
        BY <4>1, <4>2
    <3>4. ~(i < j) /\ ~(j < i)
      BY <2>2, <3>2, <3>3 DEF Clash, Less
    <3> QED
      BY <3>4
  <2>3. ASSUME NEW i \in 1..Len(wire[e]), NEW j \in 1..Len(wire[e]),
               Clash(wire[e][i], wire[e][j])
        PROVE  i = j
    <3>1. PICK p \in Positions(e) : TRUE
      BY DEF Positions
    <3>2. /\ Len(wire[e]) <= Len(p.log) /\ p.log \in Seq(Ciphertext)
          /\ \A h \in 1..Len(wire[e]) : p.log[h] = wire[e][h]
      BY <2>1, PositionFacts DEF PairInv
    <3>3. wire[e] \in Seq(Ciphertext)
      BY DEF TypeOK
    <3>4. i \in 1..Len(p.log) /\ j \in 1..Len(p.log)
      BY <3>2, <3>3
    <3> QED
      BY <2>2, <2>3, <3>2, <3>4
  <2>4. ASSUME NEW call \in sending[e], NEW k \in 1..Len(call.cts)
        PROVE  /\ \A i \in 1..Len(wire[e]) : ~Clash(call.cts[k], wire[e][i])
               /\ \A other \in sending[e] : \A j \in 1..Len(other.cts) :
                    Clash(call.cts[k], other.cts[j]) => call = other /\ k = j
    <3> DEFINE log == wire[e] \o call.cts
               w == Len(wire[e])
               p == [log |-> log, key |-> call.derived.key, nonce |-> 0]
    <3>1. p \in Positions(e)
      BY DEF Positions
    <3>2. wire[e] \in Seq(Ciphertext) /\ call.cts \in Seq(Ciphertext)
      BY DEF TypeOK, PendingSend
    <3>3. /\ log \in Seq(Ciphertext) /\ Len(log) = w + Len(call.cts)
          /\ \A i \in 1..w : log[i] = wire[e][i]
          /\ \A j \in 1..Len(call.cts) : log[w + j] = call.cts[j]
      BY <3>2, ConcatFacts
    <3>4. w \in Nat /\ Len(call.cts) \in Nat
      BY <3>2
    <3>5. \A i, j \in 1..Len(log) : Clash(log[i], log[j]) => i = j
      <4>1. p.log = log
        OBVIOUS
      <4> HIDE DEF p, log
      <4> QED
        BY <2>2, <3>1, <4>1
    <3> HIDE DEF log, w
    <3>6. \A j \in 1..Len(call.cts) : w + j \in 1..Len(log)
      BY <3>3, <3>4
    <3>7. ASSUME NEW i \in 1..w PROVE ~Clash(call.cts[k], wire[e][i])
      <4>1. i \in 1..Len(log) /\ w + k # i
        BY <3>3, <3>4
      <4> QED
        BY <3>3, <3>5, <3>6, <4>1
    <3>8. ASSUME NEW other \in sending[e], NEW j \in 1..Len(other.cts),
                 Clash(call.cts[k], other.cts[j])
          PROVE  call = other /\ k = j
      <4>1. call = other
        BY <2>1 DEF PairInv, SingleCall
      <4>2. w + k = w + j
        BY <3>3, <3>5, <3>6, <3>8, <4>1
      <4> QED
        BY <3>4, <4>1, <4>2
    <3> QED
      BY <3>7, <3>8 DEF w
  <2> QED
    BY <2>3, <2>4
<1>2. CASE AwaitedCalls
  BY <1>1, <1>2, TypeCorrect, ChannelInvariant, PTL
<1>3. CASE ~AwaitedCalls
  BY <1>3
<1> QED
  BY <1>2, <1>3

(* Each decrypt call hands its caller at most one more message.            *)
LEMMA ReturnsAtMostOne ==
  ASSUME TypeOK, AwaitedCalls, ChannelInv, DeliveredInOrder', TypeOK',
         NEW e \in Node,
         DecryptLength(e) \/ DecryptMessage(e) \/ ResumeDecrypt(e)
  PROVE  \/ UNCHANGED delivered
         \/ /\ delivered' = [delivered EXCEPT ![e] = Append(@, Len(@) + 1)]
            /\ Len(delivered[e]) < asked[Peer(e)]
<1>0. /\ delivered[e] \in Seq(Nat) /\ Len(delivered[e]) \in Nat
      /\ asked[Peer(e)] \in Nat /\ Peer(e) \in Node /\ Peer(Peer(e)) = e
  BY PeerFacts DEF TypeOK
<1>1. UNCHANGED asked
  BY DEF DecryptLength, DecryptMessage, ResumeDecrypt
<1>2. ASSUME NEW x, delivered' = [delivered EXCEPT ![e] = @ \o <<x>>]
      PROVE  /\ delivered' = [delivered EXCEPT ![e] = Append(@, Len(@) + 1)]
             /\ Len(delivered[e]) < asked[Peer(e)]
  <2>1. delivered'[e] = Append(delivered[e], x)
    BY <1>0, <1>2 DEF TypeOK
  <2>2. /\ Len(delivered'[e]) = Len(delivered[e]) + 1
        /\ delivered'[e][Len(delivered[e]) + 1] = x
    BY <1>0, <2>1
  <2>3. /\ \A i \in 1..Len(delivered'[e]) : delivered'[e][i] = i
        /\ Len(delivered'[e]) <= asked[Peer(e)]
    BY <1>1 DEF DeliveredInOrder
  <2>4. x = Len(delivered[e]) + 1
    <3>1. Len(delivered[e]) + 1 \in 1..Len(delivered'[e])
      BY <1>0, <2>2
    <3> QED
      BY <2>2, <2>3, <3>1
  <2>5. delivered[e] \o <<x>> = Append(delivered[e], x)
    BY <1>0
  <2>6. Len(delivered[e]) < asked[Peer(e)]
    <3>1. Len(delivered[e]) + 1 <= asked[Peer(e)]
      BY <2>2, <2>3
    <3> QED
      BY <1>0, <3>1
  <2> QED
    BY <1>2, <2>4, <2>5, <2>6
<1>3. delivered = [delivered EXCEPT ![e] = @ \o << >>]
  <2>1. delivered[e] \o << >> = delivered[e]
    BY <1>0
  <2> QED
    BY <2>1 DEF TypeOK
<1>4. ASSUME NEW msgs, msgs = << >> \/ \E x : msgs = <<x>>,
             \/ UNCHANGED delivered
             \/ delivered' = [delivered EXCEPT ![e] = @ \o msgs]
      PROVE  \/ UNCHANGED delivered
             \/ /\ delivered' = [delivered EXCEPT ![e] = Append(@, Len(@) + 1)]
                /\ Len(delivered[e]) < asked[Peer(e)]
  BY <1>2, <1>3, <1>4
<1>5. CASE DecryptLength(e)
  <2>1. \/ UNCHANGED delivered
        \/ delivered' = [delivered EXCEPT ![e] = @ \o << >>]
    BY <1>5 DEF DecryptLength, Opened, Rejected
  <2> QED
    BY <1>4, <2>1
<1>6. CASE DecryptMessage(e)
  <2>1. \/ UNCHANGED delivered
        \/ delivered' = [delivered EXCEPT ![e] = @ \o <<NextCiphertext(e).msg>>]
    BY <1>6 DEF DecryptMessage, Opened, Rejected
  <2> QED
    BY <1>4, <2>1
<1>7. CASE ResumeDecrypt(e)
  <2>1. PICK call \in receiving[e] :
          delivered' = [delivered EXCEPT ![e] = @ \o call.msgs]
    BY <1>7 DEF ResumeDecrypt
  <2>2. PICK p \in Positions(Peer(e)) : TRUE
    BY DEF Positions
  <2>3. Synced(e, p.log)
    BY <1>0, <2>1 DEF ChannelInv, PairInv, Dead
  <2>4. call.msgs = << >> \/ \E x : call.msgs = <<x>>
    BY <2>3 DEF Synced
  <2> QED
    BY <1>4, <2>1, <2>4
<1> QED
  BY <1>5, <1>6, <1>7

(* The pair of NoiseStates implements the abstract channel: handing over a *)
(* message is a Send, returning one is a Deliver, every other step is      *)
(* invisible.                                                              *)
THEOREM Refinement == AwaitedCalls /\ Spec => ImplementsSecureChannel
<1>1. Init => Channel!Init
  BY DEF Init, Channel!Init, Channel!Ends, Node
<1>2. /\ AwaitedCalls /\ TypeOK /\ TypeOK' /\ ChannelInv /\ DeliveredInOrder'
      /\ [Next]_vars
      => [Channel!Next]_Channel!vars
  <2> SUFFICES ASSUME AwaitedCalls, TypeOK, TypeOK', ChannelInv,
                      DeliveredInOrder', [Next]_vars
               PROVE  Channel!Next \/ UNCHANGED <<asked, delivered>>
    BY DEF Channel!vars
  <2>1. ASSUME NEW e \in Node, EncryptMessage(e) PROVE Channel!Send(e)
    BY <2>1 DEF EncryptMessage, Channel!Send
  <2>2. ASSUME NEW e \in Node, ResumeEncrypt(e)
        PROVE  UNCHANGED <<asked, delivered>>
    BY <2>2 DEF ResumeEncrypt
  <2>3. ASSUME NEW e \in Node,
               DecryptLength(e) \/ DecryptMessage(e) \/ ResumeDecrypt(e)
        PROVE  Channel!Deliver(e) \/ UNCHANGED <<asked, delivered>>
    <3>1. UNCHANGED asked
      BY <2>3 DEF DecryptLength, DecryptMessage, ResumeDecrypt
    <3>2. Channel!Other(e) = Peer(e)
      BY DEF Channel!Other, Peer
    <3> QED
      BY <2>3, <3>1, <3>2, ReturnsAtMostOne DEF Channel!Deliver
  <2>4. CASE Next
    BY <2>1, <2>2, <2>3, <2>4 DEF Next, Step, Channel!Next, Channel!Ends, Node
  <2>5. CASE UNCHANGED vars
    BY <2>5 DEF vars
  <2> QED
    BY <2>4, <2>5
<1>3. CASE AwaitedCalls
  BY <1>1, <1>2, <1>3, TypeCorrect, ChannelInvariant, InOrder, PTL
     DEF Spec, ImplementsSecureChannel, Channel!Spec
<1>4. CASE ~AwaitedCalls
  BY <1>4
<1> QED
  BY <1>3, <1>4

(***************************************************************************)
(* A frame is lost only when the rotations of the two ends have crossed:   *)
(* the keys of an end can be read off its chaining key.                    *)
(***************************************************************************)

(***************************************************************************)
(* Chaining keys as lists.                                                 *)
(***************************************************************************)

(* What is before a place depends only on what is before it.               *)
LEMMA SamePrefix ==
  ASSUME NEW S, NEW c \in Seq(S), NEW c2 \in Seq(S), NEW n \in Nat,
         n <= Len(c), n <= Len(c2), \A j \in 1..n : c[j] = c2[j]
  PROVE  SubSeq(c, 1, n) = SubSeq(c2, 1, n)
<1>1. /\ \A j \in 1..n : c[j] \in S /\ c2[j] \in S
  BY LenProperties, ElementOfSeq
<1>2. /\ SubSeq(c, 1, n) \in Seq(S) /\ SubSeq(c2, 1, n) \in Seq(S)
      /\ Len(SubSeq(c, 1, n)) = n /\ Len(SubSeq(c2, 1, n)) = n
      /\ \A j \in 1..n : SubSeq(c, 1, n)[j] = c[j]
      /\ \A j \in 1..n : SubSeq(c2, 1, n)[j] = c2[j]
  BY <1>1, SubSeqProperties
<1>3. \A j \in 1..n : SubSeq(c, 1, n)[j] = SubSeq(c2, 1, n)[j]
  BY <1>2
<1> DEFINE a == SubSeq(c, 1, n)
           b == SubSeq(c2, 1, n)
<1> HIDE DEF a, b
<1>4. a \in Seq(S) /\ b \in Seq(S) /\ Len(a) = Len(b) /\ \A j \in 1..Len(a) : a[j] = b[j]
  BY <1>2, <1>3 DEF a, b
<1>5. a = b
  BY <1>4, SeqEqual
<1> QED
  BY <1>5 DEF a, b

(* A prefix, place by place.                                               *)
LEMMA PrefixElements ==
  ASSUME NEW S, NEW c \in Seq(S), NEW c2 \in Seq(S), NEW n \in Nat,
         n <= Len(c), n <= Len(c2), SubSeq(c, 1, n) = SubSeq(c2, 1, n)
  PROVE  \A j \in 1..n : c[j] = c2[j]
<1>1. /\ \A j \in 1..n : c[j] \in S /\ c2[j] \in S
  BY LenProperties, ElementOfSeq
<1>2. /\ \A j \in 1..n : SubSeq(c, 1, n)[j] = c[j]
      /\ \A j \in 1..n : SubSeq(c2, 1, n)[j] = c2[j]
  BY <1>1, SubSeqProperties
<1> QED
  BY <1>2

(* The chaining key grows at its end, and keeps what it says of the keys   *)
(* derived before.                                                         *)
LEMMA Longer ==
  ASSUME NEW c \in ChainingKey, NEW x \in KeyName
  PROVE  /\ Append(c, x) \in ChainingKey /\ Len(Append(c, x)) = Len(c) + 1
         /\ Len(c) \in Nat
         /\ \A i \in 1..Len(c) : Append(c, x)[i] = c[i]
         /\ Append(c, x)[Len(c) + 1] = x
         /\ \A i \in 1..Len(c) + 1 : SubSeq(Append(c, x), 1, i - 1) = SubSeq(c, 1, i - 1)
         /\ SubSeq(c, 1, Len(c)) = c
<1>1. c \in Seq(KeyName)
  BY DEF ChainingKey
<1>2. /\ Append(c, x) \in Seq(KeyName) /\ Len(Append(c, x)) = Len(c) + 1
      /\ Len(c) \in Nat
      /\ \A i \in 1..Len(c) : Append(c, x)[i] = c[i]
      /\ Append(c, x)[Len(c) + 1] = x
  BY <1>1, AppendProperties, LenProperties
<1>3. ASSUME NEW i \in 1..Len(c) + 1
      PROVE  SubSeq(Append(c, x), 1, i - 1) = SubSeq(c, 1, i - 1)
  <2>1. /\ i - 1 \in Nat /\ i - 1 <= Len(c) /\ i - 1 <= Len(Append(c, x))
        /\ \A j \in 1..i - 1 : Append(c, x)[j] = c[j]
    BY <1>2
  <2> QED
    BY <1>1, <1>2, <2>1, SamePrefix
<1>4. SubSeq(c, 1, Len(c)) = c
  BY <1>1, SubSeqFull
<1> QED
  BY <1>2, <1>3, <1>4 DEF ChainingKey

LEMMA StillMade ==
  ASSUME NEW c \in ChainingKey, NEW x \in KeyName, NEW k, k.gen \in Nat, MadeIn(k, c)
  PROVE  MadeIn(k, Append(c, x))
<1> DEFINE d == Append(c, x)
<1>1. /\ Len(c) \in Nat /\ Len(d) = Len(c) + 1
      /\ \A i \in 1..Len(c) : d[i] = c[i]
      /\ \A i \in 1..Len(c) + 1 : SubSeq(d, 1, i - 1) = SubSeq(c, 1, i - 1)
  BY Longer
<1> HIDE DEF d
<1>2. ASSUME NEW g \in 1..k.gen
      PROVE  \E i \in 1..Len(d) : /\ d[i] = [dir |-> k.dir, gen |-> g - 1]
                                  /\ k.salts[g] = SubSeq(d, 1, i - 1)
  <2>1. PICK i \in 1..Len(c) : /\ c[i] = [dir |-> k.dir, gen |-> g - 1]
                               /\ k.salts[g] = SubSeq(c, 1, i - 1)
    BY DEF MadeIn
  <2>2. i \in 1..Len(d) /\ d[i] = c[i] /\ SubSeq(d, 1, i - 1) = SubSeq(c, 1, i - 1)
    BY <1>1
  <2> QED
    BY <2>1, <2>2
<1>3. MadeIn(k, d)
  BY <1>2 DEF MadeIn
<1> QED
  BY <1>3 DEF d

(* The key hkdf derives from the whole of c is the next one c leads to.    *)
LEMMA NextMade ==
  ASSUME NEW c \in ChainingKey, NEW k \in Key, MadeIn(k, c)
  PROVE  MadeIn(HkdfKey(c, k), HkdfChainingKey(c, k))
<1> DEFINE x == [dir |-> k.dir, gen |-> k.gen]
           d == Append(c, x)
           new == HkdfKey(c, k)
<1>1. x \in KeyName /\ k.gen \in Nat /\ k.salts \in Seq(ChainingKey)
  BY DEF Key, KeyName
<1> HIDE DEF x
<1>2. /\ Len(c) \in Nat /\ Len(d) = Len(c) + 1 /\ d[Len(c) + 1] = x
      /\ \A i \in 1..Len(c) + 1 : SubSeq(d, 1, i - 1) = SubSeq(c, 1, i - 1)
      /\ SubSeq(c, 1, Len(c)) = c
  BY <1>1, Longer
<1>3. MadeIn(k, d)
  BY <1>1, StillMade
<1> HIDE DEF d
<1>4. /\ Len(new.salts) = k.gen + 1 /\ new.gen = k.gen + 1 /\ new.dir = k.dir
      /\ \A g \in 1..k.gen : new.salts[g] = k.salts[g]
      /\ new.salts[k.gen + 1] = c
  <2>1. new.salts = Append(k.salts, c) /\ new.gen = k.gen + 1 /\ new.dir = k.dir
    BY DEF HkdfKey
  <2>2. Len(k.salts) = k.gen
    BY DEF MadeIn
  <2> QED
    BY <1>1, <2>1, <2>2, AppendProperties
<1> HIDE DEF new
<1>5. ASSUME NEW g \in 1..new.gen
      PROVE  \E i \in 1..Len(d) : /\ d[i] = [dir |-> new.dir, gen |-> g - 1]
                                  /\ new.salts[g] = SubSeq(d, 1, i - 1)
  <2>1. CASE g \in 1..k.gen
    BY <1>3, <1>4, <2>1 DEF MadeIn
  <2>2. CASE g = k.gen + 1
    <3>1. /\ Len(c) + 1 \in 1..Len(d)
          /\ d[Len(c) + 1] = [dir |-> new.dir, gen |-> g - 1]
      BY <1>1, <1>2, <1>4, <2>2 DEF x
    <3>2. SubSeq(d, 1, Len(c) + 1 - 1) = c
      <4>1. Len(c) + 1 - 1 = Len(c) /\ Len(c) + 1 \in 1..Len(c) + 1
        BY <1>2
      <4> QED
        BY <1>2, <4>1
    <3> QED
      BY SMTT(30), <1>4, <2>2, <3>1, <3>2
  <2> QED
    BY <1>1, <1>4, <2>1, <2>2
<1>6. MadeIn(new, d)
  BY <1>4, <1>5 DEF MadeIn
<1> QED
  BY <1>6 DEF new, d, x, HkdfChainingKey

(* Two chaining keys of which one begins the other lead to the same keys.  *)
LEMMA SameKey ==
  ASSUME NEW c \in ChainingKey, NEW d \in ChainingKey,
         Len(c) <= Len(d), SubSeq(c, 1, Len(c)) = SubSeq(d, 1, Len(c)),
         Distinct(d),
         NEW k \in Key, NEW m \in Key, k.dir = m.dir, k.gen = m.gen,
         MadeIn(k, c), MadeIn(m, d)
  PROVE  k = m
<1>1. c \in Seq(KeyName) /\ d \in Seq(KeyName) /\ Len(c) \in Nat /\ Len(d) \in Nat
  BY LenProperties DEF ChainingKey
<1>2. \A j \in 1..Len(c) : c[j] = d[j]
  BY <1>1, PrefixElements
<1>3. /\ k.salts \in Seq(ChainingKey) /\ m.salts \in Seq(ChainingKey)
      /\ k.gen \in Nat /\ Len(k.salts) = k.gen /\ Len(m.salts) = k.gen
  BY DEF Key, MadeIn
<1>4. ASSUME NEW g \in 1..k.gen PROVE k.salts[g] = m.salts[g]
  <2>1. PICK i \in 1..Len(c) : /\ c[i] = [dir |-> k.dir, gen |-> g - 1]
                               /\ k.salts[g] = SubSeq(c, 1, i - 1)
    BY DEF MadeIn
  <2>2. PICK j \in 1..Len(d) : /\ d[j] = [dir |-> k.dir, gen |-> g - 1]
                               /\ m.salts[g] = SubSeq(d, 1, j - 1)
    BY DEF MadeIn
  <2>3. i = j
    BY <1>1, <1>2, <2>1, <2>2 DEF Distinct
  <2>4. SubSeq(c, 1, i - 1) = SubSeq(d, 1, i - 1)
    <3>1. i - 1 \in Nat /\ i - 1 <= Len(c) /\ i - 1 <= Len(d)
          /\ \A l \in 1..i - 1 : c[l] = d[l]
      BY <1>1, <1>2
    <3> QED
      BY <1>1, <3>1, SamePrefix
  <2> QED
    BY <2>1, <2>2, <2>3, <2>4
<1>5. k.salts = m.salts
  BY <1>3, <1>4, SeqEqual
<1> QED
  BY <1>5 DEF Key

LEMMA StillDistinct ==
  ASSUME NEW c \in ChainingKey, NEW x \in KeyName, Distinct(c),
         \A i \in 1..Len(c) : c[i] # x
  PROVE  Distinct(Append(c, x))
<1> DEFINE d == Append(c, x)
<1>1. /\ Len(c) \in Nat /\ Len(d) = Len(c) + 1 /\ d[Len(c) + 1] = x
      /\ \A i \in 1..Len(c) : d[i] = c[i]
  BY Longer
<1> HIDE DEF d
<1>2. \A i \in 1..Len(d) : i \in 1..Len(c) \/ i = Len(c) + 1
  BY <1>1
<1>3. Distinct(d)
  BY <1>1, <1>2 DEF Distinct
<1> QED
  BY <1>3 DEF d

(***************************************************************************)
(* The keys of one end.                                                    *)
(***************************************************************************)
LEMMA KeyFacts ==
  ASSUME TypeOK, NEW e \in Node
  PROVE  /\ ns[e].ck \in ChainingKey /\ Len(ns[e].ck) \in Nat
         /\ ns[e].sk \in Key /\ ns[e].sk.gen \in Nat
         /\ ns[e].rk \in Key /\ ns[e].rk.gen \in Nat
         /\ Rotations(e) \in Nat
         /\ SealedBy(e) \subseteq Ciphertext
<1>1. ns[e] \in CipherState
  BY DEF TypeOK
<1>2. /\ ns[e].ck \in ChainingKey /\ ns[e].sk \in Key /\ ns[e].rk \in Key
  BY <1>1 DEF CipherState
<1>3. ns[e].sk.gen \in Nat /\ ns[e].rk.gen \in Nat
  BY <1>2 DEF Key
<1>4. Len(ns[e].ck) \in Nat
  BY <1>2, LenProperties DEF ChainingKey
<1>5. SealedBy(e) \subseteq Ciphertext
  <2>1. wire[e] \in Seq(Ciphertext) /\ \A call \in sending[e] : call.cts \in Seq(Ciphertext)
    BY DEF TypeOK, PendingSend
  <2> QED
    BY <2>1, ElementOfSeq DEF SealedBy
<1> QED
  BY <1>2, <1>3, <1>4, <1>5 DEF Rotations

(* A step of e that replaces no key: what it seals is sealed under the     *)
(* sending key, and a rotation it starts is salted with the chaining key.  *)
LEMMA NoRotation ==
  ASSUME TypeOK, NEW e \in Node, KeysOf(e),
         ns'[e].ck = ns[e].ck, ns'[e].sk = ns[e].sk, ns'[e].rk = ns[e].rk,
         \A call \in sending'[e] :
            call \in sending[e] \/ call.derived = Hkdf(ns[e].ck, ns[e].sk),
         \A call \in receiving'[e] :
            call \in receiving[e] \/ call.derived = Hkdf(ns[e].ck, ns[e].rk),
         \A ct \in SealedBy(e)' : ct \in SealedBy(e) \/ ct.key = ns[e].sk
  PROVE  KeysOf(e)'
<1>1. ns[e].ck \in ChainingKey
  BY KeyFacts
<1>2. Rotations(e)' = Rotations(e) /\ (NoneOverwritten(e)' <=> NoneOverwritten(e))
  BY DEF Rotations, NoneOverwritten
<1>3. \A k, d : DerivedFrom(e, k, d) => DerivedFrom(e, k, d)'
  BY <1>2 DEF DerivedFrom
<1>4. \A k, d : d = Hkdf(ns[e].ck, k) => DerivedFrom(e, k, d)
  BY <1>1 DEF DerivedFrom
<1>5. ChainedKeys(e) => ChainedKeys(e)'
  BY DEF ChainedKeys, KeysOf
<1>6. /\ \A call \in sending'[e] : DerivedFrom(e, ns[e].sk, call.derived)
      /\ \A call \in receiving'[e] : DerivedFrom(e, ns[e].rk, call.derived)
  BY <1>4 DEF KeysOf
<1>7. /\ \A call \in sending'[e] : DerivedFrom(e, ns[e].sk, call.derived)'
      /\ \A call \in receiving'[e] : DerivedFrom(e, ns[e].rk, call.derived)'
  BY <1>2, <1>6 DEF DerivedFrom
<1>8. KeysOf(e)'
  BY <1>2, <1>5, <1>7 DEF KeysOf, DerivedFrom
<1> QED
  BY <1>8

(* A rotation of the sending key: the chaining key gets its name, unless   *)
(* the one it was salted with is no longer that of e.                      *)
LEMMA SendRotation ==
  ASSUME TypeOK, NEW e \in Node, KeysOf(e), NEW d, DerivedFrom(e, ns[e].sk, d),
         ns'[e].ck = d.ck, ns'[e].sk = d.key, ns'[e].rk = ns[e].rk,
         \A call \in sending'[e] : call.derived = Hkdf(d.ck, d.key),
         receiving'[e] = receiving[e],
         \A ct \in SealedBy(e)' : ct \in SealedBy(e) \/ ct.key = d.key
  PROVE  KeysOf(e)'
<1> DEFINE c == ns[e].ck
           k == ns[e].sk
           x == [dir |-> k.dir, gen |-> k.gen]
<1>1. /\ c \in ChainingKey /\ Len(c) \in Nat /\ k \in Key /\ k.gen \in Nat
      /\ ns[e].rk \in Key /\ ns[e].rk.gen \in Nat
      /\ Rotations(e) \in Nat /\ SealedBy(e) \subseteq Ciphertext
  BY KeyFacts
<1>2. x \in KeyName
  BY <1>1 DEF Key, KeyName
<1>3. PICK c0 \in ChainingKey : d = Hkdf(c0, k) /\ (c0 = c \/ Len(c0) < Rotations(e))
  BY DEF DerivedFrom
<1>4. /\ d.ck = Append(c0, x) /\ d.key = HkdfKey(c0, k)
      /\ d.key.gen = k.gen + 1 /\ d.key.dir = k.dir
  BY <1>3 DEF Hkdf, HkdfChainingKey, HkdfKey
<1> HIDE DEF c, k, x
<1>5. d.ck \in ChainingKey /\ Len(d.ck) = Len(c0) + 1 /\ Len(c0) \in Nat
  BY <1>2, <1>4, Longer
<1>6. Rotations(e)' = Rotations(e) + 1 /\ Len(c) <= Rotations(e)
  BY SMTT(30), <1>1, <1>4 DEF Rotations, KeysOf, c, k
<1>7. Len(d.ck) <= Rotations(e)'
  BY <1>1, <1>3, <1>5, <1>6
<1>8. \A call \in sending'[e] : DerivedFrom(e, ns[e].sk, call.derived)'
  BY <1>5 DEF DerivedFrom
<1>9. \A call \in receiving'[e] : DerivedFrom(e, ns[e].rk, call.derived)'
  <2> SUFFICES ASSUME NEW call \in receiving[e]
               PROVE  DerivedFrom(e, ns[e].rk, call.derived)'
    OBVIOUS
  <2>1. PICK c1 \in ChainingKey : /\ call.derived = Hkdf(c1, ns[e].rk)
                                  /\ c1 = c \/ Len(c1) < Rotations(e)
    BY DEF KeysOf, DerivedFrom, c
  <2>2. Len(c1) \in Nat
    BY LenProperties DEF ChainingKey
  <2>3. Len(c1) < Rotations(e)'
    BY <1>1, <1>6, <2>1, <2>2
  <2> QED
    BY <2>1, <2>3 DEF DerivedFrom
<1>10. ASSUME NoneOverwritten(e)' PROVE ChainedKeys(e)'
  <2>1. Len(d.ck) = Rotations(e)'
    BY <1>10 DEF NoneOverwritten, Rotations
  <2>2. c0 = c /\ Len(c) = Rotations(e)
    BY <1>1, <1>3, <1>5, <1>6, <2>1
  <2>3. ChainedKeys(e)
    BY <2>2 DEF NoneOverwritten, Rotations, KeysOf, c
  <2>4. k.dir = e /\ ns[e].rk.dir = Peer(e)
    BY DEF KeysOf, k
  <2>5. /\ Distinct(c) /\ MadeIn(k, c) /\ MadeIn(ns[e].rk, c)
        /\ \A i \in 1..Len(c) :
             c[i].gen < (IF c[i].dir = e THEN k.gen ELSE ns[e].rk.gen)
        /\ \A ct \in SealedBy(e) : ct.key.dir = e /\ MadeIn(ct.key, c)
    BY <2>3 DEF ChainedKeys, c, k
  <2>6. \A i \in 1..Len(c) : c[i] # x
    BY <1>1, <2>4, <2>5 DEF x
  <2>7. Distinct(d.ck)
    BY <1>1, <1>2, <1>4, <2>2, <2>5, <2>6, StillDistinct
  <2>8. MadeIn(d.key, d.ck)
    BY <1>1, <1>3, <2>2, <2>5, NextMade DEF Hkdf
  <2>9. MadeIn(ns[e].rk, d.ck)
    BY <1>1, <1>2, <1>4, <2>2, <2>5, StillMade
  <2>10. \A i \in 1..Len(d.ck) :
           d.ck[i].gen < (IF d.ck[i].dir = e THEN d.key.gen ELSE ns[e].rk.gen)
    <3>1. /\ \A i \in 1..Len(c) : d.ck[i] = c[i]
          /\ d.ck[Len(c) + 1] = x
      BY <1>1, <1>2, <1>4, <2>2, Longer
    <3>2. \A i \in 1..Len(d.ck) : i \in 1..Len(c) \/ i = Len(c) + 1
      BY <1>1, <1>5, <2>2
    <3>3. \A i \in 1..Len(c) : c[i].gen \in Nat
      <4>1. c \in Seq(KeyName)
        BY <1>1 DEF ChainingKey
      <4>2. \A i \in 1..Len(c) : c[i] \in KeyName
        BY <4>1, ElementOfSeq
      <4> QED
        BY <4>2 DEF KeyName
    <3>4. x.gen = k.gen /\ x.dir = e
      BY <2>4 DEF x
    <3> QED
      BY <1>1, <1>4, <2>5, <3>1, <3>2, <3>3, <3>4
  <2>11. \A ct \in SealedBy(e)' : ct.key.dir = e /\ MadeIn(ct.key, d.ck)
    <3> SUFFICES ASSUME NEW ct \in SealedBy(e)'
                 PROVE  ct.key.dir = e /\ MadeIn(ct.key, d.ck)
      OBVIOUS
    <3>1. CASE ct.key = d.key
      BY <1>4, <2>4, <2>8, <3>1
    <3>2. CASE ct \in SealedBy(e)
      <4>1. ct.key.gen \in Nat
        BY <1>1, <3>2 DEF Ciphertext, Key
      <4> QED
        BY <1>1, <1>2, <1>4, <2>2, <2>5, <3>2, <4>1, StillMade
    <3> QED
      BY <3>1, <3>2
  <2> QED
    BY <2>7, <2>8, <2>9, <2>10, <2>11 DEF ChainedKeys
<1>11. ns'[e].sk.dir = e /\ ns'[e].rk.dir = Peer(e)
  BY <1>4 DEF KeysOf, k
<1> QED
  BY <1>7, <1>8, <1>9, <1>10, <1>11 DEF KeysOf

(* The same for the receiving key.                                         *)
LEMMA ReceiveRotation ==
  ASSUME TypeOK, NEW e \in Node, KeysOf(e), NEW d, DerivedFrom(e, ns[e].rk, d),
         ns'[e].ck = d.ck, ns'[e].rk = d.key, ns'[e].sk = ns[e].sk,
         receiving'[e] = {}, sending'[e] = sending[e], wire'[e] = wire[e]
  PROVE  KeysOf(e)'
<1> DEFINE c == ns[e].ck
           k == ns[e].rk
           x == [dir |-> k.dir, gen |-> k.gen]
<1>1. /\ c \in ChainingKey /\ Len(c) \in Nat /\ k \in Key /\ k.gen \in Nat
      /\ ns[e].sk \in Key /\ ns[e].sk.gen \in Nat
      /\ Rotations(e) \in Nat /\ SealedBy(e) \subseteq Ciphertext
  BY KeyFacts
<1>2. x \in KeyName
  BY <1>1 DEF Key, KeyName
<1>3. PICK c0 \in ChainingKey : d = Hkdf(c0, k) /\ (c0 = c \/ Len(c0) < Rotations(e))
  BY DEF DerivedFrom
<1>4. /\ d.ck = Append(c0, x) /\ d.key = HkdfKey(c0, k)
      /\ d.key.gen = k.gen + 1 /\ d.key.dir = k.dir
  BY <1>3 DEF Hkdf, HkdfChainingKey, HkdfKey
<1> HIDE DEF c, k, x
<1>5. d.ck \in ChainingKey /\ Len(d.ck) = Len(c0) + 1 /\ Len(c0) \in Nat
  BY <1>2, <1>4, Longer
<1>6. Rotations(e)' = Rotations(e) + 1 /\ Len(c) <= Rotations(e)
  BY <1>1, <1>4 DEF Rotations, KeysOf, c, k
<1>7. Len(d.ck) <= Rotations(e)'
  BY <1>1, <1>3, <1>5, <1>6
<1>8. \A call \in receiving'[e] : DerivedFrom(e, ns[e].rk, call.derived)'
  OBVIOUS
<1>9. \A call \in sending'[e] : DerivedFrom(e, ns[e].sk, call.derived)'
  <2> SUFFICES ASSUME NEW call \in sending[e]
               PROVE  DerivedFrom(e, ns[e].sk, call.derived)'
    OBVIOUS
  <2>1. PICK c1 \in ChainingKey : /\ call.derived = Hkdf(c1, ns[e].sk)
                                  /\ c1 = c \/ Len(c1) < Rotations(e)
    BY DEF KeysOf, DerivedFrom, c
  <2>2. Len(c1) \in Nat
    BY LenProperties DEF ChainingKey
  <2>3. Len(c1) < Rotations(e)'
    BY <1>1, <1>6, <2>1, <2>2
  <2> QED
    BY <2>1, <2>3 DEF DerivedFrom
<1>10. ASSUME NoneOverwritten(e)' PROVE ChainedKeys(e)'
  <2>1. Len(d.ck) = Rotations(e)'
    BY <1>10 DEF NoneOverwritten, Rotations
  <2>2. c0 = c /\ Len(c) = Rotations(e)
    BY <1>1, <1>3, <1>5, <1>6, <2>1
  <2>3. ChainedKeys(e)
    BY <2>2 DEF NoneOverwritten, Rotations, KeysOf, c
  <2>4. k.dir = Peer(e) /\ Peer(e) # e
    BY PeerFacts DEF KeysOf, k
  <2>5. /\ Distinct(c) /\ MadeIn(k, c) /\ MadeIn(ns[e].sk, c)
        /\ \A i \in 1..Len(c) :
             c[i].gen < (IF c[i].dir = e THEN ns[e].sk.gen ELSE k.gen)
        /\ \A ct \in SealedBy(e) : ct.key.dir = e /\ MadeIn(ct.key, c)
    BY <2>3 DEF ChainedKeys, c, k
  <2>6. \A i \in 1..Len(c) : c[i] # x
    BY <1>1, <2>4, <2>5 DEF x
  <2>7. Distinct(d.ck)
    BY <1>1, <1>2, <1>4, <2>2, <2>5, <2>6, StillDistinct
  <2>8. MadeIn(d.key, d.ck)
    BY <1>1, <1>3, <2>2, <2>5, NextMade DEF Hkdf
  <2>9. MadeIn(ns[e].sk, d.ck)
    BY <1>1, <1>2, <1>4, <2>2, <2>5, StillMade
  <2>10. \A i \in 1..Len(d.ck) :
           d.ck[i].gen < (IF d.ck[i].dir = e THEN ns[e].sk.gen ELSE d.key.gen)
    <3>1. /\ \A i \in 1..Len(c) : d.ck[i] = c[i]
          /\ d.ck[Len(c) + 1] = x
      BY <1>1, <1>2, <1>4, <2>2, Longer
    <3>2. \A i \in 1..Len(d.ck) : i \in 1..Len(c) \/ i = Len(c) + 1
      BY <1>1, <1>5, <2>2
    <3>3. \A i \in 1..Len(c) : c[i].gen \in Nat
      <4>1. c \in Seq(KeyName)
        BY <1>1 DEF ChainingKey
      <4>2. \A i \in 1..Len(c) : c[i] \in KeyName
        BY <4>1, ElementOfSeq
      <4> QED
        BY <4>2 DEF KeyName
    <3>4. x.gen = k.gen /\ x.dir = Peer(e) /\ x.dir # e
      BY <2>4 DEF x
    <3> QED
      BY <1>1, <1>4, <2>5, <3>1, <3>2, <3>3, <3>4
  <2>11. \A ct \in SealedBy(e)' : ct.key.dir = e /\ MadeIn(ct.key, d.ck)
    <3>1. SealedBy(e)' = SealedBy(e)
      BY DEF SealedBy
    <3> SUFFICES ASSUME NEW ct \in SealedBy(e)
                 PROVE  ct.key.dir = e /\ MadeIn(ct.key, d.ck)
      BY <3>1
    <3>2. ct.key.gen \in Nat
      BY <1>1 DEF Ciphertext, Key
    <3> QED
      BY <1>1, <1>2, <1>4, <2>2, <2>5, <3>2, StillMade
  <2> QED
    BY <2>7, <2>8, <2>9, <2>10, <2>11 DEF ChainedKeys
<1>11. ns'[e].sk.dir = e /\ ns'[e].rk.dir = Peer(e)
  BY <1>4 DEF KeysOf, k
<1> QED
  BY <1>7, <1>8, <1>9, <1>10, <1>11 DEF KeysOf

(***************************************************************************)
(* The steps.                                                              *)
(***************************************************************************)

(* What e has sealed once it suspends or transmits with no other call      *)
(* pending.                                                                *)
LEMMA Sealing ==
  ASSUME TypeOK, NEW e \in Node, NEW st \in CipherState,
         NEW cts \in Seq(Ciphertext), NEW m,
         SuspendSend(e, st, {}, cts, m) \/ Transmit(e, st, {}, cts)
  PROVE  /\ ns'[e] = st
         /\ \A call \in sending'[e] : call.derived = Hkdf(st.ck, st.sk)
         /\ \A ct \in SealedBy(e)' : ct \in SealedBy(e) \/ \E i \in 1..Len(cts) : ct = cts[i]
<1>0. wire[e] \in Seq(Ciphertext)
  BY DEF TypeOK
<1>1. ns'[e] = st
  BY DEF TypeOK, SuspendSend, Transmit
<1>2. CASE SuspendSend(e, st, {}, cts, m)
  <2>1. sending'[e] = {[cts |-> cts, msg |-> m, derived |-> Hkdf(st.ck, st.sk)]}
    BY <1>2 DEF TypeOK, SuspendSend
  <2>2. wire'[e] = wire[e]
    BY <1>2 DEF SuspendSend
  <2> QED
    BY <1>1, <2>1, <2>2 DEF SealedBy
<1>3. CASE Transmit(e, st, {}, cts)
  <2>1. sending'[e] = {}
    BY <1>3 DEF TypeOK, Transmit
  <2>2. wire'[e] = wire[e] \o cts
    BY <1>3 DEF TypeOK, Transmit
  <2>3. ASSUME NEW i \in 1..Len(wire'[e])
        PROVE  \/ \E j \in 1..Len(wire[e]) : wire'[e][i] = wire[e][j]
               \/ \E j \in 1..Len(cts) : wire'[e][i] = cts[j]
    <3>1. /\ Len(wire'[e]) = Len(wire[e]) + Len(cts)
          /\ Len(wire[e]) \in Nat /\ Len(cts) \in Nat
          /\ \A j \in 1..Len(wire[e]) : wire'[e][j] = wire[e][j]
          /\ \A j \in 1..Len(cts) : wire'[e][Len(wire[e]) + j] = cts[j]
      BY <1>0, <2>2, ConcatFacts, LenProperties
    <3>2. CASE i <= Len(wire[e])
      <4>1. i \in 1..Len(wire[e])
        BY <3>1, <3>2
      <4> QED
        BY <3>1, <4>1
    <3>3. CASE ~(i <= Len(wire[e]))
      <4>1. PICK j \in 1..Len(cts) : i = Len(wire[e]) + j
        <5>1. i - Len(wire[e]) \in 1..Len(cts) /\ i = Len(wire[e]) + (i - Len(wire[e]))
          BY <3>1, <3>3
        <5> QED
          BY <5>1
      <4> QED
        BY <3>1, <4>1
    <3> QED
      BY <3>2, <3>3
  <2>4. ASSUME NEW ct \in SealedBy(e)'
        PROVE  ct \in SealedBy(e) \/ \E i \in 1..Len(cts) : ct = cts[i]
    <3>1. PICK i \in 1..Len(wire'[e]) : ct = wire'[e][i]
      BY <2>1 DEF SealedBy
    <3> QED
      BY <2>3, <3>1 DEF SealedBy
  <2> QED
    BY <1>1, <2>1, <2>4
<1> QED
  BY <1>2, <1>3

(* The body is sealed under the key st holds.                              *)
LEMMA BodySealing ==
  ASSUME TypeOK, NEW e \in Node, NEW st \in CipherState,
         NEW lc \in Ciphertext, NEW m \in Nat, EncryptBody(e, st, {}, lc, m)
  PROVE  /\ ns'[e].ck = st.ck /\ ns'[e].sk = st.sk /\ ns'[e].rk = st.rk
         /\ \A call \in sending'[e] : call.derived = Hkdf(st.ck, st.sk)
         /\ \A ct \in SealedBy(e)' :
              ct \in SealedBy(e) \/ ct = lc \/ ct.key = st.sk
<1> DEFINE next == IncrementSendingNonce(st)
           cts == <<lc, Seal(st, m)>>
<1>1. Seal(st, m) \in Ciphertext /\ next \in CipherState
  BY CipherType
<1>2. /\ cts \in Seq(Ciphertext) /\ Len(cts) = 2
      /\ cts[1] = lc /\ cts[2] = Seal(st, m)
  BY <1>1
<1>3. SuspendSend(e, next, {}, cts, m) \/ Transmit(e, next, {}, cts)
  BY DEF EncryptBody
<1>4. next.ck = st.ck /\ next.sk = st.sk /\ next.rk = st.rk
  BY DEF IncrementSendingNonce, CipherState
<1>5. \A i \in 1..2 : i = 1 \/ i = 2
  OBVIOUS
<1>6. Seal(st, m).key = st.sk
  BY DEF Seal
<1> HIDE DEF next, cts
<1>7. /\ ns'[e] = next
      /\ \A call \in sending'[e] : call.derived = Hkdf(next.ck, next.sk)
      /\ \A ct \in SealedBy(e)' :
           ct \in SealedBy(e) \/ \E i \in 1..Len(cts) : ct = cts[i]
  BY <1>1, <1>2, <1>3, Sealing
<1> QED
  BY <1>2, <1>4, <1>5, <1>6, <1>7

LEMMA SendKeys ==
  ASSUME TypeOK, AwaitedCalls, NEW e \in Node, SingleCall(sending[e]), KeysOf(e),
         EncryptMessage(e) \/ ResumeEncrypt(e)
  PROVE  KeysOf(e)'
<1>0. ns[e] \in CipherState /\ receiving' = receiving
  BY DEF TypeOK, EncryptMessage, ResumeEncrypt
<1>1. CASE EncryptMessage(e)
  <2> DEFINE m == asked[e] + 1
             lc == Seal(ns[e], m)
             next == IncrementSendingNonce(ns[e])
  <2>1. sending[e] = {}
    BY <1>1, StartAlone DEF EncryptMessage, Turn
  <2>2. m \in Nat /\ lc \in Ciphertext /\ next \in CipherState
    <3>1. m \in Nat
      BY DEF TypeOK
    <3> QED
      BY <1>0, <3>1, CipherType
  <2>3. /\ next.ck = ns[e].ck /\ next.sk = ns[e].sk /\ next.rk = ns[e].rk
        /\ lc.key = ns[e].sk
    BY <1>0 DEF IncrementSendingNonce, CipherState, Seal
  <2>4. \/ SuspendSend(e, next, {}, <<lc>>, m)
        \/ EncryptBody(e, next, {}, lc, m)
    BY <1>1, <2>1 DEF EncryptMessage
  <2> HIDE DEF m, lc, next
  <2>5. /\ ns'[e].ck = next.ck /\ ns'[e].sk = next.sk /\ ns'[e].rk = next.rk
        /\ \A call \in sending'[e] : call.derived = Hkdf(next.ck, next.sk)
        /\ \A ct \in SealedBy(e)' :
             ct \in SealedBy(e) \/ ct = lc \/ ct.key = next.sk
    <3>1. CASE SuspendSend(e, next, {}, <<lc>>, m)
      <4> DEFINE cts == <<lc>>
      <4>1. cts \in Seq(Ciphertext) /\ Len(cts) = 1 /\ cts[1] = lc
        BY <2>2
      <4>2. SuspendSend(e, next, {}, cts, m) \/ Transmit(e, next, {}, cts)
        BY <3>1
      <4> HIDE DEF cts
      <4>3. /\ ns'[e] = next
            /\ \A call \in sending'[e] : call.derived = Hkdf(next.ck, next.sk)
            /\ \A ct \in SealedBy(e)' :
                 ct \in SealedBy(e) \/ \E i \in 1..Len(cts) : ct = cts[i]
        BY <2>2, <4>1, <4>2, Sealing
      <4>4. \A i \in 1..Len(cts) : cts[i] = lc
        <5>1. \A i \in 1..1 : i = 1
          OBVIOUS
        <5> QED
          BY <4>1, <5>1
      <4> QED
        BY <4>3, <4>4
    <3>2. CASE EncryptBody(e, next, {}, lc, m)
      BY <2>2, <3>2, BodySealing
    <3> QED
      BY <2>4, <3>1, <3>2
  <2> QED
    BY <1>0, <2>3, <2>5, NoRotation
<1>2. CASE ResumeEncrypt(e)
  <2>1. PICK call \in sending[e] :
          LET st == RotateSendingKeys(ns[e], call.derived)
              rest == sending[e] \ {call}
          IN IF Len(call.cts) = 1
             THEN EncryptBody(e, st, rest, call.cts[1], call.msg)
             ELSE Transmit(e, st, rest, call.cts)
    BY <1>2 DEF ResumeEncrypt
  <2> DEFINE st == RotateSendingKeys(ns[e], call.derived)
  <2>2. sending[e] \ {call} = {}
    BY DEF SingleCall
  <2>3. /\ call \in PendingSend /\ call.derived \in Derived /\ call.msg \in Nat
        /\ call.cts \in Seq(Ciphertext)
    BY DEF TypeOK, PendingSend
  <2>4. /\ st \in CipherState
        /\ st.ck = call.derived.ck /\ st.sk = call.derived.key /\ st.rk = ns[e].rk
    <3>1. st \in CipherState
      BY <1>0, <2>3, CipherType
    <3> QED
      BY <1>0, <3>1 DEF RotateSendingKeys, CipherState
  <2>5. \/ /\ Len(call.cts) = 1 /\ call.cts[1] \in Ciphertext
           /\ EncryptBody(e, st, {}, call.cts[1], call.msg)
        \/ Transmit(e, st, {}, call.cts)
    <3>1. IF Len(call.cts) = 1
          THEN EncryptBody(e, st, {}, call.cts[1], call.msg)
          ELSE Transmit(e, st, {}, call.cts)
      BY <2>1, <2>2
    <3> HIDE DEF st
    <3>2. Len(call.cts) = 1 => call.cts[1] \in Ciphertext
      BY <2>3, ElementOfSeq
    <3> QED
      BY <3>1, <3>2
  <2> HIDE DEF st
  <2>6. \A i \in 1..Len(call.cts) : call.cts[i] \in SealedBy(e)
    BY DEF SealedBy
  <2>7. /\ ns'[e].ck = st.ck /\ ns'[e].sk = st.sk /\ ns'[e].rk = st.rk
        /\ \A other \in sending'[e] : other.derived = Hkdf(st.ck, st.sk)
        /\ \A ct \in SealedBy(e)' : ct \in SealedBy(e) \/ ct.key = st.sk
    <3>1. CASE /\ Len(call.cts) = 1 /\ call.cts[1] \in Ciphertext
               /\ EncryptBody(e, st, {}, call.cts[1], call.msg)
      <4>1. call.cts[1] \in SealedBy(e)
        <5>1. 1 \in 1..Len(call.cts)
          BY <3>1
        <5> QED
          BY <2>6, <5>1
      <4> QED
        BY <2>3, <2>4, <3>1, <4>1, BodySealing
    <3>2. CASE Transmit(e, st, {}, call.cts)
      <4> DEFINE cts == call.cts
      <4>1. cts \in Seq(Ciphertext) /\ \A i \in 1..Len(cts) : cts[i] \in SealedBy(e)
        BY <2>3, <2>6
      <4>2. SuspendSend(e, st, {}, cts, 0) \/ Transmit(e, st, {}, cts)
        BY <3>2
      <4> HIDE DEF cts
      <4>3. /\ ns'[e] = st
            /\ \A other \in sending'[e] : other.derived = Hkdf(st.ck, st.sk)
            /\ \A ct \in SealedBy(e)' :
                 ct \in SealedBy(e) \/ \E i \in 1..Len(cts) : ct = cts[i]
        BY <2>4, <4>1, <4>2, Sealing
      <4> QED
        BY <4>1, <4>3
    <3> QED
      BY <2>5, <3>1, <3>2
  <2>8. DerivedFrom(e, ns[e].sk, call.derived)
    BY DEF KeysOf
  <2> QED
    BY <1>0, <2>4, <2>7, <2>8, SendRotation
<1> QED
  BY <1>1, <1>2

LEMMA ReceiveKeys ==
  ASSUME TypeOK, NEW e \in Node, SingleCall(receiving[e]), KeysOf(e),
         DecryptLength(e) \/ DecryptMessage(e) \/ ResumeDecrypt(e)
  PROVE  KeysOf(e)'
<1>0. /\ ns[e] \in CipherState
      /\ sending' = sending /\ wire' = wire
  BY DEF TypeOK, DecryptLength, DecryptMessage, ResumeDecrypt
<1>1. SealedBy(e)' = SealedBy(e)
  BY <1>0 DEF SealedBy
<1>2. ASSUME NEW msgs, Opened(e, msgs) PROVE KeysOf(e)'
  <2> DEFINE st == IncrementReceivingNonce(ns[e])
  <2>1. st.ck = ns[e].ck /\ st.sk = ns[e].sk /\ st.rk = ns[e].rk
    BY <1>0 DEF IncrementReceivingNonce, CipherState
  <2>2. ns'[e] = st
    BY <1>2 DEF Opened, TypeOK
  <2>3. \/ receiving'[e] = receiving[e]
        \/ receiving'[e] = receiving[e] \cup {[msgs |-> msgs, derived |-> Hkdf(st.ck, st.rk)]}
    BY <1>2 DEF Opened, TypeOK
  <2> HIDE DEF st
  <2>4. \A call \in receiving'[e] :
          call \in receiving[e] \/ call.derived = Hkdf(ns[e].ck, ns[e].rk)
    BY <2>1, <2>3
  <2> QED
    BY <1>0, <1>1, <2>1, <2>2, <2>4, NoRotation
<1>3. ASSUME NEW n, Rejected(e, n) PROVE KeysOf(e)'
  BY <1>0, <1>1, <1>3, NoRotation DEF Rejected
<1>4. CASE DecryptLength(e) \/ DecryptMessage(e)
  BY <1>2, <1>3, <1>4 DEF DecryptLength, DecryptMessage
<1>5. CASE ResumeDecrypt(e)
  <2>1. PICK call \in receiving[e] :
          /\ ns' = [ns EXCEPT ![e] = RotateReceivingKeys(@, call.derived)]
          /\ receiving' = [receiving EXCEPT ![e] = @ \ {call}]
    BY <1>5 DEF ResumeDecrypt
  <2> DEFINE st == RotateReceivingKeys(ns[e], call.derived)
  <2>2. ns'[e] = st /\ receiving'[e] = {}
    BY <2>1 DEF TypeOK, SingleCall
  <2>3. /\ st.ck = call.derived.ck /\ st.rk = call.derived.key /\ st.sk = ns[e].sk
    BY <1>0 DEF RotateReceivingKeys, CipherState
  <2>4. DerivedFrom(e, ns[e].rk, call.derived)
    BY DEF KeysOf
  <2> HIDE DEF st
  <2> QED
    BY <1>0, <2>2, <2>3, <2>4, ReceiveRotation
<1> QED
  BY <1>4, <1>5

LEMMA KeyStep ==
  ASSUME TypeOK, AwaitedCalls, ChannelInv, KeyInv, NEW s \in Node, Step(s)
  PROVE  KeyInv'
<1> DEFINE t == Peer(s)
<1>0. t \in Node /\ t # s /\ \A e \in Node : e = s \/ e = t
  BY PeerFacts DEF Node, Peer
<1> HIDE DEF t
<1>1. KeysOf(s) /\ KeysOf(t) /\ SingleCall(sending[s]) /\ SingleCall(receiving[s])
  BY <1>0 DEF KeyInv, ChannelInv, PairInv
<1>2. KeysOf(s)'
  BY <1>1, SendKeys, ReceiveKeys DEF Step
<1>3. /\ ns'[t] = ns[t] /\ sending'[t] = sending[t]
      /\ receiving'[t] = receiving[t] /\ wire'[t] = wire[t]
  <2>1. CASE EncryptMessage(s) \/ ResumeEncrypt(s)
    <3>1. receiving'[t] = receiving[t]
      BY <2>1 DEF EncryptMessage, ResumeEncrypt
    <3>2. \A st, rest, cts, m :
            SuspendSend(s, st, rest, cts, m) \/ Transmit(s, st, rest, cts)
              => /\ ns'[t] = ns[t] /\ sending'[t] = sending[t]
                 /\ wire'[t] = wire[t]
      BY <1>0 DEF TypeOK, SuspendSend, Transmit
    <3>3. \A st, rest, lc, m : EncryptBody(s, st, rest, lc, m)
              => /\ ns'[t] = ns[t] /\ sending'[t] = sending[t]
                 /\ wire'[t] = wire[t]
      BY <3>2 DEF EncryptBody
    <3> QED
      BY <2>1, <3>1, <3>2, <3>3 DEF EncryptMessage, ResumeEncrypt
  <2>2. CASE DecryptLength(s) \/ DecryptMessage(s) \/ ResumeDecrypt(s)
    BY <1>0, <2>2 DEF TypeOK, DecryptLength, DecryptMessage, Opened, Rejected, ResumeDecrypt
  <2> QED
    BY <2>1, <2>2 DEF Step
<1>4. KeysOf(t)'
  <2>1. SealedBy(t)' = SealedBy(t) /\ Rotations(t)' = Rotations(t)
    BY <1>3 DEF SealedBy, Rotations
  <2>2. /\ \A call \in sending[t] : DerivedFrom(t, ns[t].sk, call.derived)
        /\ \A call \in receiving[t] : DerivedFrom(t, ns[t].rk, call.derived)
    BY <1>1 DEF KeysOf
  <2>3. /\ \A call \in sending[t] : DerivedFrom(t, ns[t].sk, call.derived)'
        /\ \A call \in receiving[t] : DerivedFrom(t, ns[t].rk, call.derived)'
    BY <1>3, <2>1, <2>2 DEF DerivedFrom
  <2>4. NoneOverwritten(t)' => ChainedKeys(t)'
    BY <1>1, <1>3, <2>1 DEF KeysOf, NoneOverwritten, ChainedKeys
  <2>5. /\ ns'[t].sk.dir = t /\ ns'[t].rk.dir = Peer(t)
        /\ Len(ns'[t].ck) <= Rotations(t)'
    BY <1>1, <1>3, <2>1 DEF KeysOf
  <2>6. /\ \A call \in sending'[t] : DerivedFrom(t, ns[t].sk, call.derived)'
        /\ \A call \in receiving'[t] : DerivedFrom(t, ns[t].rk, call.derived)'
    BY <1>3, <2>3
  <2> QED
    BY <1>3, <2>4, <2>5, <2>6 DEF KeysOf, DerivedFrom
<1> QED
  BY <1>0, <1>2, <1>4 DEF KeyInv, AwaitedCalls

(* At each end, a rotation under way belongs to the key it will replace,   *)
(* the chaining key never holds more names than there were rotations, and  *)
(* while it holds all of them it determines every key the end has          *)
(* installed or sealed with (noise-state.js 164-177).                      *)
THEOREM KeyInvariant == Spec => []KeyInv
<1>1. Init => KeyInv
  <2> SUFFICES ASSUME Init, NEW e \in Node PROVE KeysOf(e)
    BY DEF KeyInv
  <2>1. /\ ns[e] = InitCipher(e) /\ sending[e] = {} /\ receiving[e] = {}
        /\ wire[e] = << >>
    BY DEF Init
  <2>2. /\ ns[e].ck = << >> /\ ns[e].sk = BaseKey(e) /\ ns[e].rk = BaseKey(Peer(e))
    BY <2>1 DEF InitCipher
  <2>3. \A i \in 1..Len(<< >>) : FALSE
    OBVIOUS
  <2>4. SealedBy(e) = {}
    BY <2>1, <2>3 DEF SealedBy
  <2>5. \A k : k.gen = 0 /\ k.salts = << >> => MadeIn(k, << >>)
    <3>1. \A g \in 1..0 : FALSE /\ Len(<< >>) = 0
      OBVIOUS
    <3>2. Len(<< >>) = 0
      OBVIOUS
    <3> QED
      BY <3>1, <3>2 DEF MadeIn
  <2>6. /\ BaseKey(e).gen = 0 /\ BaseKey(e).salts = << >> /\ BaseKey(e).dir = e
        /\ BaseKey(Peer(e)).gen = 0 /\ BaseKey(Peer(e)).salts = << >>
        /\ BaseKey(Peer(e)).dir = Peer(e)
    BY DEF BaseKey
  <2>7. ChainedKeys(e)
    BY <2>2, <2>3, <2>4, <2>5, <2>6 DEF ChainedKeys, Distinct
  <2>8. Len(ns[e].ck) <= Rotations(e)
    BY <2>2, <2>6 DEF Rotations
  <2> QED
    BY <2>1, <2>2, <2>6, <2>7, <2>8 DEF KeysOf
<1>2. TypeOK /\ ChannelInv /\ KeyInv /\ [Next]_vars => KeyInv'
  <2> SUFFICES ASSUME TypeOK, ChannelInv, KeyInv, [Next]_vars, AwaitedCalls
               PROVE  KeyInv'
    BY DEF KeyInv, AwaitedCalls
  <2>1. CASE Next
    BY <2>1, KeyStep DEF Next
  <2>2. CASE UNCHANGED vars
    BY <2>2 DEF vars, KeyInv, KeysOf, DerivedFrom, Rotations, NoneOverwritten,
                ChainedKeys, SealedBy
  <2> QED
    BY <2>1, <2>2
<1> QED
  BY <1>1, <1>2, TypeCorrect, ChannelInvariant, PTL DEF Spec

(* The shorter of the two chaining keys begins the longer one, told for    *)
(* either end.                                                             *)
LEMMA OneBegins ==
  ASSUME TypeOK, SameOrder, NEW e \in Node,
         Len(ns[e].ck) <= Len(ns[Peer(e)].ck)
  PROVE  SubSeq(ns[e].ck, 1, Len(ns[e].ck)) = SubSeq(ns[Peer(e)].ck, 1, Len(ns[e].ck))
<1>1. /\ Client \in Node /\ Server \in Node /\ Peer(Client) = Server
      /\ Peer(Server) = Client /\ (e = Client \/ e = Server)
  BY EndsAssumption DEF Node, Peer
<1>2. Len(ns[Client].ck) \in Nat /\ Len(ns[Server].ck) \in Nat
  BY <1>1, KeyFacts
<1>3. CASE e = Client
  <2>1. ~(Len(ns[Client].ck) < Len(ns[Server].ck))
          => Len(ns[Server].ck) = Len(ns[Client].ck)
    BY <1>1, <1>2, <1>3
  <2> QED
    BY <1>1, <1>3, <2>1 DEF SameOrder
<1>4. CASE e = Server
  <2>1. ~(Len(ns[Client].ck) < Len(ns[Server].ck))
    BY <1>1, <1>2, <1>4
  <2> QED
    BY <1>1, <1>4, <2>1 DEF SameOrder
<1> QED
  BY <1>1, <1>3, <1>4

(* What an end has sealed, read off its log.                               *)
LEMMA LogIsSealed ==
  ASSUME TypeOK, NEW e \in Node, NEW p \in Positions(e), NEW i \in 1..Len(p.log)
  PROVE  p.log[i] \in SealedBy(e)
<1>1. CASE sending[e] = {}
  <2>1. p.log = wire[e]
    BY <1>1 DEF Positions
  <2> QED
    BY <2>1 DEF SealedBy
<1>2. CASE sending[e] # {}
  <2>1. PICK call \in sending[e] : p.log = wire[e] \o call.cts
    <3>1. PICK call \in sending[e] :
            p = [log |-> wire[e] \o call.cts, key |-> call.derived.key, nonce |-> 0]
      BY <1>2 DEF Positions
    <3> QED
      BY <3>1
  <2>2. wire[e] \in Seq(Ciphertext) /\ call.cts \in Seq(Ciphertext)
    BY DEF TypeOK, PendingSend
  <2> DEFINE w == wire[e]
             cts == call.cts
  <2>3. /\ Len(w \o cts) = Len(w) + Len(cts)
        /\ Len(w) \in Nat /\ Len(cts) \in Nat
        /\ \A j \in 1..Len(w) : (w \o cts)[j] = w[j]
        /\ \A j \in 1..Len(cts) : (w \o cts)[Len(w) + j] = cts[j]
    BY <2>2, ConcatFacts, LenProperties
  <2>4. /\ \A j \in 1..Len(w) : w[j] \in SealedBy(e)
        /\ \A j \in 1..Len(cts) : cts[j] \in SealedBy(e)
    BY DEF SealedBy
  <2>5. i \in 1..Len(w \o cts) /\ p.log[i] = (w \o cts)[i]
    BY <2>1
  <2> HIDE DEF w, cts
  <2>6. CASE i <= Len(w)
    <3>1. i \in 1..Len(w)
      BY <2>3, <2>6
    <3> QED
      BY <2>3, <2>4, <2>5, <3>1
  <2>7. CASE ~(i <= Len(w))
    <3>1. i - Len(w) \in 1..Len(cts) /\ i = Len(w) + (i - Len(w))
      BY <2>3, <2>5, <2>7
    <3>2. (w \o cts)[i] = cts[i - Len(w)]
      BY <2>3, <3>1
    <3> QED
      BY <2>4, <2>5, <3>1, <3>2
  <2> QED
    BY <2>6, <2>7
<1> QED
  BY <1>1, <1>2

(* A frame is lost only when the rotations of the two ends have crossed in *)
(* the one chaining key, or one has overwritten another: as long as the    *)
(* chaining keys agree, each end opens every ciphertext of the other       *)
(* (noise-state.js 90-133 and 164-177).                                    *)
THEOREM LossOnlyWhenCrossed == AwaitedCalls /\ Spec => []LossMeansCrossed
<1>1. AwaitedCalls /\ TypeOK /\ ChannelInv /\ KeyInv => LossMeansCrossed
  <2> SUFFICES ASSUME AwaitedCalls, TypeOK, ChannelInv, KeyInv, Uncrossed,
                      NEW r \in Node, receiving[r] = {}
               PROVE  Len(delivered[r]) = read[r] \div 2
    BY DEF LossMeansCrossed, NothingLost
  <2> DEFINE e == Peer(r)
             c == ns[e].ck
             d == ns[r].ck
             rk == ns[r].rk
  <2>0. e \in Node /\ Peer(e) = r
    BY PeerFacts
  <2>1. PICK p \in Positions(e) : TRUE
    BY DEF Positions
  <2>2. Synced(r, p.log) \/ Dead(r, p.log, p.key)
    BY <2>0 DEF ChannelInv, PairInv
  <2>3. CASE Synced(r, p.log)
    BY <2>3 DEF Synced
  <2>4. CASE Dead(r, p.log, p.key)
    <3>1. PICK i \in 1..Len(p.log) : p.log[i].key.gen = rk.gen /\ p.log[i].key # rk
      BY <2>4 DEF Dead
    <3> DEFINE k == p.log[i].key
    <3>2. p.log[i] \in SealedBy(e)
      BY <2>0, LogIsSealed
    <3>3. KeysOf(e) /\ KeysOf(r) /\ ChainedKeys(e) /\ ChainedKeys(r)
      BY <2>0 DEF KeyInv, KeysOf, Uncrossed
    <3>4. /\ k.dir = e /\ MadeIn(k, c) /\ Distinct(c)
          /\ rk.dir = e /\ MadeIn(rk, d) /\ Distinct(d)
      BY <3>2, <3>3 DEF ChainedKeys, KeysOf
    <3>5. /\ c \in ChainingKey /\ d \in ChainingKey /\ rk \in Key
          /\ Len(c) \in Nat /\ Len(d) \in Nat
      BY <2>0, KeyFacts
    <3>6. k \in Key
      <4>1. SealedBy(e) \subseteq Ciphertext
        BY <2>0, KeyFacts
      <4> QED
        BY <3>2, <4>1 DEF Ciphertext
    <3>7. /\ Len(c) <= Len(d) => SubSeq(c, 1, Len(c)) = SubSeq(d, 1, Len(c))
          /\ Len(d) <= Len(c) => SubSeq(d, 1, Len(d)) = SubSeq(c, 1, Len(d))
      BY <2>0, OneBegins DEF Uncrossed
    <3>8. k.gen = rk.gen /\ k # rk
      BY <3>1
    <3> HIDE DEF e, c, d, rk, k
    <3>9. CASE Len(c) <= Len(d)
      BY <3>4, <3>5, <3>6, <3>7, <3>8, <3>9, SameKey
    <3>10. CASE Len(d) <= Len(c)
      BY <3>4, <3>5, <3>6, <3>7, <3>8, <3>10, SameKey
    <3> QED
      BY <3>5, <3>9, <3>10
  <2> QED
    BY <2>2, <2>3, <2>4
<1>2. CASE AwaitedCalls
  BY <1>1, <1>2, TypeCorrect, ChannelInvariant, KeyInvariant, PTL
<1>3. CASE ~AwaitedCalls
  BY <1>3
<1> QED
  BY <1>2, <1>3

(***************************************************************************)
(* Framing and session: the theorems of PeerFraming and PeerSession, for   *)
(* the behaviours of the run.                                              *)
(***************************************************************************)
LEMMA FramingSpec == SpecAll => Framing!Spec
<1>1. InitAll => Framing!Init
  BY DEF InitAll
<1>2. [NextAll]_all => [Framing!Next]_Framing!vars
  <2>1. CASE InFraming /\ Framing!Next
    BY <2>1
  <2>2. CASE UNCHANGED framingVars
    BY <2>2 DEF framingVars, Framing!vars
  <2> QED
    BY <2>1, <2>2 DEF NextAll, InTransport, InSession, all
<1> QED
  BY <1>1, <1>2, PTL DEF SpecAll, Framing!Spec

LEMMA SessionSpec == SpecAll => Session!Spec
<1>1. InitAll => Session!Init
  BY DEF InitAll
<1>2. [NextAll]_all => [Session!Next]_Session!vars
  <2>1. CASE InSession /\ Session!Next
    BY <2>1
  <2>2. CASE UNCHANGED sessionVars
    BY <2>2 DEF sessionVars, Session!vars
  <2> QED
    BY <2>1, <2>2 DEF NextAll, InTransport, InFraming, all
<1> QED
  BY <1>1, <1>2, PTL DEF SpecAll, Session!Spec

(* However TCP cuts the stream, frames are routed in the order sent.       *)
THEOREM RoutedInOrder == SpecAll => []NeverOutOfOrder
<1>1. Framing!Spec => []Framing!NeverOutOfOrder
  BY LengthsAssumption, SizesAssumption, MaxFramesAssumption,
     ChunkingAssumption, Framing!OrderKept
<1> QED
  BY <1>1, FramingSpec, PTL DEF NeverOutOfOrder

(* A length carried over to the next event belongs to the body that comes  *)
(* next (peer-client.js 90).                                               *)
THEOREM CarriedIsCurrent == SpecAll => []CarriedLengthIsCurrent
<1>1. Framing!Spec => []Framing!CarriedLengthIsCurrent
  BY LengthsAssumption, SizesAssumption, MaxFramesAssumption,
     ChunkingAssumption, Framing!CarriedLengthCorrect
<1> QED
  BY <1>1, FramingSpec, PTL DEF CarriedLengthIsCurrent

(* Where frames arrive whole, an event routes exactly one.                 *)
THEOREM FramePerEvent == SpecAll => []OneFramePerEvent
<1>1. Framing!Spec => []Framing!OneFramePerEvent
  BY LengthsAssumption, SizesAssumption, MaxFramesAssumption,
     ChunkingAssumption, Framing!EventPerFrame
<1> QED
  BY <1>1, FramingSpec, PTL DEF OneFramePerEvent

(* Where frames arrive whole or in their two parts, each is routed by the  *)
(* event that completes it.                                                *)
THEOREM FramesRouted == SpecAll => []CompleteFramesDelivered
<1>1. Framing!Spec => []Framing!CompleteFramesDelivered
  BY LengthsAssumption, SizesAssumption, MaxFramesAssumption,
     ChunkingAssumption, Framing!CompleteFramesRouted
<1> QED
  BY <1>1, FramingSpec, PTL DEF CompleteFramesDelivered

(* An established client and its responder have the same keys, crosswise.  *)
THEOREM KeysOfConnection == SpecAll => []KeyAgreement
<1>1. Session!Spec => []Session!KeyAgreement
  BY BoundsAssumption, Session!KeysAgree
<1> QED
  BY <1>1, SessionSpec, PTL DEF KeyAgreement

(* Whatever the timer does, the first message sealed is init.              *)
THEOREM InitBeforeAll == SpecAll => []InitFirst
<1>1. Session!Spec => []Session!InitFirst
  BY BoundsAssumption, Session!InitIsFirst
<1> QED
  BY <1>1, SessionSpec, PTL DEF InitFirst

(* After a refused act two of the right version the handshake is never     *)
(* completed (noise-state.js 63).                                          *)
THEOREM RefusalIsFinal == SpecAll => []NoHandshakeAfterForgery
<1>1. Session!Spec => []Session!NoHandshakeAfterForgery
  BY BoundsAssumption, Session!ForgeryIsFinal
<1> QED
  BY <1>1, SessionSpec, PTL DEF NoHandshakeAfterForgery

(* A ping that was routed has one pong or one unhandled rejection.         *)
THEOREM PongOfEveryPing == SpecAll => []PongPerPing
<1>1. Session!Spec => []Session!PongPerPing
  BY BoundsAssumption, Session!PongsAnswerPings
<1> QED
  BY <1>1, SessionSpec, PTL DEF PongPerPing
=============================================================================
