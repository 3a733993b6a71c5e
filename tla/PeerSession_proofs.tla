-------------------------- MODULE PeerSession_proofs --------------------------
(***************************************************************************)
(* Proofs about PeerSession, for every number of replies, pings and ticks. *)
(***************************************************************************)
EXTENDS PeerSession, TLAPS, SequenceTheorems, FiniteSetTheorems

(* What act one leaves behind.                                             *)
Fresh == AfterAct1(Initialized(Blank))

(* While the client waits for act two its state is that of act one, or it  *)
(* has hashed a point that was refused, and no act two fits any more.      *)
WaitingForAct2 ==
  /\ noise.sk = NoKey /\ noise.rk = NoKey
  /\ \/ /\ noise = Fresh
        /\ \A i \in 1..taken : ~VersionOk(replies[i])
     \/ Len(noise.h) > Len(Fresh.h)

(* Once it is established it took the responder's act two before any other *)
(* of this version, and has the responder's keys.                          *)
Established ==
  /\ taken > 0 /\ replies[taken] = GenuineAct2
  /\ \A i \in 1..taken : VersionOk(replies[i]) => replies[i] = GenuineAct2
  /\ noise.sk = ResponderKey("first") /\ noise.rk = ResponderKey("second")
  /\ act3 = <<Act3Message(Fresh, GenuineAct2)>>

SessionInv ==
  /\ TypeOK
  /\ InitFirst
  /\ responder # "failed"
  /\ \A i \in 1..Len(replies) : replies[i] \in WrongAct2 \cup {GenuineAct2}
  /\ socket \in {"none", "opening"} => completedAct = 0
  /\ socket = "open" => completedAct # 0
  /\ completedAct = 0 => noise = Blank /\ replies = << >>
  /\ completedAct = 1 => WaitingForAct2
  /\ completedAct # 3 => act3 = << >>
  /\ completedAct = 3 => Established

(***************************************************************************)
(* The handshake.                                                          *)
(***************************************************************************)
LEMMA PubFacts ==
  /\ Pub \subseteq HashItem
  /\ "prologue" \in HashItem /\ "tag" \in HashItem /\ "static" \in HashItem
  /\ \A a, b \in Pub : Ecdh(a, b) \in SUBSET Pub
  /\ {"ls", "rs", "es", "re", "other", "invalid"} \subseteq Pub
BY DEF Pub, HashItem, Ecdh

LEMMA NoKeyType == NoKey \in SessionKey
BY EmptySeq DEF NoKey, SessionKey, Chain

LEMMA BlankType == Blank \in Handshake
BY NoKeyType, EmptySeq DEF Blank, Handshake, Hash, Chain

(* Sequences written out, for the provers.                                 *)
LEMMA TwoAndTwo ==
  ASSUME NEW S, NEW a \in S, NEW b \in S, NEW c \in S, NEW d \in S
  PROVE  <<a, b>> \o <<c, d>> = <<a, b, c, d>>
<1> DEFINE s == <<a, b>>
           t == <<c, d>>
           u == <<a, b, c, d>>
<1>1. /\ s \in Seq(S) /\ t \in Seq(S) /\ u \in Seq(S)
      /\ Len(s) = 2 /\ Len(t) = 2 /\ Len(u) = 4
      /\ s[1] = a /\ s[2] = b /\ t[1] = c /\ t[2] = d
      /\ u[1] = a /\ u[2] = b /\ u[3] = c /\ u[4] = d
  OBVIOUS
<1> HIDE DEF s, t, u
<1>2. /\ s \o t \in Seq(S) /\ Len(s \o t) = 4
      /\ (s \o t)[1] = a /\ (s \o t)[2] = b
      /\ (s \o t)[3] = c /\ (s \o t)[4] = d
  <2>1. /\ s \o t \in Seq(S) /\ Len(s \o t) = Len(s) + Len(t)
        /\ \A i \in 1..Len(s) + Len(t) :
             (s \o t)[i] = IF i <= Len(s) THEN s[i] ELSE t[i - Len(s)]
    BY <1>1, ConcatProperties
  <2> QED
    BY <1>1, <2>1
<1>3. \A i \in 1..4 : (s \o t)[i] = u[i]
  BY <1>1, <1>2
<1>4. s \o t = u
  BY <1>1, <1>2, <1>3, SeqEqual
<1> QED
  BY <1>4 DEF s, t, u

LEMMA OneMore ==
  ASSUME NEW S, NEW a \in S, NEW b \in S
  PROVE  Append(<<a>>, b) = <<a, b>>
<1> DEFINE s == <<a>>
           u == <<a, b>>
<1>1. /\ s \in Seq(S) /\ u \in Seq(S) /\ Len(s) = 1 /\ Len(u) = 2
      /\ s[1] = a /\ u[1] = a /\ u[2] = b
  OBVIOUS
<1> HIDE DEF s, u
<1>2. /\ Append(s, b) \in Seq(S) /\ Len(Append(s, b)) = 2
      /\ Append(s, b)[1] = a /\ Append(s, b)[2] = b
  <2>1. /\ Append(s, b) \in Seq(S) /\ Len(Append(s, b)) = Len(s) + 1
        /\ \A i \in 1..Len(s) : Append(s, b)[i] = s[i]
        /\ Append(s, b)[Len(s) + 1] = b
    <3>1. s \in Seq(S)
      BY <1>1
    <3> QED
      BY <3>1, AppendProperties
  <2> QED
    BY <1>1, <2>1
<1>3. \A i \in 1..2 : Append(s, b)[i] = u[i]
  BY <1>1, <1>2
<1>4. Append(s, b) = u
  BY <1>1, <1>2, <1>3, SeqEqual
<1> QED
  BY <1>4 DEF s, u

LEMMA FourAndOne ==
  ASSUME NEW S, NEW a \in S, NEW b \in S, NEW c \in S, NEW d \in S, NEW e \in S
  PROVE  Append(<<a, b, c, d>>, e) = <<a, b, c, d, e>>
<1> DEFINE s == <<a, b, c, d>>
           u == <<a, b, c, d, e>>
<1>1. /\ s \in Seq(S) /\ u \in Seq(S) /\ Len(s) = 4 /\ Len(u) = 5
      /\ s[1] = a /\ s[2] = b /\ s[3] = c /\ s[4] = d
      /\ u[1] = a /\ u[2] = b /\ u[3] = c /\ u[4] = d /\ u[5] = e
  OBVIOUS
<1> HIDE DEF s, u
<1>2. /\ Append(s, e) \in Seq(S) /\ Len(Append(s, e)) = 5
      /\ Append(s, e)[1] = a /\ Append(s, e)[2] = b /\ Append(s, e)[3] = c
      /\ Append(s, e)[4] = d /\ Append(s, e)[5] = e
  <2>1. /\ Append(s, e) \in Seq(S) /\ Len(Append(s, e)) = Len(s) + 1
        /\ \A i \in 1..Len(s) : Append(s, e)[i] = s[i]
        /\ Append(s, e)[Len(s) + 1] = e
    <3>1. s \in Seq(S)
      BY <1>1
    <3> QED
      BY <3>1, AppendProperties
  <2> QED
    BY <1>1, <2>1
<1>3. \A i \in 1..5 : Append(s, e)[i] = u[i]
  BY <1>1, <1>2
<1>4. Append(s, e) = u
  BY <1>1, <1>2, <1>3, SeqEqual
<1> QED
  BY <1>4 DEF s, u

(* Act one from a new NoiseState.                                          *)
LEMMA FreshFacts ==
  /\ Fresh \in Handshake
  /\ Fresh.h = <<"prologue", "rs", "es", "tag">> /\ Len(Fresh.h) = 4
  /\ Fresh.ck = <<Ecdh("rs", "es")>>
  /\ Fresh.sk = NoKey /\ Fresh.rk = NoKey
<1> DEFINE st == Initialized(Blank)
<1>1. /\ st \in Handshake /\ st.h = <<"prologue", "rs">> /\ st.ck = << >>
      /\ st.sk = NoKey /\ st.rk = NoKey
  <2>1. <<"prologue", "rs">> \in Hash /\ << >> \in Chain
    BY PubFacts DEF Hash, Chain
  <2> QED
    BY <2>1, BlankType DEF Initialized, Blank, Handshake
<1> HIDE DEF st
<1>2. /\ st.h \o <<"es", "tag">> = <<"prologue", "rs", "es", "tag">>
      /\ Append(st.ck, Ecdh("rs", "es")) = <<Ecdh("rs", "es")>>
  BY <1>1, PubFacts, TwoAndTwo
<1>3. /\ <<"prologue", "rs", "es", "tag">> \in Hash
      /\ <<Ecdh("rs", "es")>> \in Chain
  BY PubFacts DEF Hash, Chain
<1>4. /\ AfterAct1(st) \in Handshake
      /\ AfterAct1(st).h = st.h \o <<"es", "tag">>
      /\ AfterAct1(st).ck = Append(st.ck, Ecdh("rs", "es"))
      /\ AfterAct1(st).sk = st.sk /\ AfterAct1(st).rk = st.rk
  BY <1>1, <1>2, <1>3 DEF AfterAct1, Handshake
<1>5. Len(<<"prologue", "rs", "es", "tag">>) = 4
  OBVIOUS
<1> QED
  BY <1>1, <1>2, <1>4, <1>5 DEF Fresh, st

(* The operations return NoiseStates and messages.                         *)
LEMMA HandshakeType ==
  ASSUME NEW st \in Handshake, NEW m, m.re \in Pub
  PROVE  /\ HashedPoint(st, m) \in Handshake
         /\ MixedSecret(st, m) \in Handshake
         /\ AfterRejectedAct2(st, m) \in Handshake
         /\ AfterAct3(st, m) \in Handshake
         /\ Act3Message(st, m) \in Act3
         /\ Len(HashedPoint(st, m).h) = Len(st.h) + 1
         /\ MixedSecret(st, m).h = Append(st.h, m.re)
         /\ Len(MixedSecret(st, m).h) = Len(st.h) + 1
         /\ MixedSecret(st, m).sk = st.sk /\ MixedSecret(st, m).rk = st.rk
         /\ HashedPoint(st, m).sk = st.sk /\ HashedPoint(st, m).rk = st.rk
<1> DEFINE s == MixedSecret(st, m)
           ck == Append(s.ck, Ecdh(m.re, "ls"))
<1>1. /\ st.h \in Seq(HashItem) /\ st.ck \in Seq(SUBSET Pub)
      /\ st.sk \in SessionKey /\ st.rk \in SessionKey
      /\ m.re \in HashItem
      /\ Ecdh(m.re, "es") \in SUBSET Pub /\ Ecdh(m.re, "ls") \in SUBSET Pub
  BY PubFacts DEF Handshake, Hash, Chain
<1>2. /\ Append(st.h, m.re) \in Seq(HashItem)
      /\ Len(Append(st.h, m.re)) = Len(st.h) + 1
      /\ Append(st.ck, Ecdh(m.re, "es")) \in Seq(SUBSET Pub)
  BY <1>1, AppendProperties
<1>3. /\ HashedPoint(st, m) \in Handshake
      /\ HashedPoint(st, m).h = Append(st.h, m.re)
      /\ HashedPoint(st, m).ck = st.ck
      /\ HashedPoint(st, m).sk = st.sk /\ HashedPoint(st, m).rk = st.rk
  BY <1>2 DEF HashedPoint, Handshake, Hash
<1>4. /\ s \in Handshake
      /\ s.h = Append(st.h, m.re)
      /\ s.ck = Append(st.ck, Ecdh(m.re, "es"))
      /\ s.sk = st.sk /\ s.rk = st.rk
  BY <1>2, <1>3 DEF MixedSecret, Handshake, Chain
<1> HIDE DEF s
<1>5. s.h \in Seq(HashItem) /\ s.ck \in Seq(SUBSET Pub)
  BY <1>2, <1>4
<1>6. ck \in Seq(SUBSET Pub)
  BY <1>1, <1>5, AppendProperties
<1> HIDE DEF ck
<1>7. /\ Append(s.h, "tag") \in Seq(HashItem)
      /\ Append(Append(s.h, "tag"), "static") \in Seq(HashItem)
      /\ s.h \o <<"tag", "static">> \in Seq(HashItem)
  BY <1>5, PubFacts, AppendProperties, ConcatProperties
<1>8. SplitKey(ck, "first") \in SessionKey /\ SplitKey(ck, "second") \in SessionKey
  BY <1>6 DEF SplitKey, SessionKey, Chain
<1>9. AfterAct3(st, m) \in Handshake
  BY <1>6, <1>7, <1>8 DEF AfterAct3, s, ck, Handshake, Hash, Chain
<1>10. Act3Message(st, m) \in Act3
  BY <1>5, <1>6, <1>7 DEF Act3Message, s, ck, Act3, Tag, Hash, Chain
<1>11. AfterRejectedAct2(st, m) \in Handshake
  BY <1>3, <1>4 DEF AfterRejectedAct2, s
<1> QED
  BY <1>2, <1>3, <1>4, <1>9, <1>10, <1>11 DEF s

(* What is not the responder's act two never authenticates: the hash it is *)
(* checked against is never empty.                                         *)
LEMMA WrongIsRefused ==
  ASSUME NEW st \in Handshake, NEW m \in WrongAct2
  PROVE  ~Act2Accepted(st, m)
<1>1. m.re \in Pub /\ (m.version = 1 \/ m.tag = ForgedTag)
  BY PubFacts DEF WrongAct2
<1>2. Len(MixedSecret(st, m).h) = Len(st.h) + 1 /\ st.h \in Seq(HashItem)
  BY <1>1, HandshakeType DEF Handshake, Hash
<1>3. MixedSecret(st, m).h # << >>
  BY <1>2, LenProperties, EmptySeq
<1>4. TagOk(st, m) => m.tag.h # << >>
  BY <1>3 DEF TagOk
<1> QED
  BY <1>1, <1>4 DEF Act2Accepted, VersionOk, ForgedTag

(* The responder's act two completes the handshake of a fresh state and of *)
(* no state that has hashed more.                                          *)
LEMMA GenuineNeedsFresh ==
  ASSUME NEW st \in Handshake, Act2Accepted(st, GenuineAct2)
  PROVE  Len(st.h) = Len(Fresh.h)
<1>1. GenuineAct2.re = "re" /\ "re" \in Pub
      /\ GenuineAct2.tag.h = <<"prologue", "rs", "es", "tag", "re">>
  BY PubFacts DEF GenuineAct2, ResponderAfterAct2
<1>2. Len(MixedSecret(st, GenuineAct2).h) = Len(st.h) + 1
  BY <1>1, HandshakeType
<1>3. MixedSecret(st, GenuineAct2).h = GenuineAct2.tag.h
  BY DEF Act2Accepted, TagOk
<1>4. Len(st.h) \in Nat
  BY LenProperties DEF Handshake, Hash
<1>5. Len(GenuineAct2.tag.h) = 5
  BY <1>1
<1>6. Len(st.h) + 1 = 5
  BY <1>2, <1>3, <1>5
<1>7. Len(Fresh.h) = 4
  BY FreshFacts
<1>8. \A n \in Nat : n + 1 = 5 => n = 4
  OBVIOUS
<1>9. Len(st.h) = 4
  BY <1>4, <1>6, <1>8
<1> QED
  BY <1>7, <1>9

LEMMA GenuineAgrees ==
  /\ MixedSecret(Fresh, GenuineAct2).h = ResponderAfterAct2.h
  /\ MixedSecret(Fresh, GenuineAct2).ck = ResponderAfterAct2.ck
  /\ Act2Accepted(Fresh, GenuineAct2)
  /\ AfterAct3(Fresh, GenuineAct2).sk = ResponderKey("first")
  /\ AfterAct3(Fresh, GenuineAct2).rk = ResponderKey("second")
  /\ ResponderAccepts(Act3Message(Fresh, GenuineAct2))
  /\ ResponderKey("first") # NoKey
<1>1. GenuineAct2.re = "re" /\ GenuineAct2.version = 0
  BY DEF GenuineAct2
<1>2. /\ MixedSecret(Fresh, GenuineAct2).h = Append(Fresh.h, "re")
      /\ MixedSecret(Fresh, GenuineAct2).ck = Append(Fresh.ck, Ecdh("re", "es"))
  BY <1>1, FreshFacts DEF MixedSecret, HashedPoint, Handshake
<1>3. /\ MixedSecret(Fresh, GenuineAct2).h = ResponderAfterAct2.h
      /\ MixedSecret(Fresh, GenuineAct2).ck = ResponderAfterAct2.ck
  <2>1. Append(<<"prologue", "rs", "es", "tag">>, "re")
          = <<"prologue", "rs", "es", "tag", "re">>
    BY PubFacts, FourAndOne
  <2>2. Append(<<Ecdh("rs", "es")>>, Ecdh("re", "es"))
          = <<Ecdh("rs", "es"), Ecdh("re", "es")>>
    BY ZenonT(60), PubFacts, OneMore
  <2> QED
    BY <1>2, <2>1, <2>2, FreshFacts DEF ResponderAfterAct2
<1>4. Act2Accepted(Fresh, GenuineAct2)
  BY <1>1, <1>3 DEF Act2Accepted, VersionOk, PointOk, TagOk, GenuineAct2
<1>5. /\ AfterAct3(Fresh, GenuineAct2).sk = ResponderKey("first")
      /\ AfterAct3(Fresh, GenuineAct2).rk = ResponderKey("second")
  BY <1>1, <1>3 DEF AfterAct3, ResponderKey
<1>6. ResponderAccepts(Act3Message(Fresh, GenuineAct2))
  BY <1>1, <1>3 DEF Act3Message, ResponderAccepts
<1>7. ResponderKey("first") # NoKey
  BY DEF ResponderKey, SplitKey, NoKey
<1> QED
  BY <1>3, <1>4, <1>5, <1>6, <1>7

LEMMA RepliesTyped == WrongAct2 \cup {GenuineAct2} \subseteq Act2
<1>1. ForgedTag \in Tag
  BY EmptySeq DEF ForgedTag, Tag, Chain, Hash
<1>2. WrongAct2 \subseteq Act2
  BY <1>1, PubFacts DEF WrongAct2, Act2
<1>3. ResponderAfterAct2.h \in Hash /\ ResponderAfterAct2.ck \in Chain
  BY PubFacts DEF ResponderAfterAct2, Hash, Chain
<1>4. GenuineAct2 \in Act2
  BY <1>3, PubFacts DEF GenuineAct2, Act2, Tag
<1> QED
  BY <1>2, <1>4

(***************************************************************************)
(* Counting.                                                               *)
(***************************************************************************)
LEMMA CountNext ==
  ASSUME NEW s, NEW n \in Nat, NEW x
  PROVE  /\ Count(s, n, x) \in Nat
         /\ Count(s, n + 1, x) = Count(s, n, x) + (IF s[n + 1] = x THEN 1 ELSE 0)
<1> DEFINE A == {i \in 1..n : s[i] = x}
           B == {i \in 1..n + 1 : s[i] = x}
<1>1. IsFiniteSet(A) /\ Cardinality(A) \in Nat
  <2>1. IsFiniteSet(1..n)
    BY FS_Interval
  <2>2. A \subseteq 1..n
    OBVIOUS
  <2>3. IsFiniteSet(A)
    BY <2>1, <2>2, FS_Subset
  <2> QED
    BY <2>3, FS_CardinalityType
<1>2. CASE s[n + 1] = x
  <2>1. B = A \cup {n + 1} /\ n + 1 \notin A
    BY <1>2
  <2>2. Cardinality(B) = Cardinality(A) + 1
    BY <1>1, <2>1, FS_AddElement
  <2> QED
    BY <1>1, <1>2, <2>2 DEF Count
<1>3. CASE s[n + 1] # x
  <2>1. B = A
    BY <1>3
  <2> QED
    BY <1>1, <1>3, <2>1 DEF Count
<1> QED
  BY <1>2, <1>3

LEMMA CountSame ==
  ASSUME NEW s, NEW t, NEW n \in Nat, NEW x, \A i \in 1..n : s[i] = t[i]
  PROVE  Count(s, n, x) = Count(t, n, x)
<1>1. {i \in 1..n : s[i] = x} = {i \in 1..n : t[i] = x}
  OBVIOUS
<1> QED
  BY <1>1 DEF Count

LEMMA CountNone == ASSUME NEW s, NEW x PROVE Count(s, 0, x) = 0
<1>1. {i \in 1..0 : s[i] = x} = {}
  OBVIOUS
<1> QED
  BY <1>1, FS_EmptySet DEF Count

(* A message more at the end.                                              *)
LEMMA CountAppend ==
  ASSUME NEW S, NEW s \in Seq(S), NEW a \in S, NEW x
  PROVE  /\ Count(s, Len(s), x) \in Nat
         /\ Count(Append(s, a), Len(Append(s, a)), x)
              = Count(s, Len(s), x) + (IF a = x THEN 1 ELSE 0)
<1> DEFINE t == Append(s, a)
<1>1. /\ Len(s) \in Nat /\ Len(t) = Len(s) + 1
      /\ \A i \in 1..Len(s) : s[i] = t[i]
      /\ t[Len(s) + 1] = a
  BY AppendProperties, LenProperties
<1> HIDE DEF t
<1>2. Count(s, Len(s), x) = Count(t, Len(s), x)
  BY <1>1, CountSame
<1>3. /\ Count(t, Len(s), x) \in Nat
      /\ Count(t, Len(s) + 1, x)
           = Count(t, Len(s), x) + (IF t[Len(s) + 1] = x THEN 1 ELSE 0)
  BY <1>1, CountNext
<1>4. Count(t, Len(t), x) = Count(t, Len(s) + 1, x)
  BY <1>1
<1>5. Count(t, Len(t), x) = Count(s, Len(s), x) + (IF a = x THEN 1 ELSE 0)
  BY <1>1, <1>2, <1>3, <1>4
<1> QED
  BY <1>2, <1>3, <1>5 DEF t

(***************************************************************************)
(* The inductive invariant.                                                *)
(***************************************************************************)
Sent == {"init", "ping", "pong"}

(* A message sealed is at the end of sealed, and stays behind the others.  *)
LEMMA Sealing ==
  ASSUME sealed \in Seq(Sent), written \in 0..Len(sealed),
         NEW m \in Sent, SendMessage(m)
  PROVE  /\ sealed' \in Seq(Sent) /\ written' \in 0..Len(sealed')
         /\ sealed' # << >>
         /\ sealed = << >> => sealed'[1] = m /\ Len(sealed') = 1
         /\ sealed # << >> => /\ sealed'[1] = sealed[1]
                              /\ \A i \in 2..Len(sealed') :
                                   \/ i \in 2..Len(sealed) /\ sealed'[i] = sealed[i]
                                   \/ sealed'[i] = m
<1>1. Len(sealed) \in Nat /\ sealed' = Append(sealed, m)
  BY LenProperties DEF SendMessage
<1>2. /\ sealed' \in Seq(Sent) /\ Len(sealed') = Len(sealed) + 1
      /\ \A i \in 1..Len(sealed) : sealed'[i] = sealed[i]
      /\ sealed'[Len(sealed) + 1] = m
  BY <1>1, AppendProperties
<1>3. written' \in 0..Len(sealed')
  BY <1>1, <1>2 DEF SendMessage
<1>4. sealed' # << >>
  BY <1>1, <1>2, EmptySeq
<1>5. ASSUME sealed = << >> PROVE sealed'[1] = m /\ Len(sealed') = 1
  <2>1. Len(sealed) = 0
    BY <1>5, EmptySeq
  <2> QED
    BY <1>2, <2>1
<1>6. ASSUME sealed # << >> PROVE Len(sealed) >= 1
  BY <1>1, <1>6, EmptySeq
<1> QED
  BY <1>1, <1>2, <1>3, <1>4, <1>5, <1>6

(* The initial state is in the invariant.                                  *)
LEMMA SessionStarts == Init => SessionInv
<1> SUFFICES ASSUME Init PROVE SessionInv
  OBVIOUS
<1>1. Len(<< >>) = 0 /\ \A S : << >> \in Seq(S)
  BY EmptySeq
<1>2. TypeOK
  BY <1>1, BlankType DEF Init, TypeOK
<1>3. InitFirst
  BY <1>1 DEF Init, InitFirst, Blank
<1> QED
  BY <1>1, <1>2, <1>3 DEF Init, SessionInv

(* The acts of connect, of the socket, and of the peer before act three.   *)
LEMMA ConnectKeeps == SessionInv /\ Connect => SessionInv'
BY DEF SessionInv, Connect, TypeOK, InitFirst, WaitingForAct2, Established

LEMMA OnCloseKeeps == SessionInv /\ OnClose => SessionInv'
BY DEF SessionInv, OnClose, TypeOK, InitFirst, WaitingForAct2, Established

LEMMA OnConnectedKeeps == SessionInv /\ OnConnected => SessionInv'
<1> SUFFICES ASSUME SessionInv, OnConnected PROVE SessionInv'
  OBVIOUS
<1>1. completedAct = 0 /\ noise = Blank /\ replies = << >>
  BY DEF SessionInv, OnConnected
<1>2. noise' = Fresh /\ completedAct' = 1
  BY <1>1 DEF OnConnected, Fresh
<1>3. taken = 0 /\ taken' = 0
  BY <1>1, EmptySeq DEF SessionInv, TypeOK, OnConnected
<1>4. TypeOK'
  BY <1>2, FreshFacts DEF SessionInv, TypeOK, OnConnected
<1>5. WaitingForAct2'
  BY <1>2, <1>3, FreshFacts DEF WaitingForAct2
<1>6. InitFirst'
  BY <1>1, <1>2, FreshFacts DEF SessionInv, InitFirst, OnConnected
<1> QED
  BY <1>1, <1>2, <1>4, <1>5, <1>6 DEF SessionInv, OnConnected

LEMMA PingKeeps == SessionInv /\ Ping => SessionInv'
<1> SUFFICES ASSUME SessionInv, Ping PROVE SessionInv'
  OBVIOUS
<1>1. CASE ~HasKeys(noise)
  BY <1>1 DEF SessionInv, Ping, TypeOK, InitFirst, WaitingForAct2, Established
<1>2. CASE HasKeys(noise)
  <2>1. SendMessage("ping") /\ sealed # << >> /\ completedAct = 3
    BY <1>2 DEF Ping, SessionInv, InitFirst, HasKeys
  <2>2. sealed \in Seq(Sent) /\ written \in 0..Len(sealed)
    BY DEF SessionInv, TypeOK, Sent
  <2>3. "ping" \in Sent
    BY DEF Sent
  <2>4. /\ sealed' \in Seq(Sent) /\ written' \in 0..Len(sealed')
        /\ sealed' # << >> /\ sealed'[1] = sealed[1]
        /\ \A i \in 2..Len(sealed') :
             \/ i \in 2..Len(sealed) /\ sealed'[i] = sealed[i]
             \/ sealed'[i] = "ping"
    BY <2>1, <2>2, <2>3, Sealing
  <2>5. TypeOK'
    BY <2>4 DEF SessionInv, TypeOK, Ping, Sent
  <2>6. InitFirst'
    BY <2>1, <2>4 DEF SessionInv, InitFirst, Ping
  <2> QED
    BY <2>1, <2>5, <2>6 DEF SessionInv, Ping, Established
<1> QED
  BY <1>1, <1>2

LEMMA OnMessageKeeps == SessionInv /\ OnMessage => SessionInv'
<1> SUFFICES ASSUME SessionInv, OnMessage PROVE SessionInv'
  OBVIOUS
<1>1. routed' \in 0..Len(inbound)' /\ inbound' = inbound
  BY LenProperties DEF SessionInv, TypeOK, OnMessage
<1>2. CASE inbound[routed + 1] # "ping"
  <2>1. UNCHANGED <<sealed, written>> /\ unhandled' \in Nat
    BY <1>2 DEF OnMessage, SessionInv, TypeOK
  <2> QED
    BY <1>1, <2>1 DEF SessionInv, OnMessage, TypeOK, InitFirst, WaitingForAct2, Established
<1>3. CASE inbound[routed + 1] = "ping"
  <2>1. SendMessage("pong") /\ sealed # << >> /\ completedAct = 3
    BY <1>3 DEF OnMessage, SessionInv, InitFirst
  <2>2. sealed \in Seq(Sent) /\ written \in 0..Len(sealed)
    BY DEF SessionInv, TypeOK, Sent
  <2>3. "pong" \in Sent
    BY DEF Sent
  <2>4. /\ sealed' \in Seq(Sent) /\ written' \in 0..Len(sealed')
        /\ sealed' # << >> /\ sealed'[1] = sealed[1]
        /\ \A i \in 2..Len(sealed') :
             \/ i \in 2..Len(sealed) /\ sealed'[i] = sealed[i]
             \/ sealed'[i] = "pong"
    BY <2>1, <2>2, <2>3, Sealing
  <2>5. TypeOK'
    BY <1>1, <1>3, <2>4 DEF SessionInv, TypeOK, OnMessage, Sent
  <2>6. InitFirst'
    BY <2>1, <2>4 DEF SessionInv, InitFirst, OnMessage
  <2> QED
    BY <2>1, <2>5, <2>6 DEF SessionInv, OnMessage, Established
<1> QED
  BY <1>2, <1>3

(* What the peer writes goes behind what the client has not read.          *)
LEMMA PeerRepliesKeeps == SessionInv /\ PeerReplies => SessionInv'
<1> SUFFICES ASSUME SessionInv, PeerReplies PROVE SessionInv'
  OBVIOUS
<1>1. PICK m \in WrongAct2 \cup {GenuineAct2} : replies' = Append(replies, m)
  BY DEF PeerReplies
<1>2. replies \in Seq(Act2) /\ m \in Act2 /\ Len(replies) \in Nat
  BY RepliesTyped, LenProperties DEF SessionInv, TypeOK
<1>3. /\ replies' \in Seq(Act2) /\ Len(replies') = Len(replies) + 1
      /\ \A i \in 1..Len(replies) : replies'[i] = replies[i]
      /\ replies'[Len(replies) + 1] = m
  BY <1>1, <1>2, AppendProperties
<1>4. /\ halves \in 0..2 * Len(replies) /\ taken \in 0..Len(replies)
      /\ halves' = halves /\ taken' = taken
  BY DEF SessionInv, TypeOK, PeerReplies
<1>5. halves' \in 0..2 * Len(replies') /\ taken' \in 0..Len(replies')
  BY <1>2, <1>3, <1>4
<1>6. TypeOK'
  BY <1>3, <1>5 DEF SessionInv, TypeOK, PeerReplies
<1>7. \A i \in 1..Len(replies') : replies'[i] \in WrongAct2 \cup {GenuineAct2}
  BY <1>2, <1>3 DEF SessionInv
<1>8. \A i \in 1..taken : replies'[i] = replies[i] /\ i \in 1..Len(replies)
  BY <1>2, <1>3, <1>4
<1>9. InitFirst'
  BY DEF SessionInv, InitFirst, PeerReplies
<1>10. WaitingForAct2 => WaitingForAct2'
  BY <1>4, <1>8 DEF WaitingForAct2, PeerReplies
<1>11. Established => Established'
  BY <1>4, <1>8 DEF Established, PeerReplies
<1>12. socket = "open" /\ socket' = "open" /\ completedAct' = completedAct
       /\ responder' = responder /\ act3' = act3
  BY DEF PeerReplies
<1> QED
  BY <1>6, <1>7, <1>9, <1>10, <1>11, <1>12 DEF SessionInv

(* The responder has no reason to refuse act three: the client writes one  *)
(* only when it has taken the responder's own act two.                     *)
LEMMA ResponderAct3Keeps == SessionInv /\ ResponderAct3 => SessionInv'
<1> SUFFICES ASSUME SessionInv, ResponderAct3 PROVE SessionInv'
  OBVIOUS
<1>1. completedAct = 3
  BY DEF SessionInv, ResponderAct3
<1>2. act3[1] = Act3Message(Fresh, GenuineAct2)
  BY <1>1 DEF SessionInv, Established
<1>3. responder' = "done"
  BY <1>2, GenuineAgrees DEF ResponderAct3
<1>4. TypeOK'
  BY <1>3 DEF SessionInv, TypeOK, ResponderAct3
<1>5. InitFirst' /\ Established'
  BY <1>1 DEF SessionInv, InitFirst, Established, ResponderAct3
<1> QED
  BY <1>1, <1>3, <1>4, <1>5 DEF SessionInv, ResponderAct3

LEMMA PeerPingsKeeps == SessionInv /\ PeerPings => SessionInv'
<1> SUFFICES ASSUME SessionInv, PeerPings PROVE SessionInv'
  OBVIOUS
<1>1. PICK m \in {"ping", "hugePing"} : inbound' = Append(inbound, m)
  BY DEF PeerPings
<1>2. /\ inbound' \in Seq({"ping", "hugePing"})
      /\ routed' \in 0..Len(inbound')
  <2>1. inbound \in Seq({"ping", "hugePing"}) /\ routed \in 0..Len(inbound)
    BY DEF SessionInv, TypeOK
  <2>2. Len(inbound) \in Nat /\ Len(inbound') = Len(inbound) + 1
        /\ inbound' \in Seq({"ping", "hugePing"})
    BY <1>1, <2>1, LenProperties, AppendProperties
  <2>3. routed' = routed
    BY DEF PeerPings
  <2> QED
    BY <2>1, <2>2, <2>3
<1>3. TypeOK'
  BY <1>2 DEF SessionInv, TypeOK, PeerPings
<1> QED
  BY <1>3 DEF SessionInv, PeerPings, InitFirst, WaitingForAct2, Established

(* Bytes of act two: they wait, complete the handshake, or are refused and *)
(* leave a hash no later act two fits.                                     *)
LEMMA OnHandshakeDataKeeps == SessionInv /\ OnHandshakeData => SessionInv'
<1> SUFFICES ASSUME SessionInv, OnHandshakeData PROVE SessionInv'
  OBVIOUS
<1> DEFINE m == replies[taken + 1]
<1>1. PICK n \in halves + 1..2 * Len(replies) :
        /\ halves' = n
        /\ \/ /\ n < 2 * taken + 2
              /\ UNCHANGED <<completedAct, noise, taken, act3, sealed, written>>
           \/ /\ n >= 2 * taken + 2 /\ taken' = taken + 1
              /\ Act2Accepted(noise, m)
              /\ noise' = AfterAct3(noise, m)
              /\ act3' = Append(act3, Act3Message(noise, m))
              /\ completedAct' = 3
              /\ SendMessage("init")
           \/ /\ n >= 2 * taken + 2 /\ taken' = taken + 1
              /\ ~Act2Accepted(noise, m)
              /\ noise' = AfterRejectedAct2(noise, m)
              /\ UNCHANGED <<act3, completedAct, sealed, written>>
  <2>1. halves \in Nat /\ taken \in Nat /\ Len(replies) \in Nat
    BY LenProperties DEF SessionInv, TypeOK
  <2> QED
    BY <2>1 DEF OnHandshakeData
<1>2. /\ halves \in Nat /\ taken \in 0..Len(replies) /\ Len(replies) \in Nat
      /\ replies \in Seq(Act2) /\ noise \in Handshake
      /\ replies' = replies
  BY LenProperties DEF SessionInv, TypeOK, OnHandshakeData
<1>3. halves' \in 0..2 * Len(replies)'
  BY <1>1, <1>2
<1>4. /\ completedAct = 1 /\ socket = "open" /\ socket' = "open"
      /\ responder # "failed" /\ responder' = responder
      /\ noise.sk = NoKey /\ noise.rk = NoKey /\ act3 = << >> /\ sealed = << >>
  BY DEF SessionInv, OnHandshakeData, WaitingForAct2, InitFirst
<1>5. CASE UNCHANGED <<completedAct, noise, taken, act3, sealed, written>>
  <2>1. TypeOK'
    BY <1>3, <1>5 DEF SessionInv, TypeOK, OnHandshakeData
  <2>2. InitFirst' /\ WaitingForAct2'
    BY <1>2, <1>4, <1>5 DEF SessionInv, InitFirst, WaitingForAct2
  <2> QED
    BY <1>2, <1>4, <1>5, <2>1, <2>2 DEF SessionInv
<1>6. CASE /\ n >= 2 * taken + 2 /\ taken' = taken + 1
           /\ Act2Accepted(noise, m)
           /\ noise' = AfterAct3(noise, m)
           /\ act3' = Append(act3, Act3Message(noise, m))
           /\ completedAct' = 3
           /\ SendMessage("init")
  <2>1. taken' \in 1..Len(replies) /\ taken + 1 \in 1..Len(replies)
    BY <1>1, <1>2, <1>6
  <2>2. m = GenuineAct2
    BY <1>2, <1>6, <2>1, WrongIsRefused DEF SessionInv
  <2>3. noise = Fresh /\ \A i \in 1..taken : ~VersionOk(replies[i])
    <3>1. Len(noise.h) = Len(Fresh.h) /\ Len(Fresh.h) = 4
      BY <1>2, <1>6, <2>2, GenuineNeedsFresh, FreshFacts
    <3> QED
      BY <1>4, <3>1 DEF SessionInv, WaitingForAct2
  <2>4. /\ noise'.sk = ResponderKey("first") /\ noise'.rk = ResponderKey("second")
        /\ noise'.sk # NoKey
    BY <1>6, <2>2, <2>3, GenuineAgrees
  <2>5. GenuineAct2.re \in Pub
    BY PubFacts DEF GenuineAct2
  <2>6. noise' \in Handshake /\ Act3Message(noise, m) \in Act3
    BY <1>2, <1>6, <2>2, <2>5, HandshakeType
  <2>7. act3' = <<Act3Message(Fresh, GenuineAct2)>> /\ act3' \in Seq(Act3)
    <3>1. act3' = Append(<< >>, Act3Message(noise, m))
      BY <1>4, <1>6
    <3>2. \A x : Append(<< >>, x) = <<x>>
      OBVIOUS
    <3> QED
      BY <2>2, <2>3, <2>6, <3>1, <3>2
  <2>8. /\ sealed' \in Seq(Sent) /\ written' \in 0..Len(sealed')
        /\ sealed' # << >> /\ sealed'[1] = "init" /\ Len(sealed') = 1
    <3>1. sealed \in Seq(Sent) /\ written \in 0..Len(sealed) /\ "init" \in Sent
      BY DEF SessionInv, TypeOK, Sent
    <3> QED
      BY <1>4, <1>6, <3>1, Sealing
  <2>9. TypeOK'
    BY <1>2, <1>3, <1>4, <1>6, <2>1, <2>6, <2>7, <2>8
       DEF SessionInv, TypeOK, OnHandshakeData, Sent
  <2>10. InitFirst'
    BY <1>6, <2>4, <2>8 DEF InitFirst
  <2>11. Established'
    <3>1. \A i \in 1..taken' : i \in 1..taken \/ i = taken + 1
      BY <1>2, <1>6
    <3>2. \A i \in 1..taken' : VersionOk(replies[i]) => replies[i] = GenuineAct2
      BY <2>2, <2>3, <3>1
    <3>3. taken' > 0 /\ replies[taken'] = GenuineAct2
      BY <1>2, <1>6, <2>2
    <3> QED
      BY <1>2, <2>4, <2>7, <3>2, <3>3 DEF Established
  <2> QED
    BY <1>2, <1>4, <1>6, <2>9, <2>10, <2>11 DEF SessionInv
<1>7. CASE /\ n >= 2 * taken + 2 /\ taken' = taken + 1
           /\ ~Act2Accepted(noise, m)
           /\ noise' = AfterRejectedAct2(noise, m)
           /\ UNCHANGED <<act3, completedAct, sealed, written>>
  <2>1. taken' \in 1..Len(replies) /\ taken + 1 \in 1..Len(replies)
    BY <1>1, <1>2, <1>7
  <2>2. m \in WrongAct2 \cup {GenuineAct2} /\ m.re \in Pub
    BY <2>1, PubFacts DEF SessionInv, WrongAct2, GenuineAct2
  <2>3. /\ noise' \in Handshake
        /\ noise'.sk = NoKey /\ noise'.rk = NoKey
        /\ IF VersionOk(m) THEN Len(noise'.h) = Len(noise.h) + 1 ELSE noise' = noise
    <3>1. /\ AfterRejectedAct2(noise, m) \in Handshake
          /\ Len(HashedPoint(noise, m).h) = Len(noise.h) + 1
          /\ Len(MixedSecret(noise, m).h) = Len(noise.h) + 1
          /\ MixedSecret(noise, m).sk = noise.sk /\ MixedSecret(noise, m).rk = noise.rk
          /\ HashedPoint(noise, m).sk = noise.sk /\ HashedPoint(noise, m).rk = noise.rk
      BY <1>2, <2>2, HandshakeType
    <3> QED
      BY <1>4, <1>7, <3>1 DEF AfterRejectedAct2
  <2>4. TypeOK'
    BY <1>2, <1>3, <1>7, <2>1, <2>3 DEF SessionInv, TypeOK, OnHandshakeData
  <2>5. InitFirst'
    BY <1>4, <1>7, <2>3 DEF SessionInv, InitFirst
  <2>6. WaitingForAct2'
    <3>1. Len(noise.h) \in Nat /\ Len(Fresh.h) \in Nat
      BY <1>2, FreshFacts, LenProperties DEF Handshake, Hash
    <3>2. CASE Len(noise.h) > Len(Fresh.h)
      BY <2>3, <3>1, <3>2 DEF WaitingForAct2
    <3>3. CASE noise = Fresh /\ \A i \in 1..taken : ~VersionOk(replies[i])
      <4>1. CASE VersionOk(m)
        BY <2>3, <3>1, <3>3, <4>1 DEF WaitingForAct2
      <4>2. CASE ~VersionOk(m)
        <5>1. \A i \in 1..taken' : i \in 1..taken \/ i = taken + 1
          BY <1>2, <1>7
        <5>2. \A i \in 1..taken' : ~VersionOk(replies'[i])
          BY <1>2, <3>3, <4>2, <5>1
        <5> QED
          BY <2>3, <3>3, <4>2, <5>2 DEF WaitingForAct2
      <4> QED
        BY <4>1, <4>2
    <3> QED
      BY <1>4, <3>2, <3>3 DEF SessionInv, WaitingForAct2
  <2> QED
    BY <1>2, <1>4, <1>7, <2>4, <2>5, <2>6 DEF SessionInv
<1> QED
  BY <1>1, <1>5, <1>6, <1>7

LEMMA SessionStep == SessionInv /\ [Next]_vars => SessionInv'
<1> SUFFICES ASSUME SessionInv, [Next]_vars PROVE SessionInv'
  OBVIOUS
<1>1. CASE UNCHANGED vars
  BY <1>1 DEF vars, SessionInv, TypeOK, InitFirst, WaitingForAct2, Established
<1> QED
  BY <1>1, ConnectKeeps, OnConnectedKeeps, OnCloseKeeps, PingKeeps,
     OnHandshakeDataKeeps, OnMessageKeeps, PeerRepliesKeeps, ResponderAct3Keeps,
     PeerPingsKeeps DEF Next

(* The invariant the others rest on: what the client has hashed, taken and *)
(* written at every point of the handshake, against whatever answers.      *)
THEOREM SessionInvariant == Spec => []SessionInv
BY SessionStarts, SessionStep, PTL DEF Spec

(***************************************************************************)
(* The properties the runs check.                                          *)
(***************************************************************************)

(* An established client has the responder's keys, crosswise, and its act  *)
(* three is never refused (noise-state.js initiatorAct2Act3).              *)
THEOREM KeysAgree == Spec => []KeyAgreement
<1>1. SessionInv => KeyAgreement
  BY DEF SessionInv, KeyAgreement, Established
<1> QED
  BY <1>1, SessionInvariant, PTL

(* The init message comes first, ping timer or not (peer-client.js 19, 87).*)
THEOREM InitIsFirst == Spec => []InitFirst
<1>1. SessionInv => InitFirst
  BY DEF SessionInv
<1> QED
  BY <1>1, SessionInvariant, PTL

(* A refused act two of the right version has spoiled the transcript: the  *)
(* handshake is never completed after it (noise-state.js 64-75).         *)
THEOREM ForgeryIsFinal == Spec => []NoHandshakeAfterForgery
<1>1. ASSUME SessionInv PROVE NoHandshakeAfterForgery
  <2>1. SUFFICES ASSUME NEW i \in 1..taken, VersionOk(replies[i]),
                        replies[i] # GenuineAct2
                 PROVE  completedAct = 1 /\ act3 = << >>
    BY DEF NoHandshakeAfterForgery
  <2>2. completedAct # 0
    <3>1. Len(<< >>) = 0
      BY EmptySeq
    <3> QED
      BY <1>1, <3>1 DEF SessionInv, TypeOK
  <2>3. completedAct # 3
    BY <1>1, <2>1 DEF SessionInv, Established
  <2> QED
    BY <1>1, <2>2, <2>3 DEF SessionInv, TypeOK
<1> QED
  BY <1>1, SessionInvariant, PTL

(* A message sealed that is no pong does not change the count of pongs.    *)
LEMMA SealedCount ==
  ASSUME sealed \in Seq(Sent), NEW m \in Sent, SendMessage(m)
  PROVE  /\ Count(sealed, Len(sealed), "pong") \in Nat
         /\ Count(sealed', Len(sealed'), "pong")
              = Count(sealed, Len(sealed), "pong") + (IF m = "pong" THEN 1 ELSE 0)
<1>1. sealed' = Append(sealed, m)
  BY DEF SendMessage
<1>2. /\ Count(sealed, Len(sealed), "pong") \in Nat
      /\ Count(Append(sealed, m), Len(Append(sealed, m)), "pong")
           = Count(sealed, Len(sealed), "pong") + (IF m = "pong" THEN 1 ELSE 0)
  BY CountAppend
<1> QED
  BY <1>1, <1>2

LEMMA PongStep ==
  SessionInv /\ PongPerPing /\ [Next]_vars => PongPerPing'
<1> SUFFICES ASSUME SessionInv, PongPerPing, [Next]_vars PROVE PongPerPing'
  OBVIOUS
<1> DEFINE pongs == Count(sealed, Len(sealed), "pong")
           rest(x) == Count(inbound, routed, x)
<1>1. /\ sealed \in Seq(Sent) /\ Len(sealed) \in Nat
      /\ inbound \in Seq({"ping", "hugePing"}) /\ Len(inbound) \in Nat
      /\ routed \in 0..Len(inbound) /\ routed \in Nat
  BY LenProperties DEF SessionInv, TypeOK, Sent
<1>2. /\ pongs = rest("ping") /\ unhandled = rest("hugePing")
      /\ pongs \in Nat /\ rest("ping") \in Nat /\ rest("hugePing") \in Nat
  BY <1>1, CountNext DEF PongPerPing
<1>3. ASSUME UNCHANGED <<sealed, inbound, routed, unhandled>> PROVE PongPerPing'
  BY <1>3 DEF PongPerPing
<1>4. ASSUME NEW m \in {"init", "ping"}, SendMessage(m),
             UNCHANGED <<inbound, routed, unhandled>>
      PROVE  PongPerPing'
  <2>1. Count(sealed', Len(sealed'), "pong") = pongs
    BY <1>1, <1>2, <1>4, SealedCount DEF Sent
  <2> QED
    BY <1>2, <1>4, <2>1 DEF PongPerPing
<1>5. CASE Ping
  <2>1. CASE HasKeys(noise)
    BY <1>4, <1>5, <2>1 DEF Ping
  <2>2. CASE ~HasKeys(noise)
    BY <1>3, <1>5, <2>2 DEF Ping
  <2> QED
    BY <2>1, <2>2
<1>6. CASE OnHandshakeData
  <2>1. UNCHANGED <<inbound, routed, unhandled>>
    BY <1>6 DEF OnHandshakeData
  <2>2. UNCHANGED sealed \/ SendMessage("init")
    BY <1>6 DEF OnHandshakeData
  <2> QED
    BY <1>3, <1>4, <2>1, <2>2
<1>7. CASE OnMessage
  <2>1. /\ routed' = routed + 1 /\ inbound' = inbound
        /\ inbound[routed + 1] \in {"ping", "hugePing"}
    BY <1>1, <1>7, ElementOfSeq DEF OnMessage
  <2>2. \A x : Count(inbound', routed', x)
                 = rest(x) + (IF inbound[routed + 1] = x THEN 1 ELSE 0)
    BY <1>1, <2>1, CountNext
  <2>3. CASE inbound[routed + 1] = "ping"
    <3>1. SendMessage("pong") /\ unhandled' = unhandled /\ "pong" \in Sent
      BY <1>7, <2>3 DEF OnMessage, Sent
    <3>2. Count(sealed', Len(sealed'), "pong") = pongs + 1
      BY <1>1, <3>1, SealedCount
    <3>3. /\ Count(inbound', routed', "ping") = rest("ping") + 1
          /\ Count(inbound', routed', "hugePing") = rest("hugePing")
      BY <1>2, <2>2, <2>3
    <3> QED
      BY <1>2, <3>1, <3>2, <3>3 DEF PongPerPing
  <2>4. CASE inbound[routed + 1] # "ping"
    <3>1. unhandled' = unhandled + 1 /\ sealed' = sealed
      BY <1>7, <2>4 DEF OnMessage
    <3>2. /\ Count(inbound', routed', "ping") = rest("ping")
          /\ Count(inbound', routed', "hugePing") = rest("hugePing") + 1
      BY <1>2, <2>1, <2>2, <2>4
    <3> QED
      BY <1>2, <3>1, <3>2 DEF PongPerPing
  <2> QED
    BY <2>3, <2>4
<1>8. CASE PeerPings
  <2>1. PICK m \in {"ping", "hugePing"} : inbound' = Append(inbound, m)
    BY <1>8 DEF PeerPings
  <2>2. \A i \in 1..routed : inbound[i] = inbound'[i]
    <3>1. \A i \in 1..Len(inbound) : Append(inbound, m)[i] = inbound[i]
      BY <1>1, AppendProperties
    <3> QED
      BY <1>1, <2>1, <3>1
  <2>3. \A x : rest(x) = Count(inbound', routed, x)
    BY <1>1, <2>2, CountSame
  <2> QED
    BY <1>2, <1>8, <2>3 DEF PeerPings, PongPerPing
<1>9. CASE Connect \/ OnConnected \/ OnClose \/ PeerReplies \/ ResponderAct3
           \/ UNCHANGED vars
  BY <1>3, <1>9 DEF Connect, OnConnected, OnClose, PeerReplies, ResponderAct3, vars
<1> QED
  BY <1>5, <1>6, <1>7, <1>8, <1>9 DEF Next

(* Every ping that was routed has one pong or one unhandled rejection, and *)
(* no pong goes out for anything else (message-handler.js).                *)
THEOREM PongsAnswerPings == Spec => []PongPerPing
<1>1. Init => PongPerPing
  <2>1. SUFFICES ASSUME Init PROVE PongPerPing
    OBVIOUS
  <2>2. Len(<< >>) = 0
    BY EmptySeq
  <2> QED
    BY <2>1, <2>2, CountNone DEF Init, PongPerPing
<1> QED
  BY <1>1, PongStep, SessionInvariant, PTL DEF Spec
=============================================================================
