--------------------------- MODULE NoiseTransport ---------------------------
(***************************************************************************)
(* Two NoiseState objects after Act Three, joined by one ordered, lossless *)
(* byte stream per direction (a TCP socket).  The callers are those of     *)
(* noise-state.spec.js and peer-client.js: encryptMessage hands over a     *)
(* message, its two ciphertexts reach the other end, whose caller passes   *)
(* the first to decryptLength and the second to decryptMessage.            *)
(*                                                                         *)
(* A rotation awaits hkdf, so each of the three async methods is split     *)
(* there: the call suspends with the derivation it asked for and resumes   *)
(* when hkdf calls back.  HkdfYields says whether another event of the     *)
(* same process may run in between (TRUE), or the callback always comes    *)
(* before the next event (FALSE).  Overlap bounds how many calls of one    *)
(* kind an end may leave pending: 1 when its callers await each call.      *)
(***************************************************************************)
EXTENDS NoiseState, FiniteSets

CONSTANTS HkdfYields, Overlap, MaxSend

ASSUME YieldsAssumption == HkdfYields \in BOOLEAN
ASSUME OverlapAssumption == Overlap \in Nat \ {0}
ASSUME MaxSendAssumption == MaxSend \in [Node -> Nat]

VARIABLES
  ns,         \* ns[e]: the NoiseState of end e
  sending,    \* sending[e]: encryptMessage calls waiting for hkdf
  receiving,  \* receiving[e]: decrypt calls waiting for hkdf
  wire,       \* wire[e]: the ciphertexts e has written, oldest first
  read,       \* read[e]: how many of wire[Peer(e)] e has taken off its socket
  asked,      \* asked[e]: how many messages were handed to encryptMessage
  delivered   \* delivered[e]: the messages decryptMessage returned at e

vars == <<ns, sending, receiving, wire, read, asked, delivered>>

PendingSend == [cts : Seq(Ciphertext), msg : Nat, derived : Derived]
PendingReceive == [msgs : Seq(Nat), derived : Derived]

TypeOK ==
  /\ ns \in [Node -> CipherState]
  /\ sending \in [Node -> SUBSET PendingSend]
  /\ receiving \in [Node -> SUBSET PendingReceive]
  /\ wire \in [Node -> Seq(Ciphertext)]
  /\ read \in [Node -> Nat]
  /\ asked \in [Node -> Nat]
  /\ delivered \in [Node -> Seq(Nat)]

Init ==
  /\ ns = [e \in Node |-> InitCipher(e)]
  /\ sending = [e \in Node |-> {}]
  /\ receiving = [e \in Node |-> {}]
  /\ wire = [e \in Node |-> << >>]
  /\ read = [e \in Node |-> 0]
  /\ asked = [e \in Node |-> 0]
  /\ delivered = [e \in Node |-> << >>]

(* An event of e starts only when the calls before it have run on as far   *)
(* as they can.                                                            *)
Turn(e) == HkdfYields \/ (sending[e] = {} /\ receiving[e] = {})

(***************************************************************************)
(* Sending.  The length and the body are sealed one after the other, each  *)
(* followed by the nonce check; the ciphertexts leave together.            *)
(***************************************************************************)
SuspendSend(e, st, rest, cts, m) ==
  /\ ns' = [ns EXCEPT ![e] = st]
  /\ sending' = [sending EXCEPT ![e] =
       rest \cup {[cts |-> cts, msg |-> m, derived |-> Hkdf(st.ck, st.sk)]}]
  /\ UNCHANGED wire

Transmit(e, st, rest, cts) ==
  /\ ns' = [ns EXCEPT ![e] = st]
  /\ sending' = [sending EXCEPT ![e] = rest]
  /\ wire' = [wire EXCEPT ![e] = @ \o cts]

EncryptBody(e, st, rest, lc, m) ==
  LET cts == <<lc, Seal(st, m)>>
      next == IncrementSendingNonce(st)
  IN IF SendingExpired(next) THEN SuspendSend(e, next, rest, cts, m)
                             ELSE Transmit(e, next, rest, cts)

EncryptMessage(e) ==
  /\ Turn(e)
  /\ Cardinality(sending[e]) < Overlap
  /\ asked[e] < MaxSend[e]
  /\ asked' = [asked EXCEPT ![e] = @ + 1]
  /\ LET m == asked[e] + 1
         lc == Seal(ns[e], m)
         next == IncrementSendingNonce(ns[e])
     IN IF SendingExpired(next) THEN SuspendSend(e, next, sending[e], <<lc>>, m)
                                ELSE EncryptBody(e, next, sending[e], lc, m)
  /\ UNCHANGED <<receiving, read, delivered>>

ResumeEncrypt(e) ==
  /\ \E call \in sending[e] :
       LET st == RotateSendingKeys(ns[e], call.derived)
           rest == sending[e] \ {call}
       IN IF Len(call.cts) = 1
          THEN EncryptBody(e, st, rest, call.cts[1], call.msg)
          ELSE Transmit(e, st, rest, call.cts)
  /\ UNCHANGED <<receiving, read, asked, delivered>>

(***************************************************************************)
(* Receiving.  Ciphertexts alternate between lengths and bodies.  A call   *)
(* that does not authenticate throws before it touches the state; without  *)
(* a length the caller cannot take the body off the stream, so that frame  *)
(* is lost whole.  (What PeerClient makes of the bytes is PeerFraming.)    *)
(***************************************************************************)
Available(e) == read[e] < Len(wire[Peer(e)])
NextCiphertext(e) == wire[Peer(e)][read[e] + 1]
AtLength(e) == read[e] % 2 = 0

(* Both decrypt methods once their ciphertext has opened: advance the      *)
(* nonce, rotate if it is due, and return msgs to the caller.              *)
Opened(e, msgs) ==
  LET st == IncrementReceivingNonce(ns[e])
  IN /\ ns' = [ns EXCEPT ![e] = st]
     /\ read' = [read EXCEPT ![e] = @ + 1]
     /\ IF ReceivingExpired(st)
        THEN /\ receiving' = [receiving EXCEPT ![e] = @ \cup
                  {[msgs |-> msgs, derived |-> Hkdf(st.ck, st.rk)]}]
             /\ UNCHANGED delivered
        ELSE /\ delivered' = [delivered EXCEPT ![e] = @ \o msgs]
             /\ UNCHANGED receiving

Rejected(e, n) ==
  /\ read' = [read EXCEPT ![e] = @ + n]
  /\ UNCHANGED <<ns, receiving, delivered>>

MayDecrypt(e) ==
  /\ Turn(e)
  /\ Cardinality(receiving[e]) < Overlap
  /\ Available(e)

DecryptLength(e) ==
  /\ MayDecrypt(e)
  /\ AtLength(e)
  /\ IF Opens(ns[e], NextCiphertext(e)) THEN Opened(e, << >>) ELSE Rejected(e, 2)
  /\ UNCHANGED <<sending, wire, asked>>

DecryptMessage(e) ==
  /\ MayDecrypt(e)
  /\ ~AtLength(e)
  /\ \A call \in receiving[e] : call.msgs # << >>  \* decryptLength has returned
  /\ IF Opens(ns[e], NextCiphertext(e))
     THEN Opened(e, <<NextCiphertext(e).msg>>)
     ELSE Rejected(e, 1)
  /\ UNCHANGED <<sending, wire, asked>>

(* Mutants: the message that waited for the rotation is not returned, or   *)
(* is returned a second time.                                              *)
ResumeDecryptForgets(e) ==
  /\ \E call \in receiving[e] :
       /\ ns' = [ns EXCEPT ![e] = RotateReceivingKeys(@, call.derived)]
       /\ receiving' = [receiving EXCEPT ![e] = @ \ {call}]
  /\ UNCHANGED <<sending, wire, read, asked, delivered>>

ResumeDecryptTwice(e) ==
  /\ \E call \in receiving[e] :
       /\ ns' = [ns EXCEPT ![e] = RotateReceivingKeys(@, call.derived)]
       /\ receiving' = [receiving EXCEPT ![e] = @ \ {call}]
       /\ delivered' = [delivered EXCEPT ![e] = @ \o call.msgs \o call.msgs]
  /\ UNCHANGED <<sending, wire, read, asked>>

ResumeDecrypt(e) ==
  /\ \E call \in receiving[e] :
       /\ ns' = [ns EXCEPT ![e] = RotateReceivingKeys(@, call.derived)]
       /\ receiving' = [receiving EXCEPT ![e] = @ \ {call}]
       /\ delivered' = [delivered EXCEPT ![e] = @ \o call.msgs]
  /\ UNCHANGED <<sending, wire, read, asked>>

Step(e) ==
  \/ EncryptMessage(e)
  \/ ResumeEncrypt(e)
  \/ DecryptLength(e)
  \/ DecryptMessage(e)
  \/ ResumeDecrypt(e)

Next == \E e \in Node : Step(e)

Spec == Init /\ [][Next]_vars

(* The event loop delivers what the socket holds, and hkdf calls back.     *)
(* Nobody is obliged to send.                                              *)
Fairness ==
  \A e \in Node :
    /\ WF_vars(ResumeEncrypt(e))
    /\ WF_vars(DecryptLength(e) \/ DecryptMessage(e))
    /\ WF_vars(ResumeDecrypt(e))

FairSpec == Spec /\ Fairness

(***************************************************************************)
(* Properties.                                                             *)
(***************************************************************************)
Clash(c, d) == c.key = d.key /\ c.nonce = d.nonce

(* No two ciphertexts an end has sealed, written or still held by a        *)
(* suspended encryptMessage, share a key and a nonce: the nonce is reset   *)
(* only together with the key (noise-state.js 164-170).                    *)
NonceUnique ==
  \A e \in Node :
    /\ \A i, j \in 1..Len(wire[e]) : Clash(wire[e][i], wire[e][j]) => i = j
    /\ \A call \in sending[e] : \A k \in 1..Len(call.cts) :
         /\ \A i \in 1..Len(wire[e]) : ~Clash(call.cts[k], wire[e][i])
         /\ \A other \in sending[e] : \A j \in 1..Len(other.cts) :
              Clash(call.cts[k], other.cts[j]) => call = other /\ k = j

(* decryptMessage returns the other end's messages in the order they were  *)
(* handed to encryptMessage, none twice and none skipped, whatever the two *)
(* directions' rotations do to the chaining keys: once a ciphertext fails, *)
(* no later one opens.                                                     *)
DeliveredInOrder ==
  \A e \in Node :
    /\ \A i \in 1..Len(delivered[e]) : delivered[e][i] = i
    /\ Len(delivered[e]) <= asked[Peer(e)]

(* Every frame taken off the socket has come out of decryptMessage.        *)
NothingLost(e) == receiving[e] = {} => Len(delivered[e]) = read[e] \div 2

(* No rotation of e overwrote another: each key e installed has its name   *)
(* in the chaining key.                                                    *)
NoneOverwritten(e) == Len(ns[e].ck) = ns[e].sk.gen + ns[e].rk.gen

SameOrder ==
  LET a == ns[Client].ck
      b == ns[Server].ck
      n == IF Len(a) < Len(b) THEN Len(a) ELSE Len(b)
  IN SubSeq(a, 1, n) = SubSeq(b, 1, n)

Uncrossed == SameOrder /\ \A e \in Node : NoneOverwritten(e)

(* A frame is lost only when the two ends have mixed their rotations into  *)
(* the one chaining key in different orders, or when a rotation has ended  *)
(* while the hkdf of the other direction was under way and was overwritten *)
(* by it (noise-state.js 164-177).                                         *)
LossMeansCrossed ==
  Uncrossed => \A e \in Node : NothingLost(e)

(* noise-state.spec.js 142-150, 'should rotate keys correctly': the        *)
(* receiving end decrypts every message, across rotations.                 *)
DecryptsEveryMessage == \A e \in Node : NothingLost(e)

(* Every message handed to encryptMessage comes out of decryptMessage at   *)
(* the other end, unless the two ends' rotations cross first; with one     *)
(* direction that rotates they never do.                                   *)
EveryMessageArrives ==
  \A e \in Node : \A k \in 1..MaxSend[Peer(e)] :
    (asked[Peer(e)] >= k) ~> (Len(delivered[e]) >= k \/ ~Uncrossed)

(* The pair implements the abstract channel.                               *)
Channel == INSTANCE SecureChannel WITH sent <- asked, got <- delivered
ImplementsSecureChannel == Channel!Spec
=============================================================================
