----------------------------- MODULE PeerFraming -----------------------------
(***************************************************************************)
(* How PeerClient._onData (lightning/peer-client.js) cuts the byte stream  *)
(* of an established session into messages.  A byte is its offset in the   *)
(* stream, so the buffer is the interval from pos to avail, and a slice    *)
(* authenticates exactly when it is the ciphertext the receiving nonce has *)
(* reached.  The two ends seal and rotate in step (NoiseTransport with one *)
(* direction), so the key and nonce are the number rn of ciphertexts.      *)
(* A data event runs to completion before the next one.                    *)
(***************************************************************************)
EXTENDS FramingConstants, Sequences

VARIABLES
  cts,        \* the peer's ciphertexts: lengths at odd places, bodies at even
  avail,      \* how many bytes of the stream the socket has delivered
  pos,        \* how many of them _onData has cut off the buffer
  rn,         \* the receiving position of noiseState
  l,          \* this.l, the length carried over to the next event
  delivered,  \* the frames handed to deserialize and routeMessage
  events,     \* how many data events there were
  chunking    \* how this stream is cut

vars == <<cts, avail, pos, rn, l, delivered, events, chunking>>

NoLength == 0   \* undefined; a real length is never 0 (SizesAssumption)

Slice == [from : Nat, to : Nat]

TypeOK ==
  /\ cts \in Seq([from : Nat, to : Nat, size : Sizes])
  /\ avail \in Nat /\ pos \in 0..avail
  /\ rn \in Nat
  /\ l \in Sizes \cup {NoLength}
  /\ delivered \in Seq(Nat)
  /\ events \in Nat
  /\ chunking \in Chunkings

Init ==
  /\ cts = << >>
  /\ avail = 0 /\ pos = 0 /\ rn = 0 /\ events = 0
  /\ l = NoLength
  /\ delivered = << >>
  /\ chunking \in Chunkings

Sent == IF cts = << >> THEN 0 ELSE cts[Len(cts)].to
FrameOf(i) == (i + 1) \div 2

(* The peer writes one frame: the length's ciphertext, then the body's.    *)
PeerSend ==
  /\ Len(cts) < 2 * MaxFrames
  /\ \E n \in Sizes :
       LET mid == Sent + LenLen + TagLen
       IN cts' = cts \o <<[from |-> Sent, to |-> mid, size |-> n],
                          [from |-> mid, to |-> mid + n + TagLen, size |-> n]>>
  /\ UNCHANGED <<avail, pos, rn, l, delivered, events, chunking>>

(* The bytes of one data event end at offset end.                          *)
Chunk(end) ==
  /\ avail < end /\ end <= Sent
  /\ \/ chunking = "any"
     \/ /\ chunking = "frames"    \* one or more whole frames
        /\ \E i \in 1..Len(cts) : i % 2 = 0 /\ cts[i].to = end
     \/ /\ chunking = "parts"     \* a frame, or its length and then its body
        /\ \E i \in 1..Len(cts) :
             /\ cts[i].to = end
             /\ cts[i].from = avail \/ (i % 2 = 0 /\ cts[i - 1].from = avail)

(* buffer.slice(0, n) on what is left of the stream up to end.             *)
Cut(p, n, end) == [from |-> p, to |-> IF p + n < end THEN p + n ELSE end]

(* ccpDecrypt returns undefined for less than a tag, without throwing.     *)
Short(c) == c.to - c.from < TagLen

(* Mutant: the nonce is not part of what authenticates a slice.            *)
AuthenticAnyNonce(k, c) ==
  \E i \in 1..Len(cts) : cts[i].from = c.from /\ cts[i].to = c.to

Authentic(k, c) ==
  k < Len(cts) /\ cts[k + 1].from = c.from /\ cts[k + 1].to = c.to

(* What readUInt16BE finds in the plaintext of ciphertext i: the length of *)
(* its frame, or, in a body, any two bytes.                                *)
LengthRead(i) == IF i % 2 = 1 THEN {cts[i].size} ELSE Sizes

(* What deserialize is given: the frame of a body, 0 for anything else.    *)
MessageRead(i) == IF i % 2 = 0 THEN FrameOf(i) ELSE 0

(* Mutants: the carried length is kept after its body; the tag is not cut  *)
(* off with the body.                                                      *)
ReadBodyKeepsLength(p, k, n, end) ==
  LET c == Cut(p, n + TagLen, end)
  IN /\ pos' = c.to
     /\ UNCHANGED l
     /\ IF ~Short(c) /\ Authentic(k, c)
        THEN rn' = k + 1 /\ delivered' = Append(delivered, MessageRead(k + 1))
        ELSE rn' = k /\ UNCHANGED delivered

ReadBodyLeavesTag(p, k, n, end) ==
  LET c == Cut(p, n + TagLen, end)
  IN /\ pos' = c.to - TagLen
     /\ l' = NoLength
     /\ IF ~Short(c) /\ Authentic(k, c)
        THEN rn' = k + 1 /\ delivered' = Append(delivered, MessageRead(k + 1))
        ELSE rn' = k /\ UNCHANGED delivered

(* Lines 106-112: cut off n bytes and the tag, whatever is there, decrypt, *)
(* deserialize and route.                                                  *)
ReadBody(p, k, n, end) ==
  LET c == Cut(p, n + TagLen, end)
  IN /\ pos' = c.to
     /\ l' = NoLength
     /\ \/ /\ Short(c)               \* undefined: deserialize throws
           /\ rn' = k + 1
           /\ UNCHANGED delivered
        \/ /\ ~Short(c) /\ Authentic(k, c)
           /\ rn' = k + 1
           /\ delivered' = Append(delivered, MessageRead(k + 1))
        \/ /\ ~Short(c) /\ ~Authentic(k, c)
           /\ rn' = k
           /\ UNCHANGED delivered

(* Mutants: a length with nothing behind it is dropped, or carried even    *)
(* when its body has arrived.                                              *)
ReadLengthForgets(end) ==
  LET c == Cut(pos, LenLen + TagLen, end)
  IN /\ ~Short(c) /\ Authentic(rn, c)
     /\ \E n \in LengthRead(rn + 1) :
          IF c.to = end
          THEN pos' = end /\ rn' = rn + 1 /\ l' = NoLength /\ UNCHANGED delivered
          ELSE ReadBody(c.to, rn + 1, n, end)

ReadLengthAlwaysCarries(end) ==
  LET c == Cut(pos, LenLen + TagLen, end)
  IN /\ ~Short(c) /\ Authentic(rn, c)
     /\ pos' = c.to /\ rn' = rn + 1 /\ l' \in LengthRead(rn + 1)
     /\ UNCHANGED delivered

(* Lines 94-104: cut off a length; with nothing behind it, keep it for the *)
(* next event.                                                             *)
ReadLength(end) ==
  LET c == Cut(pos, LenLen + TagLen, end)
  IN \/ /\ Short(c)                  \* undefined: readUInt16BE throws
        /\ pos' = c.to /\ rn' = rn + 1 /\ l' = NoLength
        /\ UNCHANGED delivered
     \/ /\ ~Short(c) /\ ~Authentic(rn, c)
        /\ pos' = c.to /\ l' = NoLength
        /\ UNCHANGED <<rn, delivered>>
     \/ /\ ~Short(c) /\ Authentic(rn, c)
        /\ \E n \in LengthRead(rn + 1) :
             IF c.to = end
             THEN /\ pos' = end /\ rn' = rn + 1 /\ l' = n
                  /\ UNCHANGED delivered
             ELSE ReadBody(c.to, rn + 1, n, end)

OnData ==
  \E end \in avail + 1..Sent :
    /\ Chunk(end)
    /\ avail' = end
    /\ events' = events + 1
    /\ IF l = NoLength THEN ReadLength(end) ELSE ReadBody(pos, rn, l, end)
    /\ UNCHANGED <<cts, chunking>>

Next == PeerSend \/ OnData

Spec == Init /\ [][Next]_vars

(* The socket delivers what the peer has written.                          *)
FairSpec == Spec /\ WF_vars(OnData)

(***************************************************************************)
(* Properties.                                                             *)
(***************************************************************************)

(* However TCP cuts the stream, what reaches routeMessage is a frame the   *)
(* peer sent, and frames arrive in the order sent, none twice.             *)
NeverOutOfOrder ==
  /\ \A i \in 1..Len(delivered) : delivered[i] \in 1..FrameOf(Len(cts))
  /\ \A i, j \in 1..Len(delivered) : i < j => delivered[i] < delivered[j]

(* The variables keep their types, and a carried length is the length of   *)
(* the frame whose body comes next in the stream and in the nonce          *)
(* sequence; the buffer is empty then.                                     *)
CarriedLengthIsCurrent ==
  /\ TypeOK
  /\ l # NoLength =>
       /\ rn % 2 = 1 /\ rn < Len(cts)
       /\ l = cts[rn].size
       /\ pos = cts[rn].to /\ pos = avail

(* With frames that arrive whole, however many at a time, each event       *)
(* yields exactly the next frame; the others wait in the buffer.           *)
OneFramePerEvent ==
  chunking = "frames" =>
    /\ Len(delivered) = events
    /\ \A i \in 1..Len(delivered) : delivered[i] = i
    /\ pos = IF events = 0 THEN 0 ELSE cts[2 * events].to

(* With frames that arrive one at a time, whole or as a length and then a  *)
(* body, every frame comes out of the event that completes it.             *)
CompleteFramesDelivered ==
  chunking = "parts" =>
    \A f \in 1..FrameOf(Len(cts)) :
      cts[2 * f].to <= avail => Len(delivered) >= f /\ delivered[f] = f

(* peer-client.js 100: when the buffer holds a length and nothing more,    *)
(* the message 'will be in the next message': the next event delivers it.  *)
NextEventDelivers ==
  [][l # NoLength /\ events' # events => Len(delivered') > Len(delivered)]_vars

(* Every frame the peer sends so reaches routeMessage.                     *)
EveryFrameDelivered ==
  \A f \in 1..MaxFrames :
    (chunking = "parts" /\ Len(cts) >= 2 * f) ~>
      (\E i \in 1..Len(delivered) : delivered[i] = f)
=============================================================================
