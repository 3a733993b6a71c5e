---------------------------- MODULE MCConnection ----------------------------
(***************************************************************************)
(* The three parts of a connection, for TLC: the two NoiseStates and what  *)
(* is between them (MCNoiseTransport), the cutting of the stream into      *)
(* frames (PeerFraming) and the life of a PeerClient (PeerSession).  A     *)
(* behaviour is one of one of them; the others stay where they are idle.   *)
(* PeerFraming and PeerSession are taken with their theorems, which        *)
(* MCConnection_proofs cites.                                              *)
(*                                                                         *)
(* PeerFraming: a tag of 2 bytes and a length of 1, so a piece shorter     *)
(* than a tag exists, as does one that is longer than a tag and no whole   *)
(* ciphertext.                                                             *)
(***************************************************************************)
EXTENDS MCNoiseTransport, FramingConstants, SessionConstants

VARIABLES
  stream, avail, pos, rn, carried, frames, events, chunking,
  socket, completedAct, noise, replies, halves, taken, act3, responder,
    sealed, written, inbound, routed, pings, unhandled,
  program  \* "transport", "framing" or "session"

Framing == INSTANCE PeerFraming_proofs WITH
             cts <- stream, l <- carried, delivered <- frames
Session == INSTANCE PeerSession_proofs

transportVars == <<vars, mode>>
framingVars == <<stream, avail, pos, rn, carried, frames, events, chunking>>
sessionVars == <<socket, completedAct, noise, replies, halves, taken, act3,
                 responder, sealed, written, inbound, routed, pings, unhandled>>
all == <<transportVars, framingVars, sessionVars, program>>

SizesSmall == {2, 3}

InitAll ==
  \/ /\ program = "transport" /\ InitAny
     /\ Framing!Init /\ chunking = "any" /\ Session!Init
  \/ /\ program = "framing" /\ Framing!Init
     /\ InitAny /\ mode = "overlap" /\ Session!Init
  \/ /\ program = "session" /\ Session!Init
     /\ InitAny /\ mode = "overlap" /\ Framing!Init /\ chunking = "any"

(* A step of one of them leaves the others alone.                          *)
InTransport ==
  program = "transport" /\ UNCHANGED <<framingVars, sessionVars, program>>
InFraming ==
  program = "framing" /\ UNCHANGED <<transportVars, sessionVars, program>>
InSession ==
  program = "session" /\ UNCHANGED <<transportVars, framingVars, program>>

NextAll ==
  \/ InTransport /\ NextAny
  \/ InFraming /\ Framing!Next
  \/ InSession /\ Session!Next

(* The fairness of SpecAny and of the two FairSpecs: hkdf calls back, the  *)
(* event loop delivers what a socket holds, and the peer reads.            *)
FairnessAll ==
  /\ \A e \in Node :
       /\ WF_all(InTransport /\ ResumeEncryptAny(e))
       /\ WF_all(InTransport /\ DecryptAny(e))
       /\ WF_all(InTransport /\ ResumeDecryptAny(e))
  /\ WF_all(InFraming /\ Framing!OnData)
  /\ WF_all(InSession /\ Session!OnConnected)
  /\ WF_all(InSession /\ Session!OnHandshakeData)
  /\ WF_all(InSession /\ Session!OnMessage)
  /\ WF_all(InSession /\ Session!ResponderAct3)

SpecAll == InitAll /\ [][NextAll]_all /\ FairnessAll

(* However TCP cuts the stream, what reaches routeMessage is a frame the   *)
(* peer sent, and frames arrive in the order sent, none twice.             *)
NeverOutOfOrder == Framing!NeverOutOfOrder

(* A length carried over to the next event is that of the frame whose body *)
(* comes next in the stream and in the nonce sequence (peer-client.js 90). *)
CarriedLengthIsCurrent == Framing!CarriedLengthIsCurrent

(* With frames that arrive whole, each event yields exactly the next one;  *)
(* the others wait in the buffer (peer-client.js 89-116).                  *)
OneFramePerEvent == Framing!OneFramePerEvent

(* With frames that arrive one at a time, whole or as a length and then a  *)
(* body, every frame comes out of the event that completes it.             *)
CompleteFramesDelivered == Framing!CompleteFramesDelivered

(* Every frame the peer sends so reaches routeMessage.                     *)
EveryFrameDelivered == Framing!EveryFrameDelivered

(* Whatever answered before, an established client and the responder that  *)
(* took its act three hold the same two keys, crosswise.                   *)
KeyAgreement == Session!KeyAgreement

(* Nothing is sealed before the handshake is complete, and init is sealed  *)
(* first, although the ping timer runs all along (peer-client.js 19).      *)
InitFirst == Session!InitFirst

(* An act two that was refused for its point or its tag has left h and ck  *)
(* changed: no later act two completes the handshake (noise-state.js 63).  *)
NoHandshakeAfterForgery == Session!NoHandshakeAfterForgery

(* Every ping routed got exactly one pong, or one unhandled rejection.     *)
PongPerPing == Session!PongPerPing

(* A genuine answer to a fresh handshake completes it at both ends, and    *)
(* the init message goes out, unless the socket closes.                    *)
HandshakeCompletes == Session!HandshakeCompletes
=============================================================================
