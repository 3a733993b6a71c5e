------------------------------- MODULE MCWire -------------------------------
(***************************************************************************)
(* Three programs that put bytes on a wire and take them off it, for TLC:  *)
(* the chunking server (Streams), the messages of lightning/messages       *)
(* (WireMessages) and the walk-through of BOLT 8 (Bolt08).  A behaviour is *)
(* one of one of them; they share nothing.                                 *)
(*                                                                         *)
(* Streams: an event brings up to two chunks, so every branch of           *)
(* readFromBuffers is taken, and a chunk may come out of three buffers.    *)
(* WireMessages: small variable fields; a payload may lack up to two       *)
(* bytes, or nine.  Bolt08: the whole script, with its own numbers.        *)
(***************************************************************************)
EXTENDS Streams, TLC

CONSTANTS Sizes, Cuts, Rotate, LastMessage

VARIABLES stage, msg, buffer, got,
          pc, h, ck, sk, rk, handshakeMessage, st, count, ciphertexts,
          program  \* "streams", "messages" or "bolt08"

(* ROTATE is 1000: more than the two nonces of message 0, which the script *)
(* takes without comparing them with it.                                   *)
ASSUME WalkAssumption ==
  Rotate \in Nat /\ Rotate > 2 /\ LastMessage \in Nat

(* A field has a size, one that its two bytes can count, and what is       *)
(* missing of a payload is a number of bytes of its end.                   *)
ASSUME MessageAssumption == Sizes \subseteq Nat /\ Cuts \subseteq Nat

Messages == INSTANCE WireMessages
Walk == INSTANCE Bolt08 WITH m <- handshakeMessage, i <- count,
                             wire <- ciphertexts

messagesVars == <<stage, msg, buffer, got>>
walkVars == <<pc, h, ck, sk, rk, handshakeMessage, st, count, ciphertexts>>

(* The connections are interchangeable.                                    *)
ConnSymmetry == Permutations(Conns)

SizesOfFields == {0, 1, 3}
CutsOfPayload == {0, 1, 2, 9}

InitAny ==
    /\ Init /\ Messages!Init /\ Walk!Init
    /\ program \in {"streams", "messages", "bolt08"}

NextAny ==
    \/ program = "streams" /\ Next
       /\ UNCHANGED <<messagesVars, walkVars, program>>
    \/ program = "messages" /\ Messages!Next
       /\ UNCHANGED <<vars, walkVars, program>>
    \/ program = "bolt08" /\ Walk!Next
       /\ UNCHANGED <<vars, messagesVars, program>>

SpecAny ==
    InitAny /\ [][NextAny]_<<vars, messagesVars, walkVars, program>>

(* Read one after the other, the chunks printed and the buffers left are   *)
(* the bytes received, none lost and none twice (readFromBuffers of        *)
(* streams.js), and less than a chunk is left over as long as no event     *)
(* brings more than one.                                                   *)
NoByteLost == TypeOK /\ ChunksInOrder /\ KeepsUp

(* A message that is cut short is refused by the classes that use the      *)
(* reader, instead of being taken with shorter fields, and the numbers of  *)
(* a whole one are read where they were written (buffer-reader.js).        *)
CutIsRefused ==
    Messages!TypeOK /\ Messages!NumbersRight /\ Messages!CutIsRefused

(* What serialize makes of init, of an announcement's signatures, of a     *)
(* channel update, of a pong and of a ping that states the length of what  *)
(* it carries is what a peer reads, to the byte, whatever size and offsets *)
(* were counted by hand; no other message can be sent (the serialize of    *)
(* every class of lightning/messages).                                     *)
WrittenAsRead == Messages!WrittenAsRead

(* Every field of a message that is deserialised is the one that was sent. *)
FieldsRight == Messages!FieldsRight

(* At every act the walk-through has the hash and keys of NoiseState, no   *)
(* key seals twice with one nonce, and the keys change at the messages for *)
(* which BOLT 8 has test vectors.                                          *)
HandshakeAgrees ==
    /\ Walk!TypeOK /\ Walk!HandshakeAgrees
    /\ Walk!RotationsOnTime /\ Walk!NonceOnce

(* A message leaves the script with the key, chaining key and nonce that   *)
(* NoiseState.encryptMessage leaves.                                       *)
MessageAgrees == Walk!MessageAgrees
=============================================================================
