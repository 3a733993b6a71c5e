-------------------------- MODULE FramingConstants --------------------------
(***************************************************************************)
(* The sizes and bounds of PeerFraming, with what is assumed of them.      *)
(***************************************************************************)
EXTENDS Naturals

CONSTANTS
  TagLen,     \* bytes of a Poly1305 tag, 16 in the code
  LenLen,     \* bytes of a message length, 2 in the code
  Sizes,      \* the lengths of the peer's messages
  MaxFrames,  \* bound on the messages the peer sends
  Chunkings   \* how TCP may cut the stream: "any", "frames" or "parts"

ASSUME LengthsAssumption == TagLen \in Nat \ {0} /\ LenLen \in Nat \ {0}
(* Every message type of messages/ is longer than its two-byte type.       *)
ASSUME SizesAssumption == Sizes \subseteq Nat /\ \A n \in Sizes : n > LenLen
ASSUME MaxFramesAssumption == MaxFrames \in Nat
ASSUME ChunkingAssumption == Chunkings \subseteq {"any", "frames", "parts"}
=============================================================================
