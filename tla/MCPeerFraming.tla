---------------------------- MODULE MCPeerFraming ----------------------------
(***************************************************************************)
(* Instances of PeerFraming for TLC: a tag of 2 bytes, a length of 1, so a *)
(* piece shorter than a tag exists, as does one that is not a whole        *)
(* ciphertext but longer than a tag.                                       *)
(***************************************************************************)
EXTENDS PeerFraming

SizesSmall == {2, 3}
=============================================================================
