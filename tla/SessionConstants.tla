-------------------------- MODULE SessionConstants --------------------------
(***************************************************************************)
(* The bounds of PeerSession, with what is assumed of them.                *)
(***************************************************************************)
EXTENDS Naturals

CONSTANTS MaxReplies,   \* bound on the act two messages sent to the client
          MaxPings,     \* bound on the ticks of the 60 second timer
          MaxInbound    \* bound on the pings the peer sends

ASSUME BoundsAssumption ==
  MaxReplies \in Nat /\ MaxPings \in Nat /\ MaxInbound \in Nat
=============================================================================
