----------------------------- MODULE PeerSession -----------------------------
(***************************************************************************)
(* The life of one PeerClient (lightning/peer-client.js): the socket, the  *)
(* handshake, the init message, the ping timer that runs from construction *)
(* on and is never cleared, and the pong replies of message-handler.js.    *)
(*                                                                         *)
(* An act two is 50 bytes; TCP may deliver them in two pieces, so the      *)
(* stream is counted in half messages.  Established messages come one per  *)
(* data event (PeerFraming is about the others).  Each handler runs to     *)
(* completion: its awaits end before the next event.                       *)
(***************************************************************************)
EXTENDS NoiseHandshake, SessionConstants, FiniteSets

VARIABLES
  socket,        \* "none", "opening", "open", "closed"
  completedAct,  \* 0, 1 or 3
  noise,         \* the NoiseState
  replies,       \* the act two messages written to the client, oldest first
  halves,        \* how many half messages of replies have arrived
  taken,         \* how many replies were cut off the buffer
  act3,          \* the act three messages the client wrote
  responder,     \* "waiting", "done" or "failed": the peer's side of act three
  sealed,        \* what encryptMessage sealed, in nonce order
  written,       \* how many of them the open socket took
  inbound,       \* pings the established peer sent, "ping" or "hugePing"
  routed,        \* how many of them routeMessage has seen
  pings,         \* timer ticks so far
  unhandled      \* sendMessage promises rejected with nobody to catch them

vars == <<socket, completedAct, noise, replies, halves, taken, act3, responder,
          sealed, written, inbound, routed, pings, unhandled>>

TypeOK ==
  /\ socket \in {"none", "opening", "open", "closed"}
  /\ completedAct \in {0, 1, 3}
  /\ noise \in Handshake
  /\ replies \in Seq(Act2)
  /\ halves \in 0..2 * Len(replies) /\ taken \in 0..Len(replies)
  /\ act3 \in Seq(Act3)
  /\ responder \in {"waiting", "done", "failed"}
  /\ sealed \in Seq({"init", "ping", "pong"}) /\ written \in 0..Len(sealed)
  /\ inbound \in Seq({"ping", "hugePing"}) /\ routed \in 0..Len(inbound)
  /\ pings \in Nat /\ unhandled \in Nat

Init ==
  /\ socket = "none" /\ completedAct = 0 /\ noise = Blank
  /\ replies = << >> /\ halves = 0 /\ taken = 0 /\ act3 = << >>
  /\ responder = "waiting"
  /\ sealed = << >> /\ written = 0
  /\ inbound = << >> /\ routed = 0
  /\ pings = 0 /\ unhandled = 0

(* sendMessage: without keys the cipher throws before anything changes;    *)
(* otherwise the message takes the next nonces whatever the socket's state.*)
(* Mutant: a message is sealed whether or not there is a key.              *)
HasKeysAssumed(st) == TRUE

HasKeys(st) == st.sk # NoKey

SendMessage(m) ==
  /\ sealed' = Append(sealed, m)
  /\ written' = IF socket = "open" THEN written + 1 ELSE written

(* connect(): returns before the socket has opened.                        *)
Connect ==
  /\ socket = "none"
  /\ socket' = "opening"
  /\ UNCHANGED <<completedAct, noise, replies, halves, taken, act3, responder,
                 sealed, written, inbound, routed, pings, unhandled>>

(* _onConnected: initialize, act one, write, completedAct = 1.             *)
OnConnected ==
  /\ socket = "opening"
  /\ socket' = "open"
  /\ noise' = AfterAct1(Initialized(noise))
  /\ completedAct' = 1
  /\ UNCHANGED <<replies, halves, taken, act3, responder, sealed, written,
                 inbound, routed, pings, unhandled>>

(* _onClose and _onError only log; the timer goes on.                      *)
OnClose ==
  /\ socket \in {"opening", "open"}
  /\ socket' = "closed"
  /\ UNCHANGED <<completedAct, noise, replies, halves, taken, act3, responder,
                 sealed, written, inbound, routed, pings, unhandled>>

(* ping(), from the timer: a failure is caught and logged.                 *)
Ping ==
  /\ pings < MaxPings
  /\ pings' = pings + 1
  /\ IF HasKeys(noise) THEN SendMessage("ping") ELSE UNCHANGED <<sealed, written>>
  /\ UNCHANGED <<socket, completedAct, noise, replies, halves, taken, act3,
                 responder, inbound, routed, unhandled>>

(* _onData, lines 76-88, with half messages up to n arrived.  Fewer than   *)
(* 50 bytes wait in the buffer.                                            *)
OnHandshakeData ==
  /\ socket = "open"
  /\ completedAct = 1
  /\ \E n \in halves + 1..2 * Len(replies) :
       /\ halves' = n
       /\ IF n < 2 * taken + 2
          THEN UNCHANGED <<completedAct, noise, taken, act3, sealed, written>>
          ELSE LET m == replies[taken + 1]
               IN /\ taken' = taken + 1
                  /\ \/ /\ Act2Accepted(noise, m)
                        /\ noise' = AfterAct3(noise, m)
                        /\ act3' = Append(act3, Act3Message(noise, m))
                        /\ completedAct' = 3
                        /\ SendMessage("init")
                     \/ /\ ~Act2Accepted(noise, m)
                        /\ noise' = AfterRejectedAct2(noise, m)
                        /\ UNCHANGED <<act3, completedAct, sealed, written>>
  /\ UNCHANGED <<socket, replies, responder, inbound, routed, pings, unhandled>>

(* Mutant: the pong is sent for every message, however long its size.      *)
OnMessageAnySize ==
  /\ socket = "open"
  /\ completedAct = 3
  /\ routed < Len(inbound)
  /\ routed' = routed + 1
  /\ SendMessage("pong")
  /\ UNCHANGED <<socket, completedAct, noise, replies, halves, taken, act3,
                 responder, inbound, pings, unhandled>>

(* _onData, line 89 on, then routeMessage: a ping is answered by a pong of *)
(* the size it asks for.  A reply longer than a 16-bit length makes        *)
(* encryptMessage throw at its first step, in a promise nobody awaits.     *)
OnMessage ==
  /\ socket = "open"
  /\ completedAct = 3
  /\ routed < Len(inbound)
  /\ routed' = routed + 1
  /\ IF inbound[routed + 1] = "ping"
     THEN SendMessage("pong") /\ UNCHANGED unhandled
     ELSE unhandled' = unhandled + 1 /\ UNCHANGED <<sealed, written>>
  /\ UNCHANGED <<socket, completedAct, noise, replies, halves, taken, act3,
                 responder, inbound, pings>>

(***************************************************************************)
(* The other end of the socket (external).  Before it answers, something   *)
(* that is not the responder may: another version of the protocol, a key   *)
(* that is no curve point, or somebody without the private key of rs.  The *)
(* responder itself answers once and then waits for act three.             *)
(***************************************************************************)
WrongAct2 ==
  {[version |-> 1, re |-> "other", tag |-> ForgedTag],
   [version |-> 0, re |-> "invalid", tag |-> ForgedTag],
   [version |-> 0, re |-> "other", tag |-> ForgedTag]}

Answered == \E i \in 1..Len(replies) : replies[i] = GenuineAct2

PeerReplies ==
  /\ socket = "open" /\ Len(replies) < MaxReplies /\ ~Answered
  /\ \E m \in WrongAct2 \cup {GenuineAct2} : replies' = Append(replies, m)
  /\ UNCHANGED <<socket, completedAct, noise, halves, taken, act3, responder,
                 sealed, written, inbound, routed, pings, unhandled>>

ResponderAct3 ==
  /\ socket = "open" /\ responder = "waiting" /\ Answered /\ act3 # << >>
  /\ responder' = IF ResponderAccepts(act3[1]) THEN "done" ELSE "failed"
  /\ UNCHANGED <<socket, completedAct, noise, replies, halves, taken, act3,
                 sealed, written, inbound, routed, pings, unhandled>>

PeerPings ==
  /\ socket = "open" /\ responder = "done" /\ Len(inbound) < MaxInbound
  /\ \E m \in {"ping", "hugePing"} : inbound' = Append(inbound, m)
  /\ UNCHANGED <<socket, completedAct, noise, replies, halves, taken, act3,
                 responder, sealed, written, routed, pings, unhandled>>

Next ==
  \/ Connect
  \/ OnConnected
  \/ OnClose
  \/ Ping
  \/ OnHandshakeData
  \/ OnMessage
  \/ PeerReplies
  \/ ResponderAct3
  \/ PeerPings

Spec == Init /\ [][Next]_vars

(* The event loop delivers what arrives on an open socket, and the peer    *)
(* reads it.  Nobody has to connect, answer, ping or close.                *)
FairSpec ==
  /\ Spec
  /\ WF_vars(OnConnected)
  /\ WF_vars(OnHandshakeData)
  /\ WF_vars(OnMessage)
  /\ WF_vars(ResponderAct3)

(***************************************************************************)
(* Properties.                                                             *)
(***************************************************************************)

(* Whatever answered before, an established client and the responder that  *)
(* took its act three hold the same two keys, crosswise; and the responder *)
(* never has to refuse an act three the client wrote.  Every variable      *)
(* keeps its type.                                                         *)
KeyAgreement ==
  /\ TypeOK
  /\ responder # "failed"
  /\ completedAct = 3 => /\ taken > 0 /\ replies[taken] = GenuineAct2
                         /\ noise.sk = ResponderKey("first")
                         /\ noise.rk = ResponderKey("second")

(* Keys and completedAct move together: nothing can be sealed before the   *)
(* handshake is complete, and init is the first message sealed, although   *)
(* the ping timer runs all along (peer-client.js 19, 86-87).               *)
InitFirst ==
  /\ noise.sk # NoKey <=> completedAct = 3
  /\ completedAct = 3 <=> sealed # << >>
  /\ sealed # << >> => sealed[1] = "init"
  /\ \A i \in 2..Len(sealed) : sealed[i] # "init"

(* An act two that was refused for its point or its tag has left h and ck  *)
(* changed: no later act two completes the handshake, not even a genuine   *)
(* one.  (A refused version leaves them alone.)                            *)
NoHandshakeAfterForgery ==
  (\E i \in 1..taken : VersionOk(replies[i]) /\ replies[i] # GenuineAct2) =>
    completedAct = 1 /\ act3 = << >>

(* How often x is among the first n of s.                                  *)
Count(s, n, x) == Cardinality({i \in 1..n : s[i] = x})

(* Every ping routed got exactly one pong, or one unhandled rejection.     *)
PongPerPing ==
  /\ Count(sealed, Len(sealed), "pong") = Count(inbound, routed, "ping")
  /\ unhandled = Count(inbound, routed, "hugePing")

(* A genuine answer to a fresh handshake completes it at both ends, and    *)
(* the init message goes out, unless the socket closes.                    *)
HandshakeCompletes ==
  (replies = <<GenuineAct2>>) ~>
    ((responder = "done" /\ written > 0) \/ socket = "closed")
=============================================================================
