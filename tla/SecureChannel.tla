--------------------------- MODULE SecureChannel ----------------------------
(***************************************************************************)
(* What an encrypted session promises its two users: each end reads the    *)
(* messages the other end handed over, in order, none twice and none       *)
(* skipped.  A session may go silent for good; it may not misdeliver.      *)
(***************************************************************************)
EXTENDS Naturals, Sequences

CONSTANTS Client, Server

VARIABLES sent,   \* sent[e]: how many messages e has handed over, named 1, 2, ...
          got     \* got[e]: the messages e has read, in the order it read them

vars == <<sent, got>>

Ends == {Client, Server}
Other(e) == IF e = Client THEN Server ELSE Client

Init == /\ sent = [e \in Ends |-> 0]
        /\ got = [e \in Ends |-> << >>]

Send(e) == /\ sent' = [sent EXCEPT ![e] = @ + 1]
           /\ UNCHANGED got

Deliver(e) == /\ Len(got[e]) < sent[Other(e)]
              /\ got' = [got EXCEPT ![e] = Append(@, Len(@) + 1)]
              /\ UNCHANGED sent

Next == \E e \in Ends : Send(e) \/ Deliver(e)

Spec == Init /\ [][Next]_vars
=============================================================================
