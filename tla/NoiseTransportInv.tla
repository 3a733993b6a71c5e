-------------------------- MODULE NoiseTransportInv --------------------------
(***************************************************************************)
(* The inductive invariant behind DeliveredInOrder and NonceUnique, for    *)
(* ends that have at most one call of each kind pending.                   *)
(*                                                                         *)
(* A position is a key and a nonce.  The ciphertexts an end has sealed are *)
(* its log; each was sealed at the position that follows the one before.   *)
(* A receiver is either synced (its position follows the last ciphertext   *)
(* it took, so the next one opens unless the keys have diverged) or dead   *)
(* (no ciphertext it has still to read was sealed under its key, and none  *)
(* ever will be, because it met one sealed under another key of the same   *)
(* generation).                                                            *)
(***************************************************************************)
EXTENDS NoiseTransport

AwaitedCalls == ~HkdfYields \/ Overlap = 1

SingleCall(calls) == calls = {} \/ \E call \in calls : calls = {call}

(* Ciphertext c was sealed strictly before position (k, n).                *)
Less(c, k, n) ==
  c.key.gen < k.gen \/ (c.key.gen = k.gen /\ c.nonce < n)

(* (k, n) is the position after c: the next nonce, or a fresh key.         *)
Follows(c, k, n) ==
  IF c.nonce + 1 >= RotateAt
  THEN k.gen = c.key.gen + 1 /\ n = 0
  ELSE k.gen = c.key.gen /\ n = c.nonce + 1

(* (k, n) is the position after the first i ciphertexts of log.            *)
After(log, i, k, n) ==
  IF i = 0 THEN k.gen = 0 /\ n = 0 ELSE Follows(log[i], k, n)

(* What an end has sealed and the position it seals at next, any rotation  *)
(* it waits for included.                                                  *)
Positions(e) ==
  IF sending[e] = {}
  THEN {[log |-> wire[e], key |-> ns[e].sk, nonce |-> ns[e].sn]}
  ELSE {[log |-> wire[e] \o call.cts, key |-> call.derived.key, nonce |-> 0] :
          call \in sending[e]}

WellSealed(log, k, n) ==
  /\ \A i \in 1..Len(log) : After(log, i - 1, log[i].key, log[i].nonce)
  /\ After(log, Len(log), k, n)
  /\ \A i \in 1..Len(log) : /\ Less(log[i], k, n)
                            /\ log[i].key.gen = k.gen => log[i].key = k
  /\ \A i, j \in 1..Len(log) :
       log[i].key.gen = log[j].key.gen => log[i].key = log[j].key
  /\ \A i, j \in 1..Len(log) : i < j => Less(log[i], log[j].key, log[j].nonce)
  /\ \A i \in 1..Len(log) : log[i].msg = (i + 1) \div 2

(* The counters of the sending side agree.                                 *)
SendCounts(e) ==
  /\ sending[e] = {} => Len(wire[e]) = 2 * asked[e]
  /\ \A call \in sending[e] :
       /\ Len(wire[e]) + 2 = 2 * asked[e]
       /\ call.msg = asked[e]
       /\ Len(call.cts) \in {1, 2}

Synced(r, log) ==
  /\ read[r] <= Len(log)
  /\ receiving[r] = {} =>
       /\ After(log, read[r], ns[r].rk, ns[r].rn)
       /\ Len(delivered[r]) = read[r] \div 2
  /\ \A call \in receiving[r] :
       /\ After(log, read[r], call.derived.key, 0)
       /\ IF read[r] % 2 = 1
          THEN call.msgs = << >> /\ Len(delivered[r]) = read[r] \div 2
          ELSE /\ call.msgs = <<read[r] \div 2>>
               /\ Len(delivered[r]) + 1 = read[r] \div 2

Dead(r, log, k) ==
  /\ receiving[r] = {}
  /\ ns[r].rk.gen <= k.gen
  /\ k # ns[r].rk
  /\ \A i \in 1..Len(log) : i > read[r] => log[i].key # ns[r].rk
  /\ \E i \in 1..Len(log) : /\ log[i].key.gen = ns[r].rk.gen
                             /\ log[i].key # ns[r].rk

PairInv(e) ==
  /\ SingleCall(sending[e])
  /\ SingleCall(receiving[e])
  /\ SendCounts(e)
  /\ \A i \in 1..Len(delivered[e]) : delivered[e][i] = i
  /\ Len(delivered[e]) <= asked[Peer(e)]
  /\ \A p \in Positions(e) :
       /\ WellSealed(p.log, p.key, p.nonce)
       /\ Synced(Peer(e), p.log) \/ Dead(Peer(e), p.log, p.key)

(* Each end's sealed log is well formed, and its peer either follows it    *)
(* exactly or has stopped opening anything.                                *)
ChannelInv == AwaitedCalls => \A e \in Node : PairInv(e)

(***************************************************************************)
(* The invariant behind LossMeansCrossed.  The chaining key of an end is   *)
(* the list of the keys it has replaced; as long as none is missing, every *)
(* key it has installed or sealed with can be read off that list.          *)
(***************************************************************************)

(* Each rotation behind k was salted with what precedes its name in c.     *)
MadeIn(k, c) ==
  /\ Len(k.salts) = k.gen
  /\ \A g \in 1..k.gen : \E i \in 1..Len(c) :
       /\ c[i] = [dir |-> k.dir, gen |-> g - 1]
       /\ k.salts[g] = SubSeq(c, 1, i - 1)

Distinct(c) == \A i, j \in 1..Len(c) : c[i] = c[j] => i = j

SealedBy(e) ==
  {wire[e][i] : i \in 1..Len(wire[e])}
    \cup UNION {{call.cts[i] : i \in 1..Len(call.cts)} : call \in sending[e]}

Rotations(e) == ns[e].sk.gen + ns[e].rk.gen

ChainedKeys(e) ==
  LET c == ns[e].ck
  IN /\ Distinct(c)
     /\ \A i \in 1..Len(c) :
          c[i].gen < (IF c[i].dir = e THEN ns[e].sk.gen ELSE ns[e].rk.gen)
     /\ MadeIn(ns[e].sk, c) /\ MadeIn(ns[e].rk, c)
     /\ \A ct \in SealedBy(e) : ct.key.dir = e /\ MadeIn(ct.key, c)

(* A rotation under way was salted with the chaining key as it is, or with *)
(* one that another rotation has replaced since.                           *)
DerivedFrom(e, k, d) ==
  \E c \in ChainingKey :
    d = Hkdf(c, k) /\ (c = ns[e].ck \/ Len(c) < Rotations(e))

KeysOf(e) ==
  /\ ns[e].sk.dir = e /\ ns[e].rk.dir = Peer(e)
  /\ Len(ns[e].ck) <= Rotations(e)
  /\ \A call \in sending[e] : DerivedFrom(e, ns[e].sk, call.derived)
  /\ \A call \in receiving[e] : DerivedFrom(e, ns[e].rk, call.derived)
  /\ NoneOverwritten(e) => ChainedKeys(e)

KeyInv == AwaitedCalls => \A e \in Node : KeysOf(e)
=============================================================================
