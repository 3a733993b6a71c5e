----------------------------- MODULE NoiseState -----------------------------
(***************************************************************************)
(* The transport half of lightning/noise-state.js, as operators on one     *)
(* NoiseState object.  Keys are symbolic: HKDF is a free constructor, so   *)
(* two keys are equal exactly when they were derived in the same way.      *)
(*                                                                         *)
(* A key is the direction it protects, the number of rotations behind it   *)
(* and the chaining key each of those rotations was salted with.  A        *)
(* chaining key is the list of the keys mixed into it since the handshake. *)
(***************************************************************************)
EXTENDS Naturals, Sequences

CONSTANTS Client,    \* the end that ran initiatorAct1 and initiatorAct2Act3
          Server,    \* its remote peer
          RotateAt   \* the nonce at which a key is replaced, 1000 in the code

ASSUME EndsAssumption == Client # Server
ASSUME RotateAtAssumption == RotateAt \in Nat \ {0}

Node == {Client, Server}

Peer(e) == IF e = Client THEN Server ELSE Client

KeyName == [dir : Node, gen : Nat]
ChainingKey == Seq(KeyName)
Key == [dir : Node, gen : Nat, salts : Seq(ChainingKey)]

(* The fields of a NoiseState that outlive the handshake.  The two nonces  *)
(* are 16-bit fields of a 12-byte buffer; a rotation resets them at        *)
(* RotateAt (1000), far from the width.                                    *)
CipherState == [ck : ChainingKey, sk : Key, rk : Key, sn : Nat, rn : Nat]

(* hkdf(ck, '') at the end of Act Three: one key per direction.            *)
BaseKey(dir) == [dir |-> dir, gen |-> 0, salts |-> << >>]

InitCipher(e) ==
  [ck |-> << >>, sk |-> BaseKey(e), rk |-> BaseKey(Peer(e)), sn |-> 0, rn |-> 0]

(* The two halves of the 64 bytes hkdf(ck, k) returns.                     *)
HkdfKey(ck, k) ==
  [dir |-> k.dir, gen |-> k.gen + 1, salts |-> Append(k.salts, ck)]

HkdfChainingKey(ck, k) == Append(ck, [dir |-> k.dir, gen |-> k.gen])

Hkdf(ck, k) == [key |-> HkdfKey(ck, k), ck |-> HkdfChainingKey(ck, k)]
Derived == [key : Key, ck : ChainingKey]

(* ChaCha20-Poly1305 with empty associated data: a ciphertext opens under  *)
(* the key and nonce that sealed it and under no other.                    *)
Ciphertext == [key : Key, nonce : Nat, msg : Nat]

Seal(st, m) == [key |-> st.sk, nonce |-> st.sn, msg |-> m]
Opens(st, c) == c.key = st.rk /\ c.nonce = st.rn

IncrementSendingNonce(st) == [st EXCEPT !.sn = @ + 1]
IncrementReceivingNonce(st) == [st EXCEPT !.rn = @ + 1]

(* Mutant: the receiving key lasts one ciphertext longer.                  *)
ReceivingExpiredLate(st) == st.rn > RotateAt

SendingExpired(st) == st.sn >= RotateAt
ReceivingExpired(st) == st.rn >= RotateAt

(* Mutants: a rotation that forgets to install the key, or to split what   *)
(* hkdf returned.                                                          *)
RotateSendingKeysSameKey(st, d) == [st EXCEPT !.ck = d.ck, !.sn = 0]
RotateReceivingKeysUnsplit(st, d) == [st EXCEPT !.rk = d, !.ck = d.ck, !.rn = 0]

(* What a rotation writes once its derivation d has been delivered.  Both  *)
(* directions read and overwrite the one chaining key of the object.       *)
RotateSendingKeys(st, d) == [st EXCEPT !.sk = d.key, !.ck = d.ck, !.sn = 0]
RotateReceivingKeys(st, d) == [st EXCEPT !.rk = d.key, !.ck = d.ck, !.rn = 0]
=============================================================================
