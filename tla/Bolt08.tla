------------------------------- MODULE Bolt08 -------------------------------
(***************************************************************************)
(* general/bolt-08.js: the script that walks through the initiator's half  *)
(* of BOLT 8 with the test vectors, then sends 1002 messages.  It is the   *)
(* code noise-state.js was written from; the properties compare the two.   *)
(*                                                                         *)
(* Values are those of NoiseHandshake and NoiseState: a hash is the list   *)
(* of what was hashed, a chaining key the list of what was mixed into it.  *)
(***************************************************************************)
EXTENDS NoiseHandshake, FiniteSets

CONSTANTS
    Rotate,  \* ROTATE, the nonce at which the sending key is replaced: not
             \* less than the two nonces of a message
    LastMessage  \* the number of the last message of the loop

T == INSTANCE NoiseState
        WITH Client <- "client", Server <- "server", RotateAt <- Rotate

VARIABLES
    pc,     \* the part of connect() that runs next
    h, ck,  \* the hash, and the chaining key of the handshake
    sk, rk, \* the keys of the handshake's end
    m,      \* the handshake message read or written last
    st,     \* ck, sk and sn as the messages use them
    i,      \* the number of the message sent last
    wire    \* every ciphertext made, in order: its key and its nonce

vars == <<pc, h, ck, sk, rk, m, st, i, wire>>

\* hkdf(ck, ikm) appends to the chaining key; the key it comes with, its
\* second half, is named by the result.
Mixed(c, secret) == Append(c, secret)
Shared(a, b) == {a, b}
Key(c, half) == [ck |-> c, half |-> half]
EncryptWithAD(k, n, ad) == [k |-> k, n |-> n, ad |-> ad]
DecryptWithAD(k, n, ad, c) == c = EncryptWithAD(k, n, ad)
Tag8(c) == [ck |-> c.k.ck, h |-> c.ad]

\* The act two of the test vector, which a responder with rs made.
ReceivedAct2 ==
    [version |-> 0, re |-> "re",
     c |-> EncryptWithAD(Key(ResponderAfterAct2.ck, "second"), 0,
                         ResponderAfterAct2.h)]

Init ==
    /\ pc = "act1"
    /\ h = <<"prologue", "rs">>
    /\ ck = <<>>
    /\ sk = NoKey
    /\ rk = NoKey
    /\ m = <<>>
    /\ st = T!InitCipher("client")
    /\ i = 0
    /\ wire = <<>>

Act1Step ==
    /\ pc = "act1"
    /\ pc' = "act2"
    /\ ck' = Mixed(ck, Shared("rs", "es"))
    /\ LET t == EncryptWithAD(Key(ck', "second"), 0, Append(h, "es"))
       IN  /\ h' = h \o <<"es", "tag">>
           /\ m' = <<0, "es", t>>
           /\ wire' = Append(wire, <<t.k, t.n>>)
    /\ UNCHANGED <<sk, rk, st, i>>

Act2Step ==
    /\ pc = "act2"
    /\ ReceivedAct2.version = 0
    /\ ck' = Mixed(ck, Shared(ReceivedAct2.re, "es"))
    /\ DecryptWithAD(Key(ck', "second"), 0, Append(h, ReceivedAct2.re),
                     ReceivedAct2.c)
    /\ pc' = "act3"
    /\ h' = h \o <<ReceivedAct2.re, "tag">>
    /\ m' = <<ReceivedAct2.version, ReceivedAct2.re, ReceivedAct2.c>>
    /\ wire' = Append(wire, <<ReceivedAct2.c.k, ReceivedAct2.c.n>>)
    /\ UNCHANGED <<sk, rk, st, i>>

SealedStatic == EncryptWithAD(Key(ck, "second"), 1, h)

\* Mutant: the hash is left without the sealed static key.
HashedStaticSkipped == h
HashedStatic == Append(h, "static")

Act3Step ==
    /\ pc = "act3"
    /\ pc' = "msg0"
    /\ ck' = Mixed(ck, Shared(ReceivedAct2.re, "ls"))
    /\ h' = HashedStatic
    /\ LET t == EncryptWithAD(Key(ck', "second"), 0, h')
       IN  /\ m' = <<0, SealedStatic, t>>
           /\ wire' = wire \o <<<<SealedStatic.k, SealedStatic.n>>,
                                <<t.k, t.n>>>>
    /\ sk' = Key(ck', "first")
    /\ rk' = Key(ck', "second")
    /\ UNCHANGED <<st, i>>

\* Message 0 is sent without a look at ROTATE.
SendMessage0 ==
    /\ pc = "msg0"
    /\ pc' = "loop"
    /\ st' = [st EXCEPT !.sn = @ + 2]
    /\ wire' = wire \o <<<<st.sk, st.sn>>, <<st.sk, st.sn + 1>>>>
    /\ UNCHANGED <<h, ck, sk, rk, m, i>>

\* Mutant: the chaining key is not replaced.
RotateKeysSameChain(s) ==
    LET d == T!Hkdf(s.ck, s.sk)
    IN  [s EXCEPT !.sk = d.key, !.sn = 0]

IncrementNonce(s) == [s EXCEPT !.sn = @ + 1]
RotateKeys(s) ==
    LET d == T!Hkdf(s.ck, s.sk)
    IN  [s EXCEPT !.sk = d.key, !.ck = d.ck, !.sn = 0]

AfterEncrypt(s) ==
    LET s1 == IncrementNonce(s)
    IN  IF s1.sn >= Rotate THEN RotateKeys(s1) ELSE s1

SendMessage ==
    /\ pc = "loop"
    /\ i < LastMessage
    /\ i' = i + 1
    /\ LET s1 == AfterEncrypt(st)
       IN  /\ st' = AfterEncrypt(s1)
           /\ wire' = wire \o <<<<st.sk, st.sn>>, <<s1.sk, s1.sn>>>>
    /\ UNCHANGED <<pc, h, ck, sk, rk, m>>

Next == Act1Step \/ Act2Step \/ Act3Step \/ SendMessage0 \/ SendMessage

Spec == Init /\ [][Next]_vars

(***************************************************************************)
(* Properties                                                              *)
(***************************************************************************)
\* Types of the variables; the nonce never reaches ROTATE.
TypeOK ==
    /\ pc \in {"act1", "act2", "act3", "msg0", "loop"}
    /\ h \in Hash /\ ck \in Chain
    /\ sk \in SessionKey /\ rk \in SessionKey
    /\ st \in T!CipherState
    /\ st.sn < Rotate
    /\ i \in 0 .. LastMessage

\* Act for act the script and NoiseState compute the same hash, chaining key
\* and keys, and act three is the message NoiseState writes.
HandshakeAgrees ==
    LET start == Initialized(Blank)
        act1 == AfterAct1(start)
        act2 == [re |-> "re", version |-> 0, tag |-> Tag8(ReceivedAct2.c)]
        act3 == AfterAct3(act1, act2)
        message3 == Act3Message(act1, act2)
    IN  CASE pc = "act1" -> h = start.h /\ ck = start.ck
          [] pc = "act2" -> h = act1.h /\ ck = act1.ck
          [] pc = "act3" ->
                /\ h = Append(MixedSecret(act1, act2).h, "tag")
                /\ ck = MixedSecret(act1, act2).ck
          [] OTHER ->
                /\ [h |-> h, ck |-> ck, sk |-> sk, rk |-> rk] = act3
                /\ [c |-> Tag8(m[2]), t |-> Tag8(m[3])] = message3

\* What NoiseState.encryptMessage makes of the same state for one ciphertext.
Encrypted(s) ==
    LET s1 == T!IncrementSendingNonce(s)
    IN  IF T!SendingExpired(s1)
        THEN T!RotateSendingKeys(s1, T!Hkdf(s1.ck, s1.sk)) ELSE s1

\* A message leaves the script with the key, the chaining key and the nonce
\* that NoiseState.encryptMessage leaves, message 0 included although the
\* script never compares its nonces with ROTATE.
MessageAgrees ==
    [][st' # st => st' = Encrypted(Encrypted(st))]_vars

\* The length of message n is sealed with nonce 2n of the whole stream and
\* the body with the next one, counted within keys of ROTATE nonces each: the
\* messages 500 and 1000 of the test vectors are the first of their keys.
\* The four ciphertexts of the handshake come before.
RotationsOnTime ==
    \A j \in {Len(wire) - 1, Len(wire)} : j > 4 =>
            /\ wire[j][1].gen = (j - 5) \div Rotate
            /\ wire[j][2] = (j - 5) % Rotate

\* No key seals twice with one nonce, the handshake's tags and the static key
\* included.
NonceOnce == Cardinality({wire[j] : j \in 1 .. Len(wire)}) = Len(wire)
=============================================================================
