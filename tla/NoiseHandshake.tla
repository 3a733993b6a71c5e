--------------------------- MODULE NoiseHandshake ---------------------------
(***************************************************************************)
(* The handshake half of lightning/noise-state.js, symbolically, and the   *)
(* responder it is written against.                                        *)
(*                                                                         *)
(* Public keys are strings.  ECDH of two key pairs is the set of the two.  *)
(* The chaining key is the list of secrets mixed into it, the hash h the   *)
(* list of what was hashed into it.  A tag is the key and the associated   *)
(* data it was computed with.  In h a genuine tag is the item "tag": it is *)
(* determined by what precedes it.                                         *)
(***************************************************************************)
EXTENDS Naturals, Sequences

Pub == {"ls", "rs", "es", "re", "other", "invalid"}
HashItem == Pub \cup {"prologue", "tag", "static"}
Hash == Seq(HashItem)
Chain == Seq(SUBSET Pub)
Tag == [ck : Chain, h : Hash]
SessionKey == [ck : Chain, half : {"none", "first", "second"}]

NoKey == [ck |-> << >>, half |-> "none"]
ForgedTag == [ck |-> << >>, h |-> << >>]

(* The fields of a NoiseState during the handshake.                        *)
Handshake == [h : Hash, ck : Chain, sk : SessionKey, rk : SessionKey]

Act2 == [version : {0, 1}, re : Pub, tag : Tag]
Act3 == [c : Tag, t : Tag]

Ecdh(a, b) == {a, b}
SplitKey(ck, half) == [ck |-> ck, half |-> half]

(* constructor and initialize().                                           *)
Blank == [h |-> << >>, ck |-> << >>, sk |-> NoKey, rk |-> NoKey]
Initialized(st) == [st EXCEPT !.h = <<"prologue", "rs">>, !.ck = << >>]

(* initiatorAct1(): the state after it; the message is es and the tag.     *)
AfterAct1(st) ==
  [st EXCEPT !.h = @ \o <<"es", "tag">>, !.ck = Append(@, Ecdh("rs", "es"))]

(* initiatorAct2Act3(m): the checks in the order the code makes them, and  *)
(* what each failure leaves behind.  The version is checked before h is    *)
(* touched; an invalid point after h, a bad tag after h and ck.            *)
VersionOk(m) == m.version = 0
PointOk(m) == m.re # "invalid"

HashedPoint(st, m) == [st EXCEPT !.h = Append(@, m.re)]
MixedSecret(st, m) ==
  [HashedPoint(st, m) EXCEPT !.ck = Append(@, Ecdh(m.re, "es"))]

(* Mutant: the tag of act two is not verified.                             *)
TagOkUnverified(st, m) == TRUE

TagOk(st, m) ==
  LET s == MixedSecret(st, m) IN m.tag = [ck |-> s.ck, h |-> s.h]

Act2Accepted(st, m) == VersionOk(m) /\ PointOk(m) /\ TagOk(st, m)

(* Mutant: h and ck are written only once every check has passed.          *)
AfterRejectedAct2Restored(st, m) == st

AfterRejectedAct2(st, m) ==
  IF ~VersionOk(m) THEN st
  ELSE IF ~PointOk(m) THEN HashedPoint(st, m) ELSE MixedSecret(st, m)

AfterAct3(st, m) ==
  LET s == MixedSecret(st, m)
      ck == Append(s.ck, Ecdh(m.re, "ls"))
  IN [h |-> s.h \o <<"tag", "static">>, ck |-> ck,
      sk |-> SplitKey(ck, "first"), rk |-> SplitKey(ck, "second")]

(* Mutant: act three hashes the static key where the tag belongs.          *)
Act3MessageWrongHash(st, m) ==
  LET s == MixedSecret(st, m)
      h3 == Append(s.h, "static")
  IN [c |-> [ck |-> s.ck, h |-> s.h],
      t |-> [ck |-> Append(s.ck, Ecdh(m.re, "ls")), h |-> h3]]

Act3Message(st, m) ==
  LET s == MixedSecret(st, m)
      h2 == Append(s.h, "tag")
      h3 == Append(h2, "static")
  IN [c |-> [ck |-> s.ck, h |-> h2],
      t |-> [ck |-> Append(s.ck, Ecdh(m.re, "ls")), h |-> h3]]

(* The responder, not part of the repository: it holds rs and answers the  *)
(* act one it received with its ephemeral key re.                          *)
ResponderAfterAct2 ==
  [h |-> <<"prologue", "rs", "es", "tag", "re">>,
   ck |-> <<Ecdh("rs", "es"), Ecdh("re", "es")>>]

GenuineAct2 ==
  [version |-> 0, re |-> "re",
   tag |-> [ck |-> ResponderAfterAct2.ck, h |-> ResponderAfterAct2.h]]

ResponderAccepts(m) ==
  LET h2 == Append(ResponderAfterAct2.h, "tag")
  IN /\ m.c = [ck |-> ResponderAfterAct2.ck, h |-> h2]
     /\ m.t = [ck |-> Append(ResponderAfterAct2.ck, Ecdh("re", "ls")),
               h |-> Append(h2, "static")]

ResponderKey(half) ==
  SplitKey(Append(ResponderAfterAct2.ck, Ecdh("re", "ls")), half)
=============================================================================
