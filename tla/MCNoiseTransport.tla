-------------------------- MODULE MCNoiseTransport --------------------------
(***************************************************************************)
(* Instances of NoiseTransport for TLC, over the same two ends.  A key     *)
(* lasts RotateAt ciphertexts, so with RotateAt = 4 the third message of a *)
(* direction is the first under its second key, and the fifth the first    *)
(* under its third.  The mode of a behaviour is fixed at its start:        *)
(*   "overlap"  the constants of the configuration: hkdf calls back before *)
(*              the next event, nobody awaits a send;                      *)
(*   "yield"    other events run while hkdf is under way, every call is    *)
(*              awaited;                                                   *)
(*   "odd"      RotateAt is odd, so that keys change between the two       *)
(*              ciphertexts of a frame (line 124 of noise-state.js).       *)
(***************************************************************************)
EXTENDS NoiseTransport

CONSTANT Modes

VARIABLE mode

(* Both directions rotate twice and go on under the third key.             *)
MaxSendBoth == [e \in Node |-> 5]

(* Each direction rotates at least once.                                   *)
MaxSendShort == [e \in Node |-> 3]

Yield == INSTANCE NoiseTransport
           WITH HkdfYields <- TRUE, Overlap <- 1, MaxSend <- MaxSendShort
Odd == INSTANCE NoiseTransport
         WITH RotateAt <- 3, Overlap <- 1, MaxSend <- MaxSendShort

InitAny == Init /\ mode \in Modes

EncryptAny(e) ==
  /\ \/ mode = "overlap" /\ EncryptMessage(e)
     \/ mode = "yield" /\ Yield!EncryptMessage(e)
     \/ mode = "odd" /\ Odd!EncryptMessage(e)
  /\ UNCHANGED mode

ResumeEncryptAny(e) ==
  /\ \/ mode = "overlap" /\ ResumeEncrypt(e)
     \/ mode = "yield" /\ Yield!ResumeEncrypt(e)
     \/ mode = "odd" /\ Odd!ResumeEncrypt(e)
  /\ UNCHANGED mode

DecryptAny(e) ==
  /\ \/ mode = "overlap" /\ (DecryptLength(e) \/ DecryptMessage(e))
     \/ mode = "yield" /\ (Yield!DecryptLength(e) \/ Yield!DecryptMessage(e))
     \/ mode = "odd" /\ (Odd!DecryptLength(e) \/ Odd!DecryptMessage(e))
  /\ UNCHANGED mode

ResumeDecryptAny(e) ==
  /\ \/ mode = "overlap" /\ ResumeDecrypt(e)
     \/ mode = "yield" /\ Yield!ResumeDecrypt(e)
     \/ mode = "odd" /\ Odd!ResumeDecrypt(e)
  /\ UNCHANGED mode

NextAny ==
  \E e \in Node :
    EncryptAny(e) \/ ResumeEncryptAny(e) \/ DecryptAny(e) \/ ResumeDecryptAny(e)

SpecAny ==
  /\ InitAny /\ [][NextAny]_<<vars, mode>>
  /\ \A e \in Node :
       /\ WF_<<vars, mode>>(ResumeEncryptAny(e))
       /\ WF_<<vars, mode>>(DecryptAny(e))
       /\ WF_<<vars, mode>>(ResumeDecryptAny(e))

(* Unless rotations cross or overwrite one another, every message handed   *)
(* to encryptMessage comes out of decryptMessage at the other end.         *)
MessagesArrive == EveryMessageArrives
=============================================================================
