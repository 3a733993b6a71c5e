----------------------------- MODULE MCWallets ------------------------------
(***************************************************************************)
(* The two programs that keep a key in a file, for TLC: the wallet of the  *)
(* lightning application (WalletFile) and the command line of              *)
(* bitcoin/segwit (SegwitWallet).  A behaviour is one of one or the other; *)
(* they share nothing.  Three invocations are two that race and one that   *)
(* sees the result; the second kill and the third seed show that nothing   *)
(* repairs a file.  SegwitWallet is taken with its theorems, which         *)
(* MCWallets_proofs cites.                                                 *)
(***************************************************************************)
EXTENDS WalletFile, TLC

CONSTANTS Names, NoName, Calls, MaxRunning, Amounts, CoinValue

VARIABLES files, call, out, made, tornNames, raced,
          program  \* "lightning" or "segwit"

Segwit == INSTANCE SegwitWallet_proofs WITH torn <- tornNames

ASSUME SegwitBounded == Segwit!Bounded

segwitVars == <<files, call, out, made, tornNames, raced>>

Symmetry == Permutations(Apps) \cup Permutations(Calls)

InitAny == Init /\ Segwit!Init /\ program \in {"lightning", "segwit"}

NextAny ==
    \/ program = "lightning" /\ Next
       /\ UNCHANGED <<segwitVars, program>>
    \/ program = "segwit" /\ Segwit!Next
       /\ UNCHANGED <<vars, program>>

SpecAny == InitAny /\ [][NextAny]_<<vars, segwitVars, program>>

(* Every key shown for a name, and every address and transaction made with *)
(* it, is the one in its file, unless two invocations created it at once   *)
(* (key.js 3-16); only a kill leaves a file empty.                         *)
OneKeyPerName ==
    Segwit!TypeOK /\ Segwit!OneKeyPerName /\ Segwit!EmptyMeansTorn

(* A name that was shown stays readable, whatever is killed, unless two    *)
(* invocations created it at once; a file that was left empty stays empty. *)
ReadableOnceShown == Segwit!ReadableOnceShown /\ Segwit!UnreadableStays
=============================================================================
