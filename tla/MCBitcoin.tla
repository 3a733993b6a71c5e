----------------------------- MODULE MCBitcoin ------------------------------
(***************************************************************************)
(* The Bitcoin studies for TLC: the data structures of bitcoin/            *)
(* (MCChainData), the example programs of bitcoin2 run by hand             *)
(* (TxExamples), and one transaction built and signed in any order         *)
(* (TxSigning).  Two inputs are the fewest that can sign over each other,  *)
(* two values the fewest that make an old signature stale.                 *)
(***************************************************************************)
EXTENDS MCChainData

CONSTANTS SeparatorData, Audited, Coins, Values, Keys, MaxVins, MaxVouts

VARIABLES coins, chain, last, printed,
          flavour, tx, owed, covered,
          study  \* "chain data", "examples" or "signing"

Examples == INSTANCE TxExamples
Signing == INSTANCE TxSigning

dataVars == <<vars, parsingVars, program>>
examplesVars == <<coins, chain, last, printed>>
signingVars == <<flavour, tx, owed, covered>>

\* None of the data in the examples' scripts holds an OP_CODESEPARATOR byte.
NoData == {}
\* The programs with a comment that states a fee, and those of them that pay
\* it: two state 1900 and take the outputs off 108900, where the coin they
\* spend has 1089000 (StatedFeePaid).
CommentedPrograms ==
    {"spend-nonstandard", "send-p2pkh", "spend-p2pkh", "spend-p2ms",
     "p2wpkh-send", "p2wpkh-spend", "payment2", "payment3", "payment4",
     "payment6", "payment7", "payment8", "payment9"}
AuditedPrograms == CommentedPrograms \ {"p2wpkh-send", "payment8"}

\* Two coins of each kind, owned by two keys.
Coin(txid, index, key, witness) ==
    [txid |-> txid, index |-> index, key |-> key, witness |-> witness]
TwoOfEachKind ==
    {Coin("a", 0, "k1", FALSE), Coin("b", 1, "k2", FALSE),
     Coin("c", 0, "k1", TRUE), Coin("d", 0, "k2", TRUE)}

DataIdle == program = "merkle" /\ size = 0 /\ InitAny
SigningIdle == flavour = "legacy" /\ Signing!Init

InitAll ==
    \/ study = "chain data" /\ Examples!Init /\ SigningIdle /\ InitAny
    \/ study = "examples" /\ Examples!Init /\ SigningIdle /\ DataIdle
    \/ study = "signing" /\ Examples!Init /\ Signing!Init /\ DataIdle

InChainData ==
    study = "chain data" /\ UNCHANGED <<examplesVars, signingVars, study>>

NextAll ==
    \/ InChainData /\ NextAny
    \/ study = "examples" /\ Examples!Next
       /\ UNCHANGED <<dataVars, signingVars, study>>
    \/ study = "signing" /\ Signing!Next
       /\ UNCHANGED <<dataVars, examplesVars, study>>

SpecAll ==
    /\ InitAll /\ [][NextAll]_<<dataVars, examplesVars, signingVars, study>>
    /\ WF_<<dataVars, examplesVars, signingVars, study>>(InChainData /\ RunsOn)

\* A spend whose coin is confirmed is accepted by the network, with the
\* scripts, sizes and signatures its program makes (bitcoin2/src).
ReadySpendAccepted == Examples!ReadySpendAccepted

\* Where two programs build one transaction, by hand and with bitcoinjs-lib,
\* they print the same one, field for field; its buffer is filled to the
\* byte.  The eleven programs of AuditedPrograms pay the fee that a comment
\* beside their outputs states; two more state one and pay another.
AgreesAsStated ==
    /\ Examples!TypeOK /\ Examples!AgreesWithBuilder
    /\ Examples!SizeExact /\ Examples!FeeAsStated

\* Every transaction with a comment on its fee pays that fee ("// fees 1900"
\* and the like, beside the value of an output).
StatedFeePaid == Examples!FeeAsStated

\* A transaction whose inputs the owners signed after its last change is
\* valid for the network, whatever was signed before and in whatever order,
\* and fills the buffer that calcTxBytes allocates (signInput and
\* signWitnessInput of the example files).
SignedIsValid == Signing!TypeOK /\ Signing!SignedIsValid /\ Signing!SizeExact

\* Nothing of a valid transaction was changed after any of its signatures.
ValidIsCovered == Signing!ValidIsCovered

\* The index of an input is written beside its hash.
WireSpendsDeclared == Signing!WireSpendsDeclared
=============================================================================
