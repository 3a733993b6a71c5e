----------------------------- MODULE TxSigning -----------------------------
(***************************************************************************)
(* Building one transaction with the functions of the example files, its   *)
(* inputs and outputs added and its inputs signed in any order, and signed *)
(* again.  "legacy" is any example but the last, "witness" is              *)
(* example-p2wpkh-spend.js and "inplace" is test2.js, whose signp2pkh      *)
(* changes the inputs it is given.                                         *)
(***************************************************************************)
EXTENDS ScriptMachine

CONSTANTS
    Coins,    \* the coins: txid, index, key that owns it, witness or not
    Values,   \* the values an output may have, and a signer may be told
    Keys,
    MaxVins,  \* bound on the inputs of the transaction
    MaxVouts  \* bound on its outputs

VARIABLES
    flavour,  \* whose functions build it
    tx,       \* the transaction
    owed,     \* the coin each input was added for
    covered   \* what each input's last signature was made over, if any

vars == <<flavour, tx, owed, covered>>

CoinValue == 2
CoinScript(coin) == IF coin.witness THEN P2wpkhScript(KeyHash(coin.key))
                                    ELSE P2pkhScript(KeyHash(coin.key))

Init ==
    /\ flavour \in {"legacy", "witness", "inplace"}
    /\ tx = BaseTx
    /\ owed = <<>>
    /\ covered = <<>>

\* What a signature should be over: the outputs the transaction has, and
\* the coins it spends.
Over(outs, hashType) ==
    [ins |-> [i \in DOMAIN owed |-> owed[i]], outs |-> outs,
     hashType |-> hashType]
Unsigned == [ins |-> <<>>, outs |-> <<>>, hashType |-> 0]

AddInput(coin) ==
    /\ Len(tx.vins) < MaxVins
    /\ coin \notin ToSet(owed)
    /\ coin.witness => flavour = "witness"
    /\ tx' = [tx EXCEPT !.vins = Append(@,
                Vin(coin.txid, coin.index, P2pkhScript(KeyHash(coin.key))))]
    /\ owed' = Append(owed, coin)
    /\ covered' = Append(covered, Unsigned)
    /\ UNCHANGED flavour

AddOutput(value) ==
    /\ Len(tx.vouts) < MaxVouts
    /\ tx' = [tx EXCEPT !.vouts =
                Append(@, Vout(P2pkhScript(KeyHash("payee")), value))]
    /\ UNCHANGED <<flavour, owed, covered>>

\* The signature can be good when the owner signs, told the coin's value.
SignedOver(n, key, hashType, value) ==
    IF key = owed[n].key /\ (owed[n].witness => value = CoinValue)
    THEN Over(tx.vouts, hashType) ELSE Unsigned

\* signp2pkh or signInput, then the scriptSig; test2.js puts it in script.
Sign(n, key, hashType) ==
    LET sig == SignInputOver(flavour = "witness", tx, n, key, hashType)
        inplace == SignedInPlace(tx.vins, tx.vouts, n, key)
    IN  /\ n \in DOMAIN tx.vins
        /\ ~owed[n].witness
        /\ \/ /\ flavour # "inplace"
              /\ tx' = [tx EXCEPT !.vins[n].scriptSig =
                            P2pkhScriptSig(sig, key)]
           \/ /\ flavour = "inplace" /\ hashType = All
              /\ tx.vins[n].script \in  \* once per input
                    {<<>>, P2pkhScript(KeyHash(owed[n].key))}
              /\ tx' = [tx EXCEPT !.vins =
                    [inplace.vins EXCEPT ![n].script =
                        P2pkhScriptSig(inplace.sig, key)]]
        /\ covered' = [covered EXCEPT ![n] =
                SignedOver(n, key, hashType, 0)]
        /\ UNCHANGED <<flavour, owed>>

\* signWitnessInput, then the witness.
SignWitness(n, key, hashType, value) ==
    /\ n \in DOMAIN tx.vins
    /\ owed[n].witness
    /\ tx' = [tx EXCEPT !.vins[n].witness =
                <<SignWitnessInput(tx, n, key, hashType, value), PubKey(key)>>]
    /\ covered' = [covered EXCEPT ![n] =
            SignedOver(n, key, hashType, value)]
    /\ UNCHANGED <<flavour, owed>>

Next ==
    \/ \E coin \in Coins : AddInput(coin)
    \/ \E value \in Values : AddOutput(value)
    \/ \E n \in 1 .. MaxVins, key \in Keys, hashType \in {All, NoOutput} :
        \/ Sign(n, key, hashType)
        \/ \E value \in Values : SignWitness(n, key, hashType, value)

Spec == Init /\ [][Next]_vars

(***************************************************************************)
(* Properties                                                              *)
(***************************************************************************)
Printed == IF flavour = "witness" THEN WitnessTxToBuffer(tx)
                                  ELSE TxToBuffer(tx)

\* The network looks up the outputs the wire names.
Named(i) == {c \in Coins : /\ c.txid = Printed.ins[i].hash
                           /\ c.index = Printed.ins[i].index}
Used == [i \in DOMAIN tx.vins |->
            Vout(CoinScript(CHOOSE c \in Named(i) : TRUE), CoinValue)]
Valid ==
    /\ tx.vins # <<>> /\ tx.vouts # <<>>
    /\ \A i \in DOMAIN tx.vins : Named(i) # {}
    /\ Accepts(Printed, Used)

\* What each file can build: example-p2wpkh-spend.js writes index 0 for
\* every input and no stack for an input without a witness; test2.js signs
\* one input.
Supported ==
    CASE flavour = "legacy" -> TRUE
      [] flavour = "witness" ->
            /\ \A i \in DOMAIN owed : owed[i].index = 0
            /\ \A i, j \in DOMAIN owed : owed[i].witness = owed[j].witness
      [] flavour = "inplace" -> Len(owed) = 1

\* Types of the variables.
TypeOK ==
    /\ flavour \in {"legacy", "witness", "inplace"}
    /\ owed \in Seq(Coins)
    /\ Len(owed) <= MaxVins /\ Len(tx.vouts) <= MaxVouts
    /\ Len(tx.vins) = Len(owed) /\ Len(covered) = Len(owed)
    /\ \A i \in DOMAIN tx.vins :
        ~owed[i].witness => tx.vins[i].witness = <<>>

\* A transaction whose inputs the owners signed after its last change, and
\* that does not pay more than it has, is valid, whatever was signed before
\* and in whatever order.
SignedIsValid ==
    /\ Supported /\ tx.vins # <<>> /\ tx.vouts # <<>>
    /\ \A i \in DOMAIN covered : covered[i] = Over(tx.vouts, All)
    /\ ValueOf(tx.vouts) <= CoinValue * Len(owed)
    => Valid

\* A valid transaction is covered by its signatures: nothing of it was
\* changed after any of them.  The type encodeSig appends does not change
\* what is signed, so the one exception is an input signed as SIGHASH_NONE
\* when there was no output yet, and it has to be the only input.
ValidIsCovered ==
    Valid => \A i \in DOMAIN covered :
        \/ covered[i] = Over(tx.vouts, All)
        \/ covered[i] = Over(<<>>, NoOutput) /\ Len(owed) = 1

\* What calcTxBytes allocates is what the cursor writes, signed or not, with
\* witnesses on some of the inputs or on none.
SizeExact ==
    (IF flavour = "witness" THEN CalcWitnessTxBytes(tx.vins, tx.vouts)
                            ELSE CalcTxBytes(tx.vins, tx.vouts))
        = WireSize(Printed)

\* The index of an input is written beside its hash.
WireSpendsDeclared ==
    \A i \in DOMAIN tx.vins :
        /\ Printed.ins[i].hash = tx.vins[i].txid
        /\ Printed.ins[i].index = tx.vins[i].vout
=============================================================================
