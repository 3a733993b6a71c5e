----------------------------- MODULE TxExamples -----------------------------
(***************************************************************************)
(* The example programs of bitcoin2/src, run one by one by hand, and the   *)
(* testnet ledger their output is sent to with bitcoin-cli.                *)
(*                                                                         *)
(* Each example-*.js builds one transaction with its own functions and     *)
(* names, in a comment, the txid the network gave it; the next program of  *)
(* the chain spends an output of that txid.  Each sendPayment of test3.js  *)
(* builds a transaction of the chain with bitcoinjs-lib, and test.js and   *)
(* test2.js build one funding transaction in both ways.  A step of the     *)
(* model runs one program and submits what it prints.                      *)
(***************************************************************************)
EXTENDS ScriptMachine

CONSTANTS
    Audited  \* the programs whose comments on fees are compared with the fee

VARIABLES
    coins,   \* unspent outputs: <<txid, index>> -> script and value
    chain,   \* accepted transactions: txid -> wire
    last,    \* the last submission: program, what it printed, the answer
    printed  \* what each program prints, whenever it is run

vars == <<coins, chain, last, printed>>

\* The four keys of the sources: k1 is myKL..., k2 mrz1..., k3 tb1q..., f the
\* funding key of test.js, with the local and the remote funding keys.
Address1 == FromBase58Check("k1")
Address2 == FromBase58Check("k2")
Address3 == FromBech32("k3")

\* sha256 of the text that spends it, 253c85... in the sources.
Secret == Text("pax_is_awesome!")
SecretScript ==
    CompileScript(<<Op("SHA256"), Sha256(Secret[2]), Op("EQUAL")>>)

\* A transaction of one input without a scriptSig, and with one.
Spending(vin, vouts) == [BaseTx EXCEPT !.vins = <<vin>>, !.vouts = vouts]
WithScriptSig(tx, chunks) ==
    [tx EXCEPT !.vins[1].scriptSig = CompileScript(chunks)]

(***************************************************************************)
(* The examples                                                            *)
(***************************************************************************)
P2pkhExample ==
    LET tx == Spending(Vin("cf8597", 1, P2pkhScript(KeyHash("k1"))),
                       <<Vout(P2pkhScript(Address2), 900),
                         Vout(P2pkhScript(KeyHash("k1")), 11010000)>>)
    IN  [tx EXCEPT !.vins[1].scriptSig =
            P2pkhScriptSig(SignInput(tx, 1, "k1", All), "k1")]

SendNonstandard ==
    LET tx == Spending(Vin("515ecb", 1, P2pkhScript(KeyHash("k1"))),
                       <<Vout(P2shScript(ScriptHash(SecretScript)), 9000),
                         Vout(P2pkhScript(KeyHash("k1")), 11011000)>>)
    IN  [tx EXCEPT !.vins[1].scriptSig =
            P2pkhScriptSig(SignInput(tx, 1, "k1", All), "k1")]

SpendNonstandard ==
    WithScriptSig(Spending(Vin("cf8597", 0, Null),
                           <<Vout(P2pkhScript(Address1), 8000)>>),
                  <<Secret, Serialized(SecretScript)>>)

SendP2pkh ==
    LET tx == Spending(Vin("b20a04", 1, P2pkhScript(Address1)),
                       <<Vout(P2shScript(ScriptHash(P2pkhScript(Address2))),
                              9000),
                         Vout(P2pkhScript(Address1), 1099000 - 9000 - 1000)>>)
    IN  [tx EXCEPT !.vins[1].scriptSig =
            P2pkhScriptSig(SignInput(tx, 1, "k1", All), "k1")]

\* Mutant: the script that is signed is the output's, not the redeem script.
SpendP2pkhSignsOutput ==
    LET redeem == P2pkhScript(Address2)
        tx == Spending(Vin("e97529", 0, P2shScript(ScriptHash(redeem))),
                       <<Vout(P2pkhScript(Address1), 8000)>>)
    IN  WithScriptSig(tx, <<SignInput(tx, 1, "k2", All), PubKey("k2"),
                            Serialized(redeem)>>)

SpendP2pkh ==
    LET redeem == P2pkhScript(Address2)
        tx == Spending(Vin("e97529", 0, redeem),
                       <<Vout(P2pkhScript(Address1), 8000)>>)
    IN  WithScriptSig(tx, <<SignInput(tx, 1, "k2", All), PubKey("k2"),
                            Serialized(redeem)>>)
TwoOfTwo == P2msScript(2, 2, <<"k1", "k2">>)

SendP2ms ==
    LET tx == Spending(Vin("0c1752", 0, P2pkhScript(Address1)),
                       <<Vout(P2shScript(ScriptHash(TwoOfTwo)), 7000)>>)
    IN  WithScriptSig(tx, <<SignInput(tx, 1, "k1", All), PubKey("k1")>>)

SpendP2ms ==
    LET tx == Spending(Vin("430a9e", 0, TwoOfTwo),
                       <<Vout(P2pkhScript(Address1), 6000)>>)
    IN  WithScriptSig(tx, <<SmallOp(0), SignInput(tx, 1, "k1", All),
                            SignInput(tx, 1, "k2", All),
                            Serialized(TwoOfTwo)>>)

P2wpkhSend ==
    LET tx == Spending(Vin("e97529", 1, P2pkhScript(Address1)),
                       <<Vout(P2wpkhScript(Address3), 10000),
                         Vout(P2pkhScript(Address1), 108900 - 10000 - 1900)>>)
    IN  WithScriptSig(tx, <<SignInput(tx, 1, "k1", All), PubKey("k1")>>)

\* It declares output 1 and spends output 0 (see WitnessTxToBuffer).
P2wpkhSpend ==
    LET tx == Spending(Vin("65c044", 1, P2pkhScript(Address3)),
                       <<Vout(P2pkhScript(Address1), 9000)>>)
    IN  [tx EXCEPT !.vins[1].witness =
            <<SignWitnessInput(tx, 1, "k3", All, 10000), PubKey("k3")>>]

(***************************************************************************)
(* test2.js: the funding transaction of BOLT 3, its values in tens of      *)
(* satoshis.                                                               *)
(***************************************************************************)
RedeemScript ==
    CompileScript(<<Number(2), PubKey("local"), PubKey("remote"), Number(2),
                    Op("CHECKMULTISIG")>>)
PrimaryOutput == Vout(P2wshScript(RedeemScript), 1000000)
ChangeOutput == Vout(P2wpkhScript(KeyHash("f")), 498998608)
\* BIP69 orders the outputs by their values.
SortOutputs(a, b) == IF a.value <= b.value THEN <<a, b>> ELSE <<b, a>>

\* Mutant: the outputs are not sorted.
FundingUnsorted ==
    LET vins == <<Vin("fd2105", 0, P2pkhScript(KeyHash("f")))>>
        vouts == <<ChangeOutput, PrimaryOutput>>
        signed == SignedInPlace(vins, vouts, 1, "f")
    IN  [BaseTx EXCEPT
            !.vins = <<[signed.vins[1] EXCEPT !.script =
                            P2pkhScriptSig(signed.sig, "f")]>>,
            !.vouts = vouts]

Funding ==
    LET vins == <<Vin("fd2105", 0, P2pkhScript(KeyHash("f")))>>
        vouts == SortOutputs(PrimaryOutput, ChangeOutput)
        signed == SignedInPlace(vins, vouts, 1, "f")
    IN  [BaseTx EXCEPT
            !.vins = <<[signed.vins[1] EXCEPT !.script =
                            P2pkhScriptSig(signed.sig, "f")]>>,
            !.vouts = vouts]
(***************************************************************************)
(* bitcoinjs-lib's TransactionBuilder, as test.js and test3.js use it: one *)
(* input, signed over what the network will check.                         *)
(***************************************************************************)
BuilderWire(txid, index, outs, script, witness) ==
    [version |-> 2, marker |-> witness # <<>>,
     ins |-> <<[hash |-> txid, index |-> index, script |-> script,
                sequence |-> 1]>>,
     outs |-> outs, witness |-> witness, locktime |-> 0]
BuilderSig(key, txid, index, outs, code) ==
    Signature(key, LegacyDigest(BuilderWire(txid, index, outs, <<>>, <<>>), 1,
                                code, All), All)
BuildP2pkh(txid, index, outs, key) ==
    BuilderWire(txid, index, outs,
        <<BuilderSig(key, txid, index, outs, P2pkhScript(KeyHash(key))),
          PubKey(key)>>, <<>>)
BuildP2wpkh(txid, index, outs, key, value) ==
    LET bare == BuilderWire(txid, index, outs, <<>>, <<>>)
        digest == V0Digest(bare, 1, P2pkhScript(KeyHash(key)), value, All)
    IN  BuilderWire(txid, index, outs, <<>>,
                    << <<Signature(key, digest, All), PubKey(key)>> >>)
BuildP2ms(txid, index, outs, keys, redeem) ==
    BuilderWire(txid, index, outs,
        <<SmallOp(0)>>
        \o [i \in DOMAIN keys |-> BuilderSig(keys[i], txid, index, outs,
                                             redeem)]
        \o <<Serialized(redeem)>>, <<>>)
\* sign throws for a key that is not in the redeem script.
Threw == [version |-> 0]
BuildP2shP2pkh(txid, index, outs, key, owner) ==
    LET redeem == P2pkhScript(KeyHash(owner)) IN
    IF key # owner THEN Threw
    ELSE BuilderWire(txid, index, outs,
            <<BuilderSig(key, txid, index, outs, redeem), PubKey(key),
              Serialized(redeem)>>, <<>>)

(***************************************************************************)
(* The payments of test3.js, and test.js                                   *)
(***************************************************************************)
Pay(key, value) == Vout(P2pkhScript(KeyHash(key)), value)
PayScript(script, value) == Vout(P2shScript(ScriptHash(script)), value)

Payment1 == BuildP2wpkh("7fa393", 0, <<Pay("k1", 11031000)>>, "k3", 11031494)
Payment2 == BuildP2pkh("33d6dc", 0,
                <<Pay("k2", 9000), Pay("k1", 11031000 - 9000 - 1000)>>, "k1")
Payment3 == BuildP2pkh("515ecb", 1,
                <<PayScript(SecretScript, 9000),
                  Pay("k1", 11021000 - 9000 - 1000)>>, "k1")
Payment4 == BuildP2pkh("b20a04", 1,
                <<PayScript(P2pkhScript(KeyHash("k2")), 9000),
                  Pay("k1", 1099000 - 9000 - 1000)>>, "k1")
\* The only call of it is commented out.
Payment5 == BuildP2shP2pkh("e97529", 0, <<Pay("k1", 8000)>>, "k1", "k2")
Payment6 == BuildP2pkh("0c1752", 0, <<PayScript(TwoOfTwo, 7000)>>, "k1")
Payment7 == BuildP2ms("430a9e", 0, <<Pay("k1", 6000)>>, <<"k1", "k2">>,
                      TwoOfTwo)
Payment8 == BuildP2pkh("e97529", 1,
                <<Vout(P2wpkhScript(KeyHash("k3")), 10000),
                  Pay("k1", 108900 - 10000 - 1900)>>, "k1")
Payment9 == BuildP2wpkh("65c044", 0, <<Pay("k1", 10000 - 1000)>>, "k3", 10000)
FundingBuilder ==
    BuildP2pkh("fd2105", 0, SortOutputs(PrimaryOutput, ChangeOutput), "f")

(***************************************************************************)
(* The programs: the txid their comments record, what they print, the      *)
(* bytes they allocated for it, and the fee their comments state.          *)
(***************************************************************************)
NoFee == 0
Own(txid, tx, fee) == [txid |-> txid, wire |-> TxToBuffer(tx), fee |-> fee,
                       size |-> CalcTxBytes(tx.vins, tx.vouts)]
Built(txid, wire, fee) ==
    [txid |-> txid, wire |-> wire, fee |-> fee,
     size |-> IF wire = Threw THEN 0 ELSE WireSize(wire)]

Programs ==
    {"p2pkh", "send-nonstandard", "spend-nonstandard", "send-p2pkh",
     "spend-p2pkh", "send-p2ms", "spend-p2ms", "p2wpkh-send", "p2wpkh-spend",
     "payment1", "payment2", "payment3", "payment4", "payment5", "payment6",
     "payment7", "payment8", "payment9", "test", "test2"}

Run(p) ==
    CASE p = "p2pkh" -> Own("18dc4e", P2pkhExample, NoFee)
      [] p = "send-nonstandard" -> Own("cf8597", SendNonstandard, NoFee)
      [] p = "spend-nonstandard" -> Own("f039be", SpendNonstandard, 1000)
      [] p = "send-p2pkh" -> Own("e97529", SendP2pkh, 1000)
      [] p = "spend-p2pkh" -> Own("0c1752", SpendP2pkh, 1000)
      [] p = "send-p2ms" -> Own("430a9e", SendP2ms, NoFee)
      [] p = "spend-p2ms" -> Own("6786d6", SpendP2ms, 1000)
      [] p = "p2wpkh-send" -> Own("65c044", P2wpkhSend, 1900)
      [] p = "p2wpkh-spend" ->
            [Own("fa5926", P2wpkhSpend, 1000) EXCEPT
                !.wire = WitnessTxToBuffer(P2wpkhSpend),
                !.size = CalcWitnessTxBytes(P2wpkhSpend.vins,
                                            P2wpkhSpend.vouts)]
      [] p = "payment1" -> Built("33d6dc", Payment1, NoFee)
      [] p = "payment2" -> Built("515ecb", Payment2, 1000)
      [] p = "payment3" -> Built("cf8597", Payment3, 1000)
      [] p = "payment4" -> Built("e97529", Payment4, 1000)
      [] p = "payment5" -> Built("0c1752", Payment5, NoFee)
      [] p = "payment6" -> Built("430a9e", Payment6, 1000)
      [] p = "payment7" -> Built("6786d6", Payment7, 1000)
      [] p = "payment8" -> Built("65c044", Payment8, 1900)
      [] p = "payment9" -> Built("fa5926", Payment9, 1000)
      [] p = "test" -> Built("funding", FundingBuilder, NoFee)
      [] p = "test2" -> Own("funding", Funding, NoFee)

Prints == [p \in Programs |-> Run(p)]

(***************************************************************************)
(* The ledger                                                              *)
(***************************************************************************)
\* The coins the programs start from, which none of them makes.
Init ==
    /\ coins = [o \in {<<"7fa393", 0>>, <<"b20a04", 1>>, <<"fd2105", 0>>} |->
                    CASE o[1] = "7fa393" ->
                            Vout(P2wpkhScript(KeyHash("k3")), 11031494)
                      [] o[1] = "b20a04" -> Pay("k1", 1099000)
                      [] OTHER -> Pay("f", 500000000)]
    /\ chain = [t \in {} |-> Threw]
    /\ last = [program |-> "none", answer |-> "none", paid |-> 0]
    /\ printed = Prints

Spends(wire) ==
    [i \in DOMAIN wire.ins |-> <<wire.ins[i].hash, wire.ins[i].index>>]
Made(txid, wire) == {<<txid, i - 1>> : i \in DOMAIN wire.outs}

\* The program throws, and there is nothing to submit.
Throws(p) ==
    /\ printed[p].wire = Threw
    /\ last' = [program |-> p, answer |-> "threw", paid |-> 0]
    /\ UNCHANGED <<coins, chain, printed>>

\* bitcoin-cli sendrawtransaction of the program's output.
Submit(p) ==
    LET txid == printed[p].txid
        wire == printed[p].wire
        spent == Spends(wire)
        found == ToSet(spent) \subseteq DOMAIN coins
        used == [i \in DOMAIN spent |-> coins[spent[i]]]
        made == Made(txid, wire)
        accepted == found /\ Accepts(wire, used)
        answer == IF accepted THEN "accepted"
                  ELSE IF found THEN "refused" ELSE "missing"
    IN  /\ wire # Threw /\ UNCHANGED printed
        /\ \/ /\ accepted
              /\ coins' = [o \in (DOMAIN coins \ ToSet(spent)) \cup made |->
                    IF o \in made THEN wire.outs[o[2] + 1] ELSE coins[o]]
              /\ chain' = [t \in DOMAIN chain \cup {txid} |->
                    IF t = txid THEN wire ELSE chain[t]]
              /\ last' = [program |-> p, answer |-> answer,
                          paid |-> ValueOf(used) - ValueOf(wire.outs)]
           \/ /\ ~accepted
              /\ last' = [program |-> p, answer |-> answer, paid |-> 0]
              /\ UNCHANGED <<coins, chain>>

Next == \E p \in Programs : Throws(p) \/ Submit(p)

Spec == Init /\ [][Next]_vars

(***************************************************************************)
(* Properties                                                              *)
(***************************************************************************)
\* Types of the variables; an accepted transaction is known by the txid the
\* sources record, and no output is empty.
TypeOK ==
    /\ DOMAIN coins \subseteq (DOMAIN chain \cup {"7fa393", "b20a04", "fd2105"})
                              \X (0 .. 1)
    /\ \A o \in DOMAIN coins : coins[o].value \in 1 .. 500000000
    /\ DOMAIN chain \subseteq {printed[p].txid : p \in Programs}
    /\ last.program \in Programs \cup {"none"}
    /\ last.answer \in {"none", "threw", "missing", "refused", "accepted"}

\* Whatever order the programs are run in, a transaction whose coins are
\* there is valid: the scripts, the digests and the values each example
\* writes down are those of the outputs the programs before it made.
ReadySpendAccepted == last.answer # "refused"

\* An example and the payment of test3.js (or test2.js and test.js) that
\* record one txid print the same transaction, field for field.
AgreesWithBuilder ==
    last.program \in Programs /\ last.answer # "threw" =>
        LET txid == printed[last.program].txid
        IN  txid \in DOMAIN chain => chain[txid] = printed[last.program].wire

\* The buffer calcTxBytes allocates is what the cursor fills, to the byte: a
\* shorter one throws, a longer one leaves zeroes after the locktime.
SizeExact ==
    last.answer = "accepted" =>
        printed[last.program].size = WireSize(printed[last.program].wire)

\* An audited program pays the fee the comment beside its outputs states.
FeeAsStated ==
    last.answer = "accepted" /\ last.program \in Audited
        => last.paid = printed[last.program].fee
=============================================================================
