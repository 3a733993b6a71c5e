--------------------------- MODULE RawTransaction ---------------------------
(***************************************************************************)
(* The raw Bitcoin transactions of bitcoin2/src: the functions that every  *)
(* example file carries its own copy of.                                   *)
(*                                                                         *)
(* A script is a sequence of chunks, an opcode or a push of a datum with   *)
(* its length.  Hashes, signatures and keys are terms: hash160(d) is       *)
(* <<"hash160", d>>, a signature names the key and the digest it signs.    *)
(* A serialised transaction ("wire") is a record of the fields the cursor  *)
(* writes; only its number of bytes is computed, never its bytes.  What    *)
(* the network checks is in ScriptMachine, written from the wire alone.    *)
(***************************************************************************)
EXTENDS Naturals, Sequences, Functions, SequencesExt

CONSTANTS
    SeparatorData  \* data with a byte 0xab among theirs, the value of
                   \* OPS.OP_CODESEPARATOR

Op(name) == <<"op", name>>
SmallOp(n) == <<"small", n>>
Push(datum, size) == <<"push", datum, size>>

\* A script or a scriptSig a program left null.
Null == << <<"null">> >>

PubKey(key) == Push(<<"pubkey", key>>, 33)
Hash160(datum) == Push(<<"hash160", datum>>, 20)
Sha256(datum) == Push(<<"sha256", datum>>, 32)
KeyHash(key) == Hash160(<<"pubkey", key>>)
Text(t) == Push(<<"text", t>>, 15)
Number(n) == Push(<<"num", n>>, 1)

Total(s, Size(_)) == SumFunction([i \in DOMAIN s |-> Size(s[i])])

\* Bytes of a varuint, of a chunk with its push prefix, of a script.
VarSize(n) == IF n < 253 THEN 1 ELSE 3
ChunkSize(c) ==
    IF c[1] # "push" THEN 1
    ELSE c[3] + (IF c[3] < 76 THEN 1 ELSE IF c[3] < 256 THEN 2 ELSE 3)
ScriptSize(script) == Total(script, ChunkSize)
FieldSize(n) == VarSize(n) + n

\* A script hashed, and a script pushed as data.
ScriptHash(script) == Hash160(<<"script", script>>)
Serialized(script) == Push(<<"script", script>>, ScriptSize(script))

(***************************************************************************)
(* Scripts                                                                 *)
(***************************************************************************)
\* A one byte number becomes its opcode (BIP62.3); the rest is pushed.
CompileScript(chunks) ==
    [i \in DOMAIN chunks |->
        IF chunks[i][1] = "push" /\ chunks[i][2][1] = "num"
        THEN SmallOp(chunks[i][2][2]) ELSE chunks[i]]

P2pkhScript(hash) ==
    CompileScript(<<Op("DUP"), Op("HASH160"), hash, Op("EQUALVERIFY"),
                    Op("CHECKSIG")>>)
P2shScript(hash) == CompileScript(<<Op("HASH160"), hash, Op("EQUAL")>>)
P2msScript(m, n, keys) ==
    CompileScript(<<SmallOp(m)>> \o [i \in DOMAIN keys |-> PubKey(keys[i])]
                            \o <<SmallOp(n), Op("CHECKMULTISIG")>>)
P2wpkhScript(hash) == CompileScript(<<SmallOp(0), hash>>)
P2wshScript(script) == CompileScript(<<SmallOp(0), Sha256(<<"script", script>>)>>)
P2pkhScriptSig(sig, key) == CompileScript(<<sig, PubKey(key)>>)

\* An address in the source is the key hash it decodes to.
FromBase58Check(key) == KeyHash(key)
FromBech32(key) == KeyHash(key)

(***************************************************************************)
(* Transactions                                                            *)
(***************************************************************************)
BaseTx == [version |-> 2, locktime |-> 0, vins |-> <<>>, vouts |-> <<>>]
Vin(txid, vout, script) ==
    [txid |-> txid, vout |-> vout, sequence |-> 1, script |-> script,
     scriptSig |-> Null, witness |-> <<>>]
Vout(script, value) == [script |-> script, value |-> value]

\* The script an input carries on the wire: the scriptSig once there is one.
InputScript(vin) == IF vin.scriptSig # Null THEN vin.scriptSig ELSE vin.script
OutsSize(vouts) ==
    Total(vouts, LAMBDA o : 8 + FieldSize(ScriptSize(o.script)))

CalcTxBytes(vins, vouts) ==
    4 + VarSize(Len(vins))
      + Total(vins, LAMBDA v : 40 + FieldSize(ScriptSize(
                IF v.scriptSig # Null THEN v.scriptSig ELSE v.script)))
      + VarSize(Len(vouts)) + OutsSize(vouts) + 4

\* The same in example-p2wpkh-spend.js, where an input may have a witness.
HasWitness(vins) == \E i \in DOMAIN vins : vins[i].witness # <<>>
StackSize(stack) ==
    VarSize(Len(stack)) + Total(stack, LAMBDA d : FieldSize(d[3]))
Witnesses(vins) == SelectSeq([i \in DOMAIN vins |-> vins[i].witness],
                             LAMBDA stack : stack # <<>>)
CalcWitnessTxBytes(vins, vouts) ==
    LET len(v) == IF v.witness # <<>> THEN 0 ELSE ScriptSize(InputScript(v))
    IN  4 + (IF HasWitness(vins) THEN 2 ELSE 0)
          + VarSize(Len(vins)) + Total(vins, LAMBDA v : 40 + FieldSize(len(v)))
          + VarSize(Len(vouts)) + OutsSize(vouts)
          + Total(Witnesses(vins), StackSize) + 4
Wire(tx, marker, ins, witness) ==
    [version |-> tx.version, marker |-> marker, ins |-> ins,
     outs |-> tx.vouts, witness |-> witness, locktime |-> tx.locktime]
WireIn(vin, index, script) == [hash |-> vin.txid, index |-> index,
                               script |-> script, sequence |-> vin.sequence]

TxToBuffer(tx) ==
    Wire(tx, FALSE, [i \in DOMAIN tx.vins |->
        WireIn(tx.vins[i], tx.vins[i].vout, InputScript(tx.vins[i]))], <<>>)

\* example-p2wpkh-spend.js writes the value of an input as its index, a field
\* no input has: an undefined number is written as 0.
Undefined == 0
WitnessTxToBuffer(tx) ==
    Wire(tx, HasWitness(tx.vins),
         [i \in DOMAIN tx.vins |->
            WireIn(tx.vins[i], Undefined,
                   IF tx.vins[i].witness # <<>> THEN <<>>
                                                ELSE InputScript(tx.vins[i]))],
         Witnesses(tx.vins))

\* Bytes the cursor has written at the end of a wire.
WireSize(wire) ==
    8 + (IF wire.marker THEN 2 ELSE 0) + VarSize(Len(wire.ins))
      + Total(wire.ins, LAMBDA v : 40 + FieldSize(ScriptSize(v.script)))
      + VarSize(Len(wire.outs)) + OutsSize(wire.outs)
      + Total(wire.witness, StackSize)

(***************************************************************************)
(* Signatures                                                              *)
(***************************************************************************)
All == 1
SingleOutput == 3
NoOutput == 2

\* encodeSig with any type of the first three; toDER pads r and s to 72.
Signature(key, digest, hashType) == Push(<<"sig", key, digest, hashType>>, 72)

\* A clone keeps neither the scriptSig nor the witness.
CloneTx(tx) == [tx EXCEPT !.vins =
    [i \in DOMAIN @ |-> Vin(@[i].txid, @[i].vout, @[i].script)]]

\* The bytes of a script equal to OP_CODESEPARATOR are dropped, whether they
\* are opcodes or bytes of a datum.
Filtered(script) ==
    LET kept == SelectSeq(script, LAMBDA c : c # Op("CODESEPARATOR"))
    IN  [i \in DOMAIN kept |->
            IF kept[i][1] = "push" /\ kept[i][2] \in SeparatorData
            THEN Push(<<"cut", kept[i][2]>>, kept[i][3] - 1) ELSE kept[i]]

\* Mutant: the other inputs keep their scripts.
BlankedOnlyFiltered(vins, n) ==
    [vins EXCEPT ![n].script = Filtered(@)]

\* The inputs with only the script of input n left.
Blanked(vins, n) ==
    [i \in DOMAIN vins |->
        [vins[i] EXCEPT !.script = IF i = n THEN Filtered(@) ELSE <<>>]]
\* Each file signs what its own txToBuffer writes.
SignInputOver(inWitnessFile, tx, n, key, hashType) ==
    LET clone == [CloneTx(tx) EXCEPT !.vins = Blanked(@, n)]
        wire == IF inWitnessFile THEN WitnessTxToBuffer(clone)
                                 ELSE TxToBuffer(clone)
    IN  Signature(key, <<"legacy", wire, hashType>>, hashType)
SignInput(tx, n, key, hashType) ==
    SignInputOver(FALSE, tx, n, key, hashType)

\* Mutant: SIGHASH_NONE leaves the outputs out.
HashForWitnessV0ByType(tx, n, value, hashType) ==
    LET ins == WitnessTxToBuffer(tx).ins
    IN  <<"v0", tx.version,
          [i \in DOMAIN ins |-> <<ins[i].hash, ins[i].index>>],
          IF hashType = NoOutput THEN <<>>
          ELSE [i \in DOMAIN ins |-> ins[i].sequence],
          <<ins[n].hash, ins[n].index>>, tx.vins[n].script, value,
          tx.vins[n].sequence, IF hashType = NoOutput THEN <<>> ELSE tx.vouts,
          tx.locktime, hashType>>

\* BIP143, for an input that spends a witness program.
HashForWitnessV0(tx, n, value, hashType) ==
    LET ins == WitnessTxToBuffer(tx).ins
    IN  <<"v0", tx.version,
          [i \in DOMAIN ins |-> <<ins[i].hash, ins[i].index>>],
          [i \in DOMAIN ins |-> ins[i].sequence],
          <<ins[n].hash, ins[n].index>>, tx.vins[n].script, value,
          tx.vins[n].sequence, tx.vouts, tx.locktime, hashType>>
SignWitnessInput(tx, n, key, hashType, value) ==
    Signature(key, HashForWitnessV0(tx, n, value, hashType), hashType)

(***************************************************************************)
(* test2.js signs in place: the inputs lose their scripts for good.        *)
(***************************************************************************)
SignedInPlace(vins, vouts, n, key) ==
    LET left == Blanked(vins, n)
        wire == TxToBuffer([BaseTx EXCEPT !.vins = left, !.vouts = vouts])
    IN  [vins |-> left,
         sig |-> Signature(key, <<"legacy", wire, All>>, All)]
=============================================================================
