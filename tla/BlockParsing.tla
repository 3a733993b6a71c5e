---------------------------- MODULE BlockParsing ----------------------------
(***************************************************************************)
(* parseBlock of bitcoin/bitcoin-block.js and parseScript of               *)
(* bitcoin-script.js, a field at a time, over a buffer that may be cut     *)
(* short.  A byte that is not part of a number is named by its field; the  *)
(* numbers of a block are written in bytes of Base values.                 *)
(***************************************************************************)
EXTENDS Integers, Sequences, SequencesExt

CONSTANTS
    Base,       \* the values of a byte: 256, fewer to reach the long numbers
    TxCounts,   \* numbers of transactions; only the first is parsed
    MaxInOut,   \* bound on the inputs and on the outputs of a transaction
    ScriptLens, \* lengths of the scripts, none of them 2
    Cuts,       \* numbers of bytes that are missing at the end
    Scripts     \* the scripts for parseScript: sequences of 0 .. 255

VARIABLES
    task,     \* "block" or "script"
    shape,    \* what the block was written with: its counts and lengths
    buffer,   \* the bytes
    position, \* of the iterator
    left,     \* inputs or outputs still to be read
    parsed,   \* the fields read so far; of a script its stack
    step      \* what comes next, "returned" or "threw"

vars == <<task, shape, buffer, position, left, parsed, step>>

Num(n) == <<"n", n>>
Field(name, i, width) == [k \in 1 .. width |-> <<name, i, k>>]
Value(byte) == IF byte[1] = "n" THEN byte[2] ELSE 0

(***************************************************************************)
(* The writer: any number in any of the forms that can hold it, the low    *)
(* byte first.  The last three values of a byte mark the longer forms.     *)
(***************************************************************************)
Mark3 == Base - 3
Mark5 == Base - 2
Mark9 == Base - 1

\* What is left of a number above its lowest 2, 4 and 8 bytes.
Above2(n) == (n \div Base) \div Base
Above4(n) == Above2(Above2(n))
Above8(n) == Above4(Above4(n))
Fits(n) == Above8(n) = 0

Low2(n) == <<Num(n % Base), Num((n \div Base) % Base)>>
Low4(n) == Low2(n) \o Low2(Above2(n))
Low8(n) == Low4(n) \o Low4(Above4(n))

VarInt(n, form) ==
    CASE form = 1 -> <<Num(n)>>
      [] form = 3 -> <<Num(Mark3)>> \o Low2(n)
      [] form = 5 -> <<Num(Mark5)>> \o Low4(n)
      [] form = 9 -> <<Num(Mark9)>> \o Low8(n)

\* The shortest form that holds a number, and the one it is written in.
Shortest(n) ==
    CASE n < Mark3 -> 1
      [] n >= Mark3 /\ Above2(n) = 0 -> 3
      [] Above2(n) # 0 /\ Above4(n) = 0 -> 5
      [] OTHER -> 9
FormOf(n, form) == IF Shortest(n) > form THEN Shortest(n) ELSE form

Header == <<Field("version", 0, 4), Field("hashPreviousBlock", 0, 32),
            Field("hashMerkleRoot", 0, 32), Field("time", 0, 4),
            Field("bits", 0, 4), Field("nonce", 0, 4)>>
Input(i, s) ==
    <<Field("hash", i, 32), Field("index", i, 4), Num(s.len),
      Field("sig", i, s.len), Field("seq", i, 4)>>
Output(i, s) ==
    <<Field("value", i, 8), Num(s.len), Field("script", i, s.len)>>
\* The fields of the header and of the first transaction.
Fields(s) ==
    Header \o <<Num(s.txs)>>
      \o <<Field("txVersion", 0, 4), Num(s.ins)>>
      \o FlattenSeq([i \in 1 .. s.ins |-> Input(i, s)])
      \o <<Num(s.outs)>>
      \o FlattenSeq([i \in 1 .. s.outs |-> Output(i, s)])
\* No other field is of two bytes: ScriptLens leaves the length out.
IsNumber(field) == Len(field) = 2
Written(s) ==
    LET fields == Fields(s) IN
    FlattenSeq([k \in 1 .. Len(fields) |->
                  IF IsNumber(fields[k])
                  THEN VarInt(fields[k][2], FormOf(fields[k][2], s.form))
                  ELSE fields[k]])

Init ==
    /\ left = 0
    /\ position = 1
    /\ parsed = <<>>
    /\ \/ /\ task = "block" /\ step = "header"
          /\ \E txs \in TxCounts, ins \in 0 .. MaxInOut, outs \in 0 .. MaxInOut,
                len \in ScriptLens, form \in {1, 3, 5, 9}, cut \in Cuts :
               /\ shape = [txs |-> txs, ins |-> ins, outs |-> outs,
                           len |-> len, form |-> form, cut |-> cut]
               /\ LET whole == Written(shape) \o Field("lock_time", 0, 4) IN
                  buffer = SubSeq(whole, 1, Len(whole) - cut)
       \/ /\ task = "script" /\ step = "opcode"
          /\ shape = [txs |-> 0]
          /\ \E script \in Scripts :
               buffer = [k \in 1 .. Len(script) |-> Num(script[k])]

(***************************************************************************)
(* Reading.  Past the end of a block the iterator has no value to take     *)
(* apart, and throws; past the end of a script it gives zeros.             *)
(***************************************************************************)
At(p) == IF p <= Len(buffer) THEN buffer[p] ELSE Num(0)
Bytes(p, n) == [k \in 1 .. n |-> At(p + k - 1)]

\* The three decodings of varint: a shift, readUInt32LE, and swap64 with the
\* hex digits of what it gives, highest byte first.
Shift(p) == Value(At(p)) + Base * Value(At(p + 1))
ReadUInt32LE(b) ==
    Value(b[1]) + Base * (Value(b[2]) + Base * (Value(b[3]) + Base * Value(b[4])))

\* Mutant: the bytes are left in the order they came.
Swap64Unswapped(b) == [k \in 1 .. 8 |-> b[k]]
Swap64(b) == [k \in 1 .. 8 |-> b[9 - k]]
FromHex(b) ==
    LET value[k \in 0 .. 8] ==
            IF k = 0 THEN 0 ELSE Base * value[k - 1] + Value(b[k])
    IN  value[8]

VarIntWidth(p) ==
    CASE Value(At(p)) < Mark3 -> 1
      [] Value(At(p)) = Mark3 -> 3
      [] Value(At(p)) = Mark5 -> 5
      [] OTHER -> 9
VarIntAt(p) ==
    CASE VarIntWidth(p) = 1 -> Value(At(p))
      [] VarIntWidth(p) = 3 -> Shift(p + 1)
      [] VarIntWidth(p) = 5 -> ReadUInt32LE(Bytes(p + 1, 4))
      [] OTHER -> FromHex(Swap64(Bytes(p + 1, 8)))

Read(fields, width, next, count) ==
    IF position + width - 1 > Len(buffer)
    THEN step' = "threw" /\ UNCHANGED <<task, shape, buffer, position, left, parsed>>
    ELSE /\ parsed' = parsed \o fields
         /\ position' = position + width
         /\ step' = next
         /\ left' = count
         /\ UNCHANGED <<task, shape, buffer>>

\* parseBlock up to the transactions: the count is read, one is parsed.
ParseHeader ==
    /\ step = "header"
    /\ Read(<<Bytes(position, 4), Bytes(position + 4, 32),
              Bytes(position + 36, 32), Bytes(position + 68, 4),
              Bytes(position + 72, 4), Bytes(position + 76, 4),
              Num(VarIntAt(position + 80))>>,
            80 + VarIntWidth(position + 80), "tx", 0)

\* parseTxs: the version and the number of inputs.
ParseTxStart ==
    /\ step = "tx"
    /\ Read(<<Bytes(position, 4), Num(VarIntAt(position + 4))>>,
            4 + VarIntWidth(position + 4), "inputs", VarIntAt(position + 4))

ParseTxInput ==
    /\ step = "inputs" /\ left > 0
    /\ LET scriptLength == VarIntAt(position + 36)
           sig == position + 36 + VarIntWidth(position + 36) IN
       Read(<<Bytes(position, 32), Bytes(position + 32, 4), Num(scriptLength),
              Bytes(sig, scriptLength), Bytes(sig + scriptLength, 4)>>,
            sig + scriptLength + 4 - position, "inputs", left - 1)

ParseOutCount ==
    /\ step = "inputs" /\ left = 0
    /\ Read(<<Num(VarIntAt(position))>>, VarIntWidth(position),
            "outputs", VarIntAt(position))

ParseTxOutput ==
    /\ step = "outputs" /\ left > 0
    /\ LET scriptLength == VarIntAt(position + 8)
           script == position + 8 + VarIntWidth(position + 8) IN
       Read(<<Bytes(position, 8), Num(scriptLength),
              Bytes(script, scriptLength)>>,
            script + scriptLength - position, "outputs", left - 1)

\* The lock time, and the other transactions, are left in the iterator.
ReturnBlock ==
    /\ step = "outputs" /\ left = 0
    /\ step' = "returned"
    /\ UNCHANGED <<task, shape, buffer, position, left, parsed>>

\* A turn of parseScript: a push, OP_CHECKSIG or something unknown.
ParseOpcode ==
    /\ step = "opcode" /\ position <= Len(buffer)
    /\ LET byte == Value(At(position)) IN
       IF byte \in 1 .. 75
       THEN /\ parsed' = Append(parsed, <<"data", Bytes(position + 1, byte)>>)
            /\ position' = position + 1 + byte
       ELSE /\ parsed' = Append(parsed, IF byte = 172 THEN <<"OP_CHECKSIG">>
                                        ELSE <<"UNKNOWN", byte>>)
            /\ position' = position + 1
    /\ UNCHANGED <<task, shape, buffer, left, step>>

ReturnScript ==
    /\ step = "opcode" /\ position > Len(buffer)
    /\ step' = "returned"
    /\ UNCHANGED <<task, shape, buffer, position, left, parsed>>

Next ==
    \/ ParseHeader \/ ParseTxStart \/ ParseTxInput \/ ParseOutCount
    \/ ParseTxOutput \/ ReturnBlock
    \/ ParseOpcode \/ ReturnScript

Spec == Init /\ [][Next]_vars

(***************************************************************************)
(* Properties                                                              *)
(***************************************************************************)
Script(stack) ==
    FlattenSeq([k \in 1 .. Len(stack) |->
       CASE stack[k][1] = "data" -> <<Num(Len(stack[k][2]))>> \o stack[k][2]
         [] stack[k][1] = "OP_CHECKSIG" -> <<Num(172)>>
         [] stack[k][1] = "UNKNOWN" -> <<Num(stack[k][2])>>])

\* Types of the variables.
TypeOK ==
    /\ task \in {"block", "script"}
    /\ position \in Nat \ {0} /\ left \in Nat
    /\ step \in {"header", "tx", "inputs", "outputs", "opcode", "returned",
                 "threw"}
    /\ task = "block" => position <= Len(buffer) + 1

\* A block is parsed into the fields that it was written with, whichever form
\* its numbers have; what is returned is the first transaction, whole.
ParsedAsWritten ==
    task = "block" =>
        /\ IsPrefix(parsed, Fields(shape))
        /\ step = "returned" => parsed = Fields(shape)

\* The bytes of a number as the comment of varint counts them, up to 0xFD and
\* 0xFD included in one.
Stated(n) == IF n <= Mark3 THEN 1 ELSE Shortest(n)
NumbersAsStated ==
    task = "block" /\ step = "tx" /\ shape.form = 1 =>
        position = 81 + Stated(shape.txs)

\* A block that ends within a field that is read is thrown out, and no other:
\* without its lock time it is still read.
ThrownWhenCut ==
    task = "block" =>
        /\ step = "threw" => shape.cut > 4
        /\ step = "returned" => shape.cut <= 4

\* The stack of a script spells the script, with zeros for the end of a push
\* that the script is too short for.
StackSpellsScript ==
    task = "script" =>
        /\ \A k \in 1 .. Len(Script(parsed)) :
             Script(parsed)[k] = IF k <= Len(buffer) THEN buffer[k] ELSE Num(0)
        /\ step = "returned" => Len(Script(parsed)) >= Len(buffer)
=============================================================================
