----------------------------- MODULE BlockModes -----------------------------
(***************************************************************************)
(* blockmode: one run of the command encrypts a message, a second one      *)
(* decrypts what the first printed.  A byte is the set of the terms it is  *)
(* the exclusive or of, AES a free constructor with its inverse.  A slice  *)
(* may reach past the length of a buffer up to its capacity, and panics    *)
(* past that.                                                              *)
(***************************************************************************)
EXTENDS Integers, Sequences

CONSTANTS
    Block,      \* bytes in a block (16)
    MaxLen,     \* bound on the length of a message
    Counters,   \* values of the counter in the iv (2^64)
    StartCounts \* counters a first iv may have

VARIABLES
    blockmode, \* the flag
    message,   \* the plaintext
    step,      \* "flags", "encrypt", "cipher", "decrypt", "done" or "panic"
    input,     \* the bytes that the function works on
    capacity,  \* of the buffer they are in
    i,         \* of the loop
    iv,        \* the initialization vector
    chain,     \* cin and c of CBC, ivBytes of CTR
    output,    \* what the function has appended so far
    cipher     \* what the run that encrypts printed

vars == <<blockmode, message, step, input, capacity, i, iv, chain, output,
          cipher>>
run == <<blockmode, message, iv>>

(***************************************************************************)
(* Bytes and blocks                                                        *)
(***************************************************************************)
Num(n) == IF n = 0 THEN {} ELSE {<<"num", n>>}
XorByte(a, b) == (a \ b) \cup (b \ a)
Xor(a, b) == [j \in 1 .. Len(a) |-> XorByte(a[j], b[j])]
Aes(block) == [j \in 1 .. Block |-> {<<"aes", block, j>>}]
Terms(block) ==
    {atom[2] : atom \in {atom \in block[1] : atom[1] = "aes"}}
AesInverse(block) ==
    IF \E plain \in Terms(block) : block = Aes(plain)
    THEN CHOOSE plain \in Terms(block) : block = Aes(plain)
    ELSE [j \in 1 .. Block |-> {<<"inverse", block, j>>}]
Iv(count) == [j \in 1 .. Block |-> {<<"iv", count, j>>}]
Count(block) == CHOOSE count \in 0 .. Counters - 1 : block = Iv(count)

Incremented(block) == Iv((Count(block) + 1) % Counters)

\* What a byte is as a number: a byte that is no number may be any.
Values(byte) ==
    {n \in 0 .. 2 * Block : byte = Num(n)} \cup
    {n \in 0 .. 2 * Block : \A k \in 0 .. Block : byte # Num(k)}

\* The slice of block k, counted from 0; past the length the buffer has zeros.
Slice(k) ==
    [j \in 1 .. Block |->
       IF k * Block + j <= Len(input) THEN input[k * Block + j] ELSE Num(0)]

Fits(k) == (k + 1) * Block <= capacity

Init ==
    /\ blockmode \in {"CBC", "CTR", "cbc", "ctr"}
    /\ \E len \in 1 .. MaxLen : message = [j \in 1 .. len |-> {<<"byte", j>>}]
    /\ step = "flags"
    /\ input = message
    /\ capacity \in Len(message) .. Len(message) + Block
    /\ i = 0
    /\ \E count \in StartCounts : iv = Iv(count)
    /\ chain = iv
    /\ output = <<>>
    /\ cipher = <<>>

\* main: the two modes it knows are written in capitals.  CTREncrypt starts
\* its output with the iv, CBCEncrypt prepends it at the end.
Main ==
    /\ step = "flags"
    /\ step' = IF blockmode \in {"CBC", "CTR"} THEN "encrypt" ELSE "done"
    /\ output' = IF blockmode = "CTR" THEN chain ELSE <<>>
    /\ UNCHANGED <<run, input, capacity, i, chain, cipher>>

Panic ==
    /\ step' = "panic"
    /\ UNCHANGED <<run, input, capacity, i, chain, output, cipher>>

(***************************************************************************)
(* CBC                                                                     *)
(***************************************************************************)
Padding == Block - (Len(input) % Block)
CbcBlocks ==
    IF Padding = Block THEN Len(input) \div Block ELSE Len(input) \div Block + 1

\* The last block, when it is not full, has the padding written over its end.
Padded(block) ==
    IF i = CbcBlocks - 1 /\ Padding < Block
    THEN [j \in 1 .. Block |->
            IF j > Block - Padding THEN Num(Padding) ELSE block[j]]
    ELSE block

CBCEncryptBlock ==
    /\ blockmode = "CBC" /\ step = "encrypt"
    /\ i < CbcBlocks
    /\ IF ~Fits(i) THEN Panic
       ELSE LET cout == Aes(Xor(chain, Padded(Slice(i)))) IN
            /\ chain' = cout
            /\ output' = output \o cout
            /\ i' = i + 1
            /\ UNCHANGED <<run, step, input, capacity, cipher>>

\* A message of whole blocks gets a block of padding that is not encrypted.
CBCEncryptEnd ==
    /\ blockmode = "CBC" /\ step = "encrypt"
    /\ i = CbcBlocks
    /\ cipher' = iv \o output \o
          (IF Padding = Block THEN [j \in 1 .. Block |-> Num(Block)] ELSE <<>>)
    /\ step' = "cipher"
    /\ UNCHANGED <<run, input, capacity, i, chain, output>>

CBCDecryptBlock ==
    /\ blockmode = "CBC" /\ step = "decrypt"
    /\ i < Len(input) \div Block
    /\ LET m == Xor(AesInverse(Slice(i)), chain) IN
       IF i # Len(input) \div Block - 1
       THEN /\ output' = output \o m
            /\ chain' = Slice(i)
            /\ i' = i + 1
            /\ UNCHANGED <<run, step, input, capacity, cipher>>
       ELSE \E padding \in Values(m[Block]) :
              IF padding > Block THEN Panic
              ELSE /\ output' = output \o SubSeq(m, 1, Block - padding)
                   /\ step' = "done"
                   /\ chain' = Slice(i)
                   /\ i' = i + 1
                   /\ UNCHANGED <<run, input, capacity, cipher>>

(***************************************************************************)
(* CTR: the two directions have the same loop                              *)
(***************************************************************************)
\* Mutant: one is taken off for every message.
CtrBlocksLess == Len(input) \div Block

\* The comment has one taken off for whole blocks; a remainder is never 16.
CtrBlocks == Len(input) \div Block + 1

CTRBlock ==
    /\ i < CtrBlocks
    /\ IF ~Fits(i) THEN Panic
       ELSE LET m == Xor(Slice(i), Aes(chain)) IN
            /\ output' = output \o
                  (IF i = CtrBlocks - 1 THEN SubSeq(m, 1, Len(input) % Block)
                                        ELSE m)
            /\ chain' = Incremented(chain)
            /\ i' = i + 1
            /\ UNCHANGED <<run, step, input, capacity, cipher>>

CTREncrypt ==
    /\ blockmode = "CTR" /\ step = "encrypt"
    /\ \/ CTRBlock
       \/ /\ i = CtrBlocks
          /\ cipher' = output
          /\ step' = "cipher"
          /\ UNCHANGED <<run, input, capacity, i, chain, output>>

CTRDecrypt ==
    /\ blockmode = "CTR" /\ step = "decrypt"
    /\ \/ CTRBlock
       \/ /\ i = CtrBlocks
          /\ step' = "done"
          /\ UNCHANGED <<run, input, capacity, i, chain, output, cipher>>

\* The second run: the first block of its argument is the iv.
Decrypt ==
    /\ step = "cipher"
    /\ step' = "decrypt"
    /\ chain' = SubSeq(cipher, 1, Block)
    /\ input' = SubSeq(cipher, Block + 1, Len(cipher))
    /\ \E spare \in 0 .. Block : capacity' = Len(cipher) - Block + spare
    /\ i' = 0
    /\ output' = <<>>
    /\ UNCHANGED <<run, cipher>>

Next ==
    \/ Main \/ Decrypt
    \/ CBCEncryptBlock \/ CBCEncryptEnd \/ CBCDecryptBlock
    \/ CTREncrypt \/ CTRDecrypt

Spec == Init /\ [][Next]_vars

(***************************************************************************)
(* Properties                                                              *)
(***************************************************************************)
Whole == Len(message) % Block = 0
CbcIn(k) ==
    [j \in 1 .. Block |->
       IF k * Block + j <= Len(message) THEN message[k * Block + j]
       ELSE Num(Block - (Len(message) % Block))]
Cbc[k \in Nat] ==
    IF k = 0 THEN iv ELSE Aes(Xor(CbcIn(k - 1), Cbc[k - 1]))
CtrCount(k) == (Count(iv) + k) % Counters

\* Types of the variables; the loop stays within the blocks it counted.
TypeOK ==
    /\ blockmode \in {"CBC", "CTR", "cbc", "ctr"}
    /\ step \in {"flags", "encrypt", "cipher", "decrypt", "done", "panic"}
    /\ Len(message) \in 1 .. MaxLen
    /\ capacity >= Len(input)
    /\ i \in 0 .. Len(input) \div Block + 1

\* Decrypting gives the message back, in CTR for every length, in CBC for
\* every length that is no multiple of the block.
RoundTrip ==
    step = "done" /\ (blockmode = "CTR" \/ (blockmode = "CBC" /\ ~Whole)) =>
        output = message

\* What is printed is the block mode: in CBC every block is AES of the padded
\* message's block and the cipher block before it; in CTR a byte of message k
\* is hidden by the byte of AES of the iv with its counter, as 64 bits, moved
\* on by k.
CipherIsReference ==
    step = "cipher" =>
        /\ blockmode = "CBC" /\ ~Whole =>
             \A k \in 0 .. Len(cipher) \div Block - 1 :
                SubSeq(cipher, k * Block + 1, (k + 1) * Block) = Cbc[k]
        /\ blockmode = "CTR" =>
             /\ Len(cipher) = Len(message) + Block
             /\ \A j \in 0 .. Len(message) - 1 :
                  cipher[Block + j + 1] =
                    XorByte(message[j + 1],
                            Aes(Iv(CtrCount(j \div Block)))[(j % Block) + 1])

\* A panic has one of two causes: the buffer is shorter than the blocks that
\* are counted, which in CTR are one too many for a message of whole blocks;
\* or CBC decrypts the padding block that was never encrypted.
PanicHasACause ==
    step = "panic" =>
        \/ capacity < Block * (Len(input) \div Block + 1)
        \/ blockmode = "CBC" /\ Whole
=============================================================================
