----------------------------- MODULE ChunkHash ------------------------------
(***************************************************************************)
(* hmac of hmac/main.go: a file is hashed by chunks from its end, every    *)
(* chunk with the hash of the one after it appended.  append writes into   *)
(* the array behind the slice where its capacity allows, over bytes of the *)
(* file that come after the chunk.                                         *)
(***************************************************************************)
EXTENDS Integers, Sequences

CONSTANTS
    ChunkSize, \* 1024
    HashSize,  \* 32
    MaxLen     \* bound on the length of the file

ASSUME SizesAssumption ==
    ChunkSize \in Nat \ {0} /\ HashSize \in Nat \ {0} /\ MaxLen \in Nat

VARIABLES
    dataLen,    \* the length of the file
    data,       \* the array, to the end of its capacity
    startIndex, \* of the next chunk
    endIndex,   \* of the next chunk
    hash,       \* of the chunk before, in the order of the loop
    step        \* "start", "loop" or "returned"

vars == <<dataLen, data, startIndex, endIndex, hash, step>>

Byte(k) == <<"byte", k>>
Zero == <<"zero">>
\* The bytes of a hash: zeros before there is one.
HashByte(h, k) == <<"hash", h, k>>
Sum(input) == <<"sum", input>>
Bytes(h) == [k \in 1 .. HashSize |-> HashByte(h, k)]
NoHash == <<"none">>

Init ==
    /\ dataLen \in 0 .. MaxLen
    /\ \E spare \in 0 .. ChunkSize :
          data = [k \in 1 .. dataLen + spare |->
                    IF k <= dataLen THEN Byte(k) ELSE Zero]
    /\ startIndex = 0 /\ endIndex = 0
    /\ hash = NoHash
    /\ step = "start"

\* The last chunk is what is left over, or a whole one.
Start ==
    /\ step = "start"
    /\ startIndex' = dataLen - (IF dataLen % ChunkSize = 0 THEN ChunkSize
                                ELSE dataLen % ChunkSize)
    /\ endIndex' = dataLen
    /\ step' = "loop"
    /\ UNCHANGED <<dataLen, data, hash>>

Chunk == SubSeq(data, startIndex + 1, endIndex)

\* Mutant: the hash is put in front of the chunk, in its array.
AppendedInFront ==
    [k \in 1 .. Len(data) |->
       IF k \in startIndex - HashSize + 1 .. startIndex
       THEN HashByte(hash, k - startIndex + HashSize) ELSE data[k]]

\* The array after append(chunk, hash): written where the capacity allows.
Appended ==
    IF endIndex + HashSize > Len(data) THEN data
    ELSE [k \in 1 .. Len(data) |->
            IF k \in endIndex + 1 .. endIndex + HashSize
            THEN HashByte(hash, k - endIndex) ELSE data[k]]

Loop ==
    /\ step = "loop" /\ startIndex >= 0
    /\ IF endIndex = dataLen
       THEN hash' = Sum(Chunk) /\ data' = data
       ELSE hash' = Sum(Chunk \o Bytes(hash)) /\ data' = Appended
    /\ endIndex' = startIndex
    /\ startIndex' = startIndex - ChunkSize
    /\ UNCHANGED <<dataLen, step>>

Return ==
    /\ step = "loop" /\ startIndex < 0
    /\ step' = "returned"
    /\ UNCHANGED <<dataLen, data, startIndex, endIndex, hash>>

Next == Start \/ Loop \/ Return

Spec == Init /\ [][Next]_vars

(***************************************************************************)
(* Properties                                                              *)
(***************************************************************************)
\* The chain that the comment at main.go:55 states, over the chunks of the file
\* as it was read: the last one alone, every other with the hash of the next.
Chunks == (dataLen + ChunkSize - 1) \div ChunkSize
FileChunk(k) ==
    [j \in 1 .. IF k = Chunks THEN dataLen - (k - 1) * ChunkSize ELSE ChunkSize
       |-> Byte((k - 1) * ChunkSize + j)]
Chain[k \in Nat] ==
    IF k >= Chunks THEN Sum(FileChunk(Chunks))
    ELSE Sum(FileChunk(k) \o Bytes(Chain[k + 1]))

\* Types of the variables; the chunks do not overlap and leave nothing out.
TypeOK ==
    /\ dataLen \in 0 .. MaxLen
    /\ step \in {"start", "loop", "returned"}
    /\ step = "loop" =>
         /\ endIndex % ChunkSize = 0 \/ endIndex = dataLen
         /\ startIndex < 0 \/ startIndex \in endIndex - ChunkSize .. endIndex - 1

\* append never writes over a byte that is still to be hashed.
UnhashedIntact ==
    step = "loop" => \A k \in 1 .. endIndex : data[k] = Byte(k)

\* What is returned is the first hash of the chain; of an empty file it is the
\* hash that was never computed.
HashIsChain ==
    step = "returned" => hash = IF dataLen = 0 THEN NoHash ELSE Chain[1]
=============================================================================
