------------------------------- MODULE Streams -------------------------------
(***************************************************************************)
(* The server of general/streams.js, which prints what it receives in      *)
(* chunks of Size bytes.  Every socket's data handler pushes onto the one  *)
(* list buffers and then reads at most one chunk.  A byte is its           *)
(* connection and its place in it.                                         *)
(***************************************************************************)
EXTENDS Naturals, FiniteSets, Sequences, SequencesExt

CONSTANTS
  Conns,     \* the connections
  Size,      \* bytes of a chunk, 8 in the code
  MaxPiece,  \* bound on the bytes of one data event
  MaxBytes   \* bound on the bytes of a connection

ASSUME StreamsAssumption ==
  Size \in Nat \ {0} /\ MaxPiece \in Nat \ {0} /\ MaxBytes \in Nat

VARIABLES
  pieces,   \* the data events so far, each the bytes it brought
  buffers,  \* the global list of what has not been read
  printed   \* the chunks printed

vars == <<pieces, buffers, printed>>

Byte == [conn : Conns, at : 1..MaxBytes]

TypeOK ==
  /\ pieces \in Seq(Seq(Byte))
  /\ buffers \in Seq(Seq(Byte))
  /\ printed \in Seq([1..Size -> Byte])

Init == pieces = << >> /\ buffers = << >> /\ printed = << >>

Received(c) ==
  LET all == FlattenSeq(pieces)
  IN Cardinality({i \in 1..Len(all) : all[i].conn = c})

(* The loop sums the lengths; its early return changes nothing: the sum    *)
(* only grows.                                                             *)
HasLength(bs, len) == Len(FlattenSeq(bs)) >= len

(* Mutant: what is left of a buffer starts at the last byte read.          *)
ReadFromBuffersRereads(bs, len) ==
  LET read[k \in 0..Len(bs)] ==
        IF k = 0 THEN [result |-> << >>, rest |-> << >>]
        ELSE LET r == read[k - 1]
                 b == bs[k]
                 n == IF Len(b) < len - Len(r.result) THEN Len(b)
                      ELSE len - Len(r.result)
             IN [result |-> r.result \o SubSeq(b, 1, n),
                 rest |-> IF n = 0 THEN Append(r.rest, b)
                          ELSE IF n < Len(b)
                               THEN Append(r.rest, SubSeq(b, n, Len(b)))
                               ELSE r.rest]
  IN read[Len(bs)]

(* Each buffer in turn gives what is still missing, or all it has; what    *)
(* it has left stays in the list.                                          *)
ReadFromBuffers(bs, len) ==
  LET read[k \in 0..Len(bs)] ==
        IF k = 0 THEN [result |-> << >>, rest |-> << >>]
        ELSE LET r == read[k - 1]
                 b == bs[k]
                 missing == len - Len(r.result)
                 n == IF Len(b) < missing THEN Len(b) ELSE missing
             IN [result |-> r.result \o SubSeq(b, 1, n),
                 rest |-> IF n < Len(b)
                          THEN Append(r.rest, SubSeq(b, n + 1, Len(b)))
                          ELSE r.rest]
  IN read[Len(bs)]

OnData(c, n) ==
  /\ Received(c) + n <= MaxBytes
  /\ LET d == [i \in 1..n |-> [conn |-> c, at |-> Received(c) + i]]
         bs == Append(buffers, d)
         read == ReadFromBuffers(bs, Size)
     IN /\ pieces' = Append(pieces, d)
        /\ IF HasLength(bs, Size)
           THEN printed' = Append(printed, read.result) /\ buffers' = read.rest
           ELSE buffers' = bs /\ UNCHANGED printed

Next == \E c \in Conns, n \in 1..MaxPiece : OnData(c, n)

Spec == Init /\ [][Next]_vars

(***************************************************************************)
(* Properties.                                                             *)
(***************************************************************************)

(* Read one after the other, the chunks printed and the buffers left are   *)
(* the bytes received, in order, none lost and none twice, and no buffer   *)
(* left is empty.  (The three branches of readFromBuffers, 34-49.)         *)
ChunksInOrder ==
  /\ FlattenSeq(printed) \o FlattenSeq(buffers) = FlattenSeq(pieces)
  /\ \A i \in 1..Len(buffers) : buffers[i] # << >>

(* The handler reads one chunk per event, and keeps up as long as no event *)
(* brings more than a chunk: less than a chunk is left over.               *)
KeepsUp ==
  (\A i \in 1..Len(pieces) : Len(pieces[i]) <= Size) =>
    Len(FlattenSeq(buffers)) < Size

(* The list is shared by all sockets.  A chunk mixes two connections only  *)
(* if some data event was not a number of whole chunks.                    *)
MixedMeansPartial ==
  (\A i \in 1..Len(pieces) : Len(pieces[i]) % Size = 0) =>
    \A i \in 1..Len(printed) : \A j, k \in 1..Size :
      printed[i][j].conn = printed[i][k].conn
=============================================================================
