---------------------------- MODULE MCChainData -----------------------------
(***************************************************************************)
(* The data structures of bitcoin/ for TLC: the Merkle root (MerkleTree)   *)
(* and the parsers of blocks and scripts (BlockParsing).  Lists of up to   *)
(* 11 hashes are odd at one level or at several; a third call sees a list  *)
(* that two have padded.  A byte of a number has 8 values, so that the     *)
(* counts are on both sides of every boundary of a varint: 5 is the first  *)
(* in three bytes, 64 in five and 4096 in nine, and 2739128 fills all of   *)
(* its eight bytes.  The buffers are cut in the lock time, in the last     *)
(* output and before it.                                                   *)
(***************************************************************************)
EXTENDS MerkleTree

CONSTANTS Base, TxCounts, MaxInOut, ScriptLens, Cuts, Scripts

VARIABLES task, shape, buffer, position, left, parsed, step,
          program  \* "merkle" or "parsing"

Parsing == INSTANCE BlockParsing

\* Three values of a byte mark the longer forms of a number, and its longest
\* form holds every count and length; a script is bytes.
ASSUME ParsingAssumption ==
    /\ Base \in Nat /\ Base > 3
    /\ MaxInOut \in Nat /\ TxCounts \subseteq Nat /\ ScriptLens \subseteq Nat
    /\ \A n \in TxCounts \cup ScriptLens \cup 0 .. MaxInOut : Parsing!Fits(n)
    /\ \A len \in ScriptLens : len # 2
    /\ Cuts \subseteq Nat /\ Scripts \subseteq Seq(0 .. 255)

parsingVars == <<task, shape, buffer, position, left, parsed, step>>
all == <<vars, parsingVars, program>>

CountsAtBoundary == {1, 4, 5, 63, 64, 4095, 4096, 2739128}
LensAtBoundary == {0, 4, 5, 63, 64}
CutsInFields == {0, 4, 5, 13, 60}
ShortScripts == UNION {[1 .. n -> {0, 1, 2, 76, 172}] : n \in 0 .. 4}

InitAny ==
    /\ \/ program = "merkle" /\ task = "script" /\ buffer = <<>>
       \/ program = "parsing" /\ size = 0
    /\ Init /\ Parsing!Init

NextAny ==
    \/ program = "merkle" /\ Next
       /\ UNCHANGED <<parsingVars, program>>
    \/ program = "parsing" /\ Parsing!Next
       /\ UNCHANGED <<vars, program>>

RunsOn ==
    /\ program = "merkle" /\ (RecurseNodes \/ Return \/ Overflow)
    /\ UNCHANGED <<parsingVars, program>>

SpecAny == InitAny /\ [][NextAny]_all /\ WF_all(RunsOn)

\* Every call of merkleRoot returns the root of the tree over the leaves the
\* list was made with, also the second one, which finds the leaf that the
\* first one pushed; only an empty list throws, and no other needs more calls
\* than the height of its tree.
RootIsTheTrees == TypeOK /\ RootIsReference /\ DepthIsHeight

\* A block is parsed into the fields that it was written with, whichever form
\* its numbers have (bitcoin-block.js); one that ends within a field that is
\* read is thrown out, and no other.  The stack of a script spells the script
\* (bitcoin-script.js), with zeros for the end of a push that is cut short.
ParsedAsWritten ==
    /\ Parsing!TypeOK /\ Parsing!ParsedAsWritten
    /\ Parsing!ThrownWhenCut /\ Parsing!StackSpellsScript

\* A number up to 0xFD takes one byte, and those above as many as their form
\* (the comment of varint, bitcoin-block.js).
NumbersAsStated == Parsing!NumbersAsStated
=============================================================================
