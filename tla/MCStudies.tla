----------------------------- MODULE MCStudies ------------------------------
(***************************************************************************)
(* The studies of hashes, onions, ciphers and numbers, for TLC: ChunkHash, *)
(* Onion, BlockModes, DiscreteLog and Fermat.  A behaviour is one of one   *)
(* of them; the others stay where they are idle.                           *)
(*                                                                         *)
(* ChunkHash: a last chunk may be shorter than a hash.  Onion: a length of *)
(* 2 stands for one of 253, the first that ex2 writes in three bytes and   *)
(* ex1 reads in one.  BlockModes: messages of up to three blocks, full and *)
(* not; one start of the counter is at the end of its range.  DiscreteLog: *)
(* bases whose squares are below and above the order.  Fermat: squares,    *)
(* near and far factors, and ratios near 2 : 3.                            *)
(***************************************************************************)
EXTENDS ChunkHash

CONSTANTS
    MaxHops, DataLens, Versions, Limit,
    Block, MaxMessage, Counters, StartCounts,
    Primes, Bs,
    MaxFactor

VARIABLES
    onion, version, route, info, nodeIds, lastHmac, lastPayload, packet,
        nodeKeys, read, phase, damaged,
    blockmode, message, modeStep, input, capacity, i, iv, chain, output,
        cipher,
    search, p, g, h, B, x, x1, lookup, x0, searchStep, result,
    test, f1, f2, A, factor1, factor2, testStep,
    program  \* "chunks", "onion", "modes", "dlog" or "fermat"

Onions == INSTANCE Onion WITH variant <- onion, data <- route
Modes == INSTANCE BlockModes WITH step <- modeStep, MaxLen <- MaxMessage
Dlog == INSTANCE DiscreteLog WITH variant <- search, step <- searchStep
Factoring == INSTANCE Fermat WITH variant <- test, step <- testStep,
                                  p <- factor1, q <- factor2

ASSUME RouteAssumption ==
    DataLens \subseteq Nat /\ MaxHops \in Nat /\ Limit \in Nat
ASSUME ModesAssumption ==
    /\ Block \in Nat \ {0} /\ MaxMessage \in Nat
    /\ Counters \in Nat \ {0} /\ StartCounts \subseteq 0 .. Counters - 1
ASSUME FactorsAssumption == MaxFactor \in Nat
ASSUME LogarithmAssumption ==
    (\A n \in Primes : Dlog!IsPrime(n)) /\ Bs \subseteq Nat \ {0}

onionVars == <<onion, version, route, info, nodeIds, lastHmac, lastPayload,
               packet, nodeKeys, read, phase, damaged>>
modesVars == <<blockmode, message, modeStep, input, capacity, i, iv, chain,
               output, cipher>>
dlogVars == <<search, p, g, h, B, x, x1, lookup, x0, searchStep, result>>
fermatVars == <<test, f1, f2, A, factor1, factor2, testStep>>
all == <<vars, onionVars, modesVars, dlogVars, fermatVars, program>>

LensOfData == {0, 1, 2}

ChunksIdle == Init /\ dataLen = 0 /\ data = <<>>
OnionIdle == Onions!Init /\ onion = "ex1" /\ version = 0 /\ route = << <<>> >>
ModesIdle ==
    /\ Modes!Init /\ blockmode = "CBC" /\ capacity = 1
    /\ iv = Modes!Iv(0)
DlogIdle == Dlog!Init /\ search = "go1" /\ p = 11 /\ g = 1 /\ B = 3 /\ x = 1
FermatIdle == Factoring!Init /\ test = "test1" /\ f2 = 3

InitAny ==
    \/ /\ program = "chunks"
       /\ OnionIdle /\ ModesIdle /\ DlogIdle /\ FermatIdle /\ Init
    \/ /\ program = "onion"
       /\ ChunksIdle /\ ModesIdle /\ DlogIdle /\ FermatIdle /\ Onions!Init
    \/ /\ program = "modes"
       /\ ChunksIdle /\ OnionIdle /\ DlogIdle /\ FermatIdle /\ Modes!Init
    \/ /\ program = "dlog"
       /\ ChunksIdle /\ OnionIdle /\ ModesIdle /\ FermatIdle /\ Dlog!Init
    \/ /\ program = "fermat"
       /\ ChunksIdle /\ OnionIdle /\ ModesIdle /\ DlogIdle /\ Factoring!Init

NextAny ==
    \/ program = "chunks" /\ Next
       /\ UNCHANGED <<onionVars, modesVars, dlogVars, fermatVars, program>>
    \/ program = "onion" /\ Onions!Next
       /\ UNCHANGED <<vars, modesVars, dlogVars, fermatVars, program>>
    \/ program = "modes" /\ Modes!Next
       /\ UNCHANGED <<vars, onionVars, dlogVars, fermatVars, program>>
    \/ program = "dlog" /\ Dlog!Next
       /\ UNCHANGED <<vars, onionVars, modesVars, fermatVars, program>>
    \/ program = "fermat" /\ Factoring!Next
       /\ UNCHANGED <<vars, onionVars, modesVars, dlogVars, program>>

\* What a synchronous program does next, forging left out.
RunsOn ==
    /\ \/ /\ program = "onion"
          /\ \/ Onions!Build1 \/ Onions!Build2 \/ Onions!Built
             \/ Onions!Read1 \/ Onions!Read2
          /\ UNCHANGED <<vars, modesVars, dlogVars, fermatVars>>
       \/ /\ program = "fermat" /\ Factoring!Next
          /\ UNCHANGED <<vars, onionVars, modesVars, dlogVars>>
    /\ UNCHANGED program

SpecAny == InitAny /\ [][NextAny]_all /\ WF_all(RunsOn)

\* The hash of hmac/main.go is that of the chain over the chunks of the file
\* as it was read, although append writes into its array: it never writes
\* over a byte that is still to be hashed.
HashIsTheChains == TypeOK /\ UnhashedIntact /\ HashIsChain

\* The hops of an onion read their data in the order of the route, and the
\* last of them ends it: in ex2 whatever happened to the packet on its way,
\* in ex1 when nothing did and the lengths fit in a byte.  A route ends early
\* only by a damaged unit, by a version other than 0, which a hop of ex2
\* writes 0 over before it passes the packet on (ex2/index.ts 87), or by a
\* length of 253 or more, of which ex1 reads one byte (ex1/index.ts 40).
HopsReadTheirData ==
    Onions!TypeOK /\ Onions!HopsReadTheirData /\ Onions!ThrowsForAReason

\* No damage passes the HMAC: the hop that gets a damaged packet throws,
\* unless writing 0 over another version repairs it.
DamageIsThrown == Onions!DamageIsThrown

\* What a block mode printed decrypts to the message, in CTR for every length,
\* in CBC for every length that is no multiple of the block; it is what the
\* mode defines.  A panic is caused by a buffer shorter than the blocks that
\* are counted, one too many for whole blocks in CTR (WholeBlocksFit), or by
\* CBC's unencrypted padding.
ModesRoundTrip ==
    /\ Modes!TypeOK /\ Modes!RoundTrip
    /\ Modes!CipherIsReference /\ Modes!PanicHasACause

\* The meet in the middle prints a logarithm of h or nothing, and finds every
\* exponent from 3 B + 1 on, where the table and the search meet.  One below may
\* be missed, where the README promises every exponent from 1 on: x0 is
\* increased from 2 before it is used (go1/main.go 94).
LogarithmFound == Dlog!TypeOK /\ Dlog!Sound /\ Dlog!FoundFromThreeB

\* Each factoring search finds the factors under the condition that the
\* README of primes states, less two cases: equal factors, where test1 starts
\* one above the root (test1/main.go 22), and in test3 a ratio on the other
\* side of 2 : 3, where the wrong product is divided by six (test3/main.go 33).
FactorsFound ==
    /\ Factoring!TypeOK /\ Factoring!NearIsFound
    /\ Factoring!NearestIsFound /\ Factoring!RatioIsFound

\* The loop of the driver gets a packet to its end or throws, and the search
\* of test2 finds factors of every odd number.
StudiesEnd ==
    /\ program = "onion" => Onions!RouteEnds
    /\ program = "fermat" => Factoring!SearchEnds

\* The number of blocks of a message of whole blocks is reduced by one, so
\* that its buffer is long enough (ctr.go 22 to 29 and 92 to 99).
WholeBlocksFit ==
    blockmode = "CTR" /\ Len(input) % Block = 0 => modeStep # "panic"
=============================================================================
