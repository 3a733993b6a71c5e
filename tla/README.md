# crypto-playpen in TLA+

TLA+ models of the programs in `bmancini55/crypto-playpen`, checked with TLC, and proofs about
them checked with TLAPS. The repository is a collection: a Lightning node's transport, peer
connection and messages (`lightning/`), and separate studies of Bitcoin data structures, raw
transactions, wallets, onion packets, block ciphers, hashing and number theory. Every part that has
logic of its own is modelled; the parts that are left out are listed at the end.

## Inventory

| Part | State | Operations | Interacts with | Hard behaviour | What makes it correct |
|---|---|---|---|---|---|
| NoiseState handshake (`lightning/noise-state.js` 6-113) | `h`, `ck`, keys | `initialize`, `initiatorAct1`, `initiatorAct2Act3` | PeerClient, the responder | failures half-way through act two | both ends derive the same keys; a refused act two cannot complete |
| NoiseState transport (`noise-state.js` 115-178) | `ck`, `sk`, `rk`, `sn`, `rn` | `encryptMessage`, `decryptLength`, `decryptMessage`, two rotations | PeerClient, a NoiseState at the other end | awaits inside a rotation, one chaining key for two directions | no nonce reuse, messages in order, none lost |
| PeerClient (`lightning/peer-client.js`) | `_buffer`, `l`, `completedAct`, the socket, the timer | `connect`, `sendMessage`, `ping`, `_onConnected`, `_onData`, `_onClose` | NoiseState, MessageRouter, TCP | fragmented and coalesced data, timer in every phase | every frame routed once and in order; init is first |
| MessageRouter (`lightning/message-handler.js`) | none | `routeMessage` | PeerClient | unawaited promise | one pong per ping |
| Messages (`lightning/messages/`, `buffer-reader.js`, `buffer-writer.js`) | a cursor | `serialize`, `deserialize` | PeerClient | offsets, 16-bit lengths, payloads cut short | what is written is read back; a cut payload throws |
| Wallet and application (`wallet.js`, `wallet-io.js`, `index.js`) | `wallet.dat` | look, generate, unlock | the file system, the user's prompt | a kill during a write, two processes | a process runs with what the file holds |
| BOLT 8 walk-through (`general/bolt-08.js`) | locals | one run of the initiator, 1002 messages | none | rotation limits | equal to NoiseState |
| Stream server (`general/streams.js`) | `buffers`, shared by all sockets | data handler, `hasLength`, `readFromBuffers` | TCP clients | chunking, two sockets | no byte lost or repeated, chunks of one connection |
| Merkle tree (`bitcoin/merkle-tree.js`) | the caller's list | `merkleRoot`, `recurseNodes` | none | odd levels pad the list in place, empty list | the reference root, also when called again |
| Blocks and scripts (`bitcoin/bitcoin-block.js`, `bitcoin-script.js`) | an iterator | `parseBlock`, `parseScript` | none | varint boundaries, buffers cut short | the fields written, or a throw |
| Segwit wallet (`bitcoin/segwit/`) | a file per wallet name | `key`, `address`, `tx`, `help` | the file system | check, then create; kills | a name has one key |
| Raw transactions (`bitcoin2/src/`) | a transaction under construction, a cursor | add, sign, serialise; scripts | the network's script machine | what a signature covers, buffer sizes, hand-made fees | the network accepts the spends |
| Onion packets (`onion/lib/`) | a packet | `build`, `read` | the hops in turn | nesting, HMACs, versions, lengths | each hop reads its own payload; damaged packets are refused |
| Block modes (`blockmode/`) | a buffer with a capacity | `CBCEncrypt`, `CBCDecrypt`, `CTREncrypt`, `CTRDecrypt` | none | padding, slices past a buffer | round trip |
| Chunk hash (`hmac/`) | an array that `append` writes into | `hmac` | none | aliasing of chunk and array | the hash of the chain |
| Number theory (`dlog/`, `primes/`) | a table, a middle | searches | none | boundaries of the loops | the solution is found |
| Attack exercises, coursework, library demonstrations | none | scripts over fixed data | none | none | not modelled |

How the Lightning parts interact: `net` calls `_onConnected`, `_onData` and `_onClose` of one
PeerClient; `_onData` calls NoiseState and `routeMessage`; `routeMessage` and the 60 second timer
call `sendMessage`, which calls `encryptMessage` and `socket.write`. Everything runs on one event
loop, so interleavings arise only at an `await`. The other studies do not call each other. The programs
of `bitcoin2` are chained by hand: each spends the output of a transaction an earlier one made.
The wallet programs share files, and nothing keeps two processes apart.

Everything hard to test is listed at its line under `hazards` in `PROJECT.json`, with the properties
that cover it.

## Modules

### Lightning

| Module | Models | State and actions |
|---|---|---|
| `NoiseState` | the transport fields and operations of one NoiseState | `ns[e]` below is the object: `ck`, `sk`, `rk`, `sn`, `rn` |
| `NoiseTransport` | two such objects and the socket between them | `EncryptMessage`, `DecryptLength`, `DecryptMessage` are the three async methods up to a rotation's `await hkdf`; `ResumeEncrypt`, `ResumeDecrypt` are the rest |
| `SecureChannel` | what the pair promises: messages in order | `Send`, `Deliver` |
| `NoiseTransportInv` | no code: the inductive invariants `ChannelInv` and `KeyInv` | |
| `PeerFraming` | `_onData` of an established session | `OnData` is one call of the handler; `pos`/`avail` are the ends of `_buffer`, `l` is `this.l` |
| `NoiseHandshake` | the handshake operations, symbolically, and the responder | operators on one NoiseState |
| `PeerSession` | the life of one PeerClient | one action per callback: `Connect`, `OnConnected`, `OnClose`, `Ping`, `OnHandshakeData`, `OnMessage`; the peer's actions |
| `WireMessages` | the eight message types, `BufferReader`, `BufferWriter`, the factory, `sendMessage` and the router's pong | a buffer is a sequence of bytes named by field and index; sending builds and serialises a message, receiving deserialises one whole or cut |
| `Bolt08` | the walk-through script | one action per act, for message 0 and for each pass of the loop; `NoiseHandshake` and `NoiseState` run beside it |
| `WalletFile` | `hasWallet`, `generateWallet`, `unlockWallet` over `wallet.dat` | one action per call between two awaits; `OpenFile`/`WriteFile` are the two halves of `fs.writeFile`; `Crash` |

### Bitcoin

| Module | Models | State and actions |
|---|---|---|
| `RawTransaction` | the functions every `example-*.js` carries: `compileScript`, the script builders, `calcTxBytes`, `txToBuffer`, `cloneTx`, `signInput`, `hashForWitnessV0`, `signWitnessInput` | operators: a transaction is a record, a script a sequence of opcodes and pushes, the wire a record of what the cursor writes |
| `ScriptMachine` | external: what the network checks of a transaction | operators over the wire alone |
| `TxSigning` | a transaction added to and signed in any order | one action per function that changes the transaction |
| `TxExamples` | the twenty programs, run by hand in any order, and the ledger | a step runs one program and submits what it prints |
| `MerkleTree` | `merkleRoot`, called again and again on one list | a call of `recurseNodes`, a return, the stack overflow |
| `BlockParsing` | `parseBlock` with all its readers, and `parseScript` | one action per field read from the iterator |
| `SegwitWallet` | the commands over the wallet files | one action per call into `fs`; a kill between any two |

### Ciphers, onions and numbers

| Module | Models | State and actions |
|---|---|---|
| `Onion` | both variants of `build` and `read`, and the driver's loop | a layer wrapped, a hop peeled; `Damage` is what may happen to a packet between two hops |
| `BlockModes` | CBC and CTR in both directions, `main` with its flag | one run encrypts, a second one decrypts what it printed; a slice may reach into the capacity and panics past it |
| `ChunkHash` | `hmac` of `hmac/main.go` | one action per pass of the loop; `data` is the array to the end of its capacity |
| `DiscreteLog` | both meet-in-the-middle programs | the table, then one action per power tried |
| `Fermat` | the first three factoring programs | one action per middle tried |

The modules `*_proofs` hold the theorems (see "What is proved"). Every component module has its own variables, `Init`, `Next` and
`Spec`. The `MC*` modules hold constants and specifications for TLC, and put related programs into one run:
`MCConnection`, `MCWallets`, `MCWire`, `MCChainData` and `MCStudies` extend one component, instantiate
the others and add a variable `program`, fixed at the start of a behaviour; the program it names takes its own
steps and the others keep their initial state, so a run explores the disjoint union of the programs.
`MCBitcoin` does so (with `study`) for `MCChainData`, `TxExamples` and `TxSigning`, and `MCNoiseTransport` for
three instances of one module under different constants (`mode`). `FramingConstants` and `SessionConstants` hold the
constants of `PeerFraming` and `PeerSession` with their assumptions, so that TLC evaluates these where the modules
are instantiated. A property of such a run conjoins related properties of one component, its type invariant among
them; each is a definition of its own in the component's module.

In each module a definition whose comment begins with "Mutant:" is a broken form of the definition
after it. No other definition uses it; it records which mistake a property catches.

### Abstractions

HKDF and AES are free constructors: a key is what it was derived from, a ciphertext opens under the
key and nonce that sealed it and under nothing else. Hashes and signatures are terms: a signature
names its key and the digest it signs. A byte is named by where it comes from: an offset in the
stream (`PeerFraming`), a field and an index (`WireMessages`, `BlockParsing`), the set of the terms it is
the exclusive or of (`BlockModes`), an index in the file (`ChunkHash`). So two buffers are equal
exactly when the same bytes were put in the same places. Only lengths, cursors and counters are numbers.
In `PeerSession` ECDH is the set of the two public keys and a tag is the chain and hash it was computed
from. In `RawTransaction` sizes are computed as `calcTxBytes` computes them and as the cursor
advances, never the bytes themselves.

Some choices need a word.

*Both ends are NoiseState objects.* The repository has only the initiator, and its test decrypts with
a NoiseState what another one encrypted; `NoiseTransport` does the same for both directions.

*When a rotation's `await` lets other code run.* The `hkdf` package calls back through
`process.nextTick`, so the rotation resumes before the next event: `HkdfYields = FALSE`. The code itself
relies only on a callback, so `HkdfYields = TRUE` is checked too. `Overlap` is the number of calls of one
kind that callers may leave pending. `sendMessage` is called from the timer and, unawaited, from
`routeMessage`, so it is 2 where `HkdfYields` is FALSE: nobody awaits, and the order of the event loop
alone keeps the calls apart. With both, yielding and overlap, nonces and frames clash.

*The application's wallet.* At this commit the wallet calls of `run()` are commented out
(`index.js` 13-17). `WalletFile` has them in the order they stand there.

*The network.* `ScriptMachine` and the ledger of `TxExamples` are not in the repository; they hold the
rules that the programs' comments name transactions for: a spend is accepted when its coin is confirmed,
its scripts succeed and its signatures are over the digest of the wire.

## Runs

| Run | Module | Question | Bounds |
|---|---|---|---|
| `Connection` | `MCConnection` | the three parts of a connection. *Transport*: nonce uniqueness, order, what a loss means, liveness, and the refinement of `SecureChannel`, in three modes: nobody awaits a send (`overlap`); other events run while hkdf is under way and calls are awaited (`yield`); the rotation falls between length and body, line 124 (`odd`). *Framing*: TCP cuts the stream at any byte, between frames, or between a length and its body (`chunking`). *Session*: the life of a connection; a genuine act two completes the handshake | `RotateAt` 4, five messages each way, `Overlap` 2; three messages each way in `yield` and in `odd`, where `RotateAt` is 3; tag 2, length 1, bodies of 2 and 3 bytes, three frames; three act twos, two ticks, two pings |
| `TransportCrossed` | `MCNoiseTransport` | violation: two rotations cross | see the cfg |
| `FramingSplit` | `MCPeerFraming` | violation: a body in two pieces | two frames |
| `Wallets` | `MCWallets` | processes that race for `wallet.dat` and are killed; three invocations of the segwit command line, two at a time, some killed | three seeds, two kills, symmetric processes; one name, amounts below, at and above the coin |
| `Wire` | `MCWire` | two connections share the buffer list of the chunking server; every message sent and received, whole or cut; the walk-through against NoiseState | chunks of 3 bytes, 6 bytes per connection in events of up to 6; variable fields of 0, 1 and 3 bytes, 0, 1, 2 or 9 bytes missing; `ROTATE` 1000, message 1001 the last |
| `MessagesFields` | `MCWire` | violation: `readBytes` after another field | the same |
| `Bitcoin` | `MCBitcoin` | the root of lists that earlier calls have padded, termination; blocks written in every shape and cut, scripts of any opcodes; the twenty programs in every order against the network; one transaction built and signed in any order | lists of 0 to 11, three calls; a byte of 8 values, two inputs and outputs, 1 to 2739128 transactions and scripts of 0 to 64 bytes, on both sides of every boundary, each number in every form that holds it; the programs themselves; two inputs, one output, four coins of two keys |
| `SigningIndex` | `MCBitcoin` | violation: the index on the wire | the same, with one block |
| `FeeComments` | `MCBitcoin` | violation: the fees that comments state, of every program that has one | the same, with one block |
| `VarIntComment` | `MCChainData` | violation: the bytes of a number, as the comment of `varint` counts them | those of `Bitcoin` |
| `Studies` | `MCStudies` | onions built, peeled and damaged; block modes there and back; the chained hash over an array that is written into; which logarithms and factors are found | one to three hops, data of 0, 1 and 2 units, versions 0 and 1; blocks of 3 bytes, 1 to 9 bytes, every capacity, counters that wrap; files of 0 to 9 bytes, chunks of 3, hashes of 2; two groups, `B` 3, 4 and 5, every exponent; odd factors to 23 |
| `CtrWholeBlocks` | `MCStudies` | violation: the count of whole blocks is reduced by one | the same |

### Why the bounds are enough

A rotation happens every `RotateAt` ciphertexts, that is every second
message at 4; five messages reach the third key of a direction and go on under it, so a rotation that
starts from a rotated key, the first that can diverge, is reached. With an odd limit the key changes
between the two ciphertexts of a frame, which the shipped 1000 never does. In `PeerFraming` a
tag of two bytes and a length of one allow slices shorter than a tag, whole ciphertexts, and longer
ones that are none; three frames allow a skipped frame with a frame before and after it. In
`PeerSession` three replies allow two refused act twos before a genuine one, and two ticks allow a ping
before the handshake and one after it. In `Streams` a chunk of three can come out of one, two or three
buffers and leave a part of one behind.

In `WireMessages` an empty field, a field of one byte and a longer one make every offset differ; a cut
of one or two bytes falls inside the last number, one of nine in the fields before it. `Bolt08`
and `TxExamples` are not bounded: they run what the scripts run. `WalletFile` needs two processes for
the race and a kill for the torn file; the second kill and the third seed show that nothing repairs it.
In `TxSigning` two inputs are the fewest that can sign over each other, and two values for one output
the fewest that can make an old signature stale. In `MerkleTree` 11 leaves are odd at two levels, 9 and
7 at others, and the third call sees a list that two calls have padded. In `BlockParsing` a byte
has 8 values instead of 256, of which the last three, 5, 6 and 7, mark the longer forms as 0xFD, 0xFE and 0xFF do:
4 and 5 are the two sides of the first boundary, 63 and 64 those of two bytes, 4095 and 4096 those of four, and
2739128 has a different digit in each of its eight bytes, so that each of the three decodings (the shift,
`readUInt32LE`, `swap64` with the hex digits) is met with bytes whose order matters. The proof has any number of values
above three, 256 among them. In `SegwitWallet` three calls are two that race and one that sees the
result. In `Onion` a middle hop needs three; length 2 stands for 253. In `BlockModes` nine bytes are three
blocks, so there is one between the first and the last. In `ChunkHash` a hash of two bytes is longer
than a last chunk of one and shorter than a chunk. In `DiscreteLog` the squares of the bases are below and
above the order of the groups. In `Fermat` 23 gives squares, near and far factors, and ratios on both
sides of 2 : 3.

Deadlock is not checked: the bounds stop the senders, and the scripts end.

### Fairness

The event loop delivers what a socket holds and `hkdf` calls back, so those handlers are
weakly fair. Nothing obliges anyone to send, to connect, to answer or to close. A synchronous program runs
on once it is called: the recursion of `MerkleTree` with its returns, the building and reading of an
onion, and the loop of a factoring search are weakly fair; calling `merkleRoot` again and forging
a packet are not.

## What the runs show

Holding, and hard to see from the code:

- The transport never reuses a nonce under a key, and a lost frame always means that two rotations crossed
  or that one overwrote the other.
- However a stream is cut, nothing is routed twice or out of order; with frames that come whole, each event
  routes exactly one, and the rest wait.
- A refused act two can never be followed by a completed handshake; init is the first message sealed.
- A payload that is cut is refused, unless only its last field is cut. What is sent of init, announcement_signatures,
  channel_update, pong and ping fills a buffer of a size counted by hand, every field where a peer reads it.
- The walk-through agrees with NoiseState at every message, through both rotations.
- A process of the Lightning wallet runs with what is stored, unless two generated at once; a file
  that a kill left empty is never repaired.
- A signature that was made last is valid in every order of adding and signing, and a valid one covers every
  output and the coin it spends.
- `merkleRoot` pads the caller's list, and the root is still the same when it is called again.
- `append` of the chunk hash writes over the file, but never over a byte that is still to be hashed.
- An onion's hops read their own data in order; a damaged unit is never accepted by `ex2`.

Defects and disagreements with a run of their own (`findings` in `PROJECT.json`):

- both directions rotate through one `ck`. If each end rotates its sending key before it follows the
  other's rotation, the chaining keys diverge and a later frame does not decrypt (`TransportCrossed`).
  Where events run during hkdf, a rotation can also overwrite the chaining key that one of the other
  direction wrote meanwhile; `Uncrossed`, the condition of `LossMeansCrossed` and `MessagesArrive`, names both.
- after a carried length the next event is taken to hold the whole body (`FramingSplit`). The
  same cause can skip a frame silently: when an event ends less than a tag's length into a body,
  `ccpDecrypt` returns `undefined`, the nonce advances, and the rest of the stream is read from the
  wrong offset.
- `readBytes` slices from the cursor to its argument, so only a field at the start is read right
  (`MessagesFields`).
- `example-p2wpkh-spend.js` writes `vin.value` for the index (`SigningIndex`).
- `example-p2wpkh-send.js` and `sendPayment8` of `test3.js` pay 982000 where their comments say 1900: the outputs
  are taken off 108900, and the coin has 1089000 (`FeeComments`). The other eleven programs with such a comment pay what
  it says (`AuditedPrograms`).
- the comment of `varint` has numbers up to and with 0xFD in one byte; the code reads 0xFD as a mark (`VarIntComment`).
- CTR compares a remainder with 16 and counts a block too many for a message of whole blocks, which panics in a
  buffer of the message's size (`CtrWholeBlocks`); around it, `PanicHasACause`.

Others are named by the conditions of the properties that hold around them:

- two `key` commands can show a key that is not stored (`raced` in `OneKeyPerName`), and two processes
  that both generate can run with a seed that is not (`overlap` in `RunsOnWhatIsStored`);
- `ex2` writes version 0 into every packet it passes on, whatever version the HMACs were made with, above a comment
  that says "we always use version 0" (`ex2/index.ts` 170), and `ex1` reads a length of 253 and more in one byte: the
  reasons that `ThrowsForAReason` admits;
- the discrete logarithm is sure to find exponents from 3 B + 1 on (`FoundFromThreeB`), where `dlog/README.md` has them
  from 1; `test1` has a middle one too large for a square, where `primes/README.md` says `ceil(sqrt(N))`
  (`NearIsFound` has different factors), and `test3` takes one side of 2 : 3 for granted, where that README has an
  absolute value (`RatioIsFound` has that side);
- CBC does not encrypt the padding of a message of whole blocks (`RoundTrip`); the flag's default and the mode
  names of its help do nothing;
- `signInput` filters `OP_CODESEPARATOR` out of data too: the data of the coins in the runs holds no such
  byte (`SeparatorData`);
- `tx` of the segwit wallet pays 20000 less than the amount it is asked to send;
- a ping that carries more than it states throws (`Sendable`); one that carries less is padded with zeros;
- a length of zero that is carried to the next event would be read as a missing one (`peer-client.js` 94). A message
  has a type of two bytes, so `PeerFraming` leaves it out: its bodies are longer than its length field.

## What is proved

Every theorem is about all values of the constants, under the assumptions named here and no others. A
module of proofs EXTENDS the module it is about: a component, or the `MC*` module of a run. `MCConnection_proofs`
and `MCWallets_proofs` cite the theorems of `PeerFraming_proofs`, `PeerSession_proofs` and `SegwitWallet_proofs`, about the
components alone, for the behaviours of their runs. The theorems on the transport are about the specification of
`NoiseTransport`, and those of `MCChainData_proofs` about that of `MCChainData`, which the runs `Connection` and
`Bitcoin` take the steps of. 31 of the properties of the runs are stated by a theorem.

| Module | Theorems | Assumes |
|---|---|---|
| `MCConnection_proofs` | `TypeCorrect`, `ChannelInvariant`, `InOrder`, `NoncesUnique`, `Refinement`, `KeyInvariant`, `LossOnlyWhenCrossed` | `RotateAt > 0`; all but `TypeCorrect`, `ChannelInvariant` and `KeyInvariant` also `AwaitedCalls` |
| | `RoutedInOrder`, `CarriedIsCurrent`, `FramePerEvent`, `FramesRouted`, `KeysOfConnection`, `InitBeforeAll`, `RefusalIsFinal`, `PongOfEveryPing` | those of the next two modules, whose theorems these are for the behaviours of the run |
| `PeerFraming_proofs` | `FramingInvariant`, `OrderKept`, `CarriedLengthCorrect`, `EventPerFrame`, `CompleteFramesRouted` | a tag and a length field of at least one byte, and every body longer than the length field (`FramingConstants`) |
| `PeerSession_proofs` | `SessionInvariant`, `KeysAgree`, `InitIsFirst`, `ForgeryIsFinal`, `PongsAnswerPings` | bounds that are numbers (`SessionConstants`) |
| `MCWallets_proofs` | `WalletInvariant`, `StoredWallet`, `TornIsFinal`, `OneKey`, `ShownStaysReadable` | bounds that are numbers; `SegwitBounded` for the last two |
| `SegwitWallet_proofs` | `SegwitInvariant`, `KeyIsStored`, `ShownIsReadable`, `EmptyIsFinal` | `Bounded`: finitely many invocations, amounts that are integers |
| `MCWire_proofs` | `NothingLost`, `MixingHasACause`, `HandshakeAgreement`, `MessageAgreement`, `CutMessagesRefused`, `MessagesWrittenAsRead` | `WalkAssumption`: `ROTATE > 2`; `MessageAssumption`: sizes and cuts that are numbers |
| `MCStudies_proofs` | `HashOfChain`, `FactorsOfOdd`, `LogarithmOfH`, `HopsOfOnion`, `DamageOfOnion`, `ModesOfBlocks` | positive sizes; a bound that is a number; moduli that are primes and positive bases; lengths and a number of hops that are numbers; a positive block length, counters below their modulus |
| `MCChainData_proofs` | `RootOfTheTree`, `BlocksParsedAsWritten` | `BoundsAssumption`: a stack with room for as many calls as there are leaves; `ParsingAssumption`: a byte of more than three values, counts and lengths that eight bytes hold, no script of two bytes, cuts that are numbers, scripts of bytes |

`AwaitedCalls` is `~HkdfYields \/ Overlap = 1`: either a rotation ends before the next event, which is what
the `hkdf` package does, or callers await each call. It cannot be dropped: with overlapping calls that yield,
a second `encryptMessage` seals under the key a first one is about to replace. `WalkAssumption` is needed
because the walk-through seals message 0 without comparing its two nonces with the limit; the code has 1000.
`ParsingAssumption` leaves the length 2 out because the model tells a number from other fields by its two members.
`Bounded` makes the number of running invocations and the fee arithmetic; `MCWallets` assumes it as
`SegwitBounded`.

The arguments, in each case an invariant that is inductive where the property is not:

- *Transport.* `ChannelInv` adds where in the sequence of ciphertexts each end is. Ciphertexts of a direction
  are ordered by key generation and nonce (`Less`, `Follows`); a sender's next position follows everything it
  has sealed (`WellSealed`), and the number of ciphertexts fits the number of messages (`SendCounts`). A
  receiver is either `Synced`, at exactly the position of the next ciphertext to read, or `Dead`: its key or
  nonce matches nothing unread now or ever, which is where crossed rotations lead. Deliveries are therefore
  a prefix of what was sent. `KeyInv` says what the chaining key remembers: while no rotation was
  overwritten, it lists every key the end has replaced once, and each key was salted with what precedes
  it in the list (`MadeIn`). Two ends whose lists agree as far as the shorter one goes have therefore made
  the same keys, and `Dead` is impossible.
- *Framing.* `FramingInv` ties the nonce to the layout of the stream (`Layout`: a length, a body of that size,
  each with its tag, end to end). A slice opens only where it is exactly the ciphertext of its nonce, so a
  frame that is delivered uses its nonce up (`DeliveredByNonce`) and nothing older opens again. With whole
  frames nonce, events and cursor advance together (`FrameByFrame`, `PartByPart`).
- *Session.* `SessionInv` says what the client has hashed at each act: while it waits for act two its transcript
  is that of act one, or is longer than any genuine reply answers (`WaitingForAct2`). An established client has
  taken the genuine act two before any other of the right version. `PongPerPing` and `InitFirst` count
  the messages on the socket against those routed.
- *Lightning wallet.* `WalletInv` adds that every seed past the prompt was shown (`SeedsShown`) and that, as long
  as no two processes have looked for the file together, at most one is making a wallet and the file is
  as that one left it (`OneMaker`).
- *Segwit wallet.* `SegwitInv` says the same for each name that no two invocations raced for, and that every
  invocation makes at most one key (`KeysMade`), so that keys made are never equal by accident.
- *Chunking server.* `StreamInv` adds to the properties that buffers consist of whole chunks of one connection as
  long as every event does. `readFromBuffers` is a recursive function; that it returns the first bytes of
  the flattened list and leaves the rest is proved by induction over the buffers (34-49).
- *Walk-through.* `WalkInv` gives hash, chaining key and keys at each act as terms, and for every ciphertext
  sealed its generation and nonce as quotient and remainder of its place by `ROTATE`, so that no two agree.
- *Messages.* The first `k` fields of a payload are so many bytes (`IsFronts`); after `k` items the reader is
  at their end, without a fault, if they all came, and has thrown otherwise (`AllRead`), so it throws on the
  way exactly when the end of the payload is missing. The writer's buffer is, after `k` items, what the first `k`
  fields are and zeros for the rest (`Filled`), and the size each class allocates leaves no zeros.
  The classes without a writer copy each field to an offset of its own, which is where the copy before it ended
  (`CopyNext`). `MessageInv`
  says what each stage holds: the beginning of a payload, what a read of it gives, or what is written.
- *Chunk hash.* `ChunkInv` gives the loop's place, the hash as that of the chain from there on, and that the file
  up to that place is as it was read: what `append` writes lies behind it.

- *Merkle tree.* `MerkleInv` says that a call at depth `d` holds level `d` of the tree, that every level below it
  has more than one node, and that the list of the caller is as it was made or has its last leaf once more. The
  last level is therefore the first of one node, the root, and an empty list never gets there.
- *Blocks and scripts.* The first `k` fields of a block are so many bytes (`Off`, from the lengths of their
  encodings). `BlockInv` says that between two calls the parser has read the first `q` fields, with `q` given by the
  step and by what is left to read, and is where they end (`Done`). A call reads the next fields from where they were
  written (`Takes`), unless the block ends within them; a number that is cut short reads as one that needs bytes past
  the end (`NumberHere`), so the call throws all the same, and never when only the lock time is missing. A whole one gives
  the number back: it is the sum of its digits in powers of `Base` (`ShedsExist`, `LowAre`), and each of the three
  decodings computes that sum (`ShiftIs`, `ReadUInt32LEIs`, `FromHexIs`). `ScriptInv`
  says that the stack spells the script up to the iterator (`Spells`), which is all that `Append` can
  disturb.
- *Factoring.* With the middle `s` of two odd factors and half their distance `d`, the number is `s*s - d*d`
  (`OddPair`), and the condition of the README of primes says that `d*d < s` (`FourthRoot`): `s` is the first middle
  after the root (`NearMiddle`). `FermatInv` adds for `test2` that no middle from the root to the current one
  splits the number; nearer factors would have had an earlier middle (`NearerPair`).
- *Logarithm.* `LogarithmInv` says that an entry of the table times the power of `g` it is stored with is `h`, that
  what is left of `x` after each exponent of the table is in it, and that no power tried so far is. An exponent
  from `3 B + 1` is a multiple of `B` that the search tries plus an exponent of the table (`TablesMeet`). Inverses
  exist because the modulus is a prime (`InverseExists`: the least positive remainder of the multiples of a
  number divides the modulus).
- *Onions.* `OnionInv` names the layers: a function `f` whose value at `k` is the payload for hop `k`, the data of
  the hop followed by the HMAC and payload for the next (`Layers1`, `Layers2`). Building prepends one layer;
  the hop that is next holds `f[k]` under the HMAC over it and the version of the onion, or a packet whose
  last unit is no HMAC but that one (`NextOf2`). An HMAC that is right therefore says what it covers
  (`HmacMeans`), and a packet with it is the one that was sent, unless its version is not the onion's.
- *Block modes.* `ModesInv` gives what each loop has made so far. In CTR it is the beginning of the input with every
  byte masked by the one of its counter (`Masked`), and masking twice gives the input back (`MaskedTwice`). In
  CBC it is the first blocks of the chain (`CbcPart`); while it decrypts, the loop holds the chain's block before the one
  it opens, so what it opens is the padded message's block (`ChainOpened`), whose last byte says what to cut.
  Of a message of whole blocks the invariant keeps the sizes only: its last block is not a block of the chain.

What a recursive function computes is proved without induction theorems that take a predicate: a recursive
function is shown to satisfy its equation by giving a witness, built from the finite approximations, and
induction is applied to the set of numbers for which a statement holds (`Induct`, from the library's theorem
that `<` on `Nat` is well founded).

The inductive invariants have no run of their own: TLC would only repeat what the proofs show.

### Only model-checked, and why

- Liveness under fairness: `MessagesArrive`, `EveryFrameDelivered`, `HandshakeCompletes`, `Returns`, `StudiesEnd`. The
  prover does not reach it.
- `ReadySpendAccepted`, `AgreesAsStated`: fixed programs, which the run executes in every order; there is nothing to
  generalise over.
- `SignedIsValid`, `ValidIsCovered`: what the network accepts is the script machine, a fold over the opcodes of a
  script whose step takes the digest to be signed as an operator. The prover expands no definition that is applied
  to a `LAMBDA` in this way, so not even the stack after an empty script can be proved.
