--------------------------- MODULE MCWallets_proofs ---------------------------
(***************************************************************************)
(* Proofs about the two programs of MCWallets: about WalletFile, for any   *)
(* number of processes, seeds and kills; and what those about SegwitWallet *)
(* say of the behaviours of MCWallets, each of which is one of one program *)
(* or of the other.                                                        *)
(***************************************************************************)
EXTENDS MCWallets, TLAPS, FiniteSetTheorems

(***************************************************************************)
(* The wallet of the lightning application.                                *)
(***************************************************************************)

(* The seed of every process past the prompt, and of the file, was shown.  *)
SeedsShown ==
    /\ IsFiniteSet(shown)
    /\ \A a \in Apps : app[a].pc \in {"open", "write", "run"} =>
            <<app[a].seed, app[a].pass>> \in shown
    /\ file \in {Missing, Empty} \/ \E x \in shown : file = Wallet(x[1], x[2])

(* As long as no two have looked for the file together, one process at     *)
(* most is making a wallet, and the file is as that process left it.       *)
OneMaker ==
    ~overlap =>
        /\ \A a, b \in Apps :
              app[a].pc \in Generating /\ app[b].pc \in Generating => a = b
        /\ \A a \in Apps : app[a].pc \in {"generate", "open"} => file = Missing
        /\ \A a \in Apps : app[a].pc = "write" => file = Empty

WalletInv == WalletIsStored /\ SeedsShown /\ OneMaker

States ==
    [pc : {"off", "unlock", "run"} \cup Generating,
     pass : Passphrases \cup {"none"}, seed : 0 .. MaxSeeds]

LEMMA WalletStarts == Init => WalletInv
<1> SUFFICES ASSUME Init PROVE WalletInv
    OBVIOUS
<1>1. Idle \in States
    BY BoundsAssumption DEF Idle, States, NoSeed
<1>2. \A a \in Apps : app[a] = Idle /\ app[a].pc = "off"
    BY DEF Init, Idle
<1>3. TypeOK
    <2>1. app \in [Apps -> States]
        BY <1>1 DEF Init
    <2>2. crashes \in 0 .. MaxCrashes
        BY BoundsAssumption DEF Init
    <2>3. overlap \in BOOLEAN /\ torn \in BOOLEAN
        BY Zenon DEF Init
    <2> QED
        BY <2>1, <2>2, <2>3 DEF Init, TypeOK, States
<1>4. RunsOnWhatIsStored /\ BrokenMeansTorn /\ SeedWasShown
    BY <1>2 DEF Init, RunsOnWhatIsStored, BrokenMeansTorn, SeedWasShown, Missing, Empty
<1>5. SeedsShown
    BY <1>2, FS_EmptySet DEF Init, SeedsShown
<1>6. OneMaker
    BY <1>2 DEF OneMaker, Generating
<1> QED
    BY <1>3, <1>4, <1>5, <1>6 DEF WalletInv, WalletIsStored

LEMMA HasWalletKeeps ==
    ASSUME WalletInv, NEW a \in Apps, HasWallet(a) PROVE WalletInv'
<1> USE DEF WalletInv, WalletIsStored
<1>1. /\ app \in [Apps -> States] /\ app[a].pc = "off"
      /\ UNCHANGED <<file, shown, crashes, torn>>
    BY DEF TypeOK, HasWallet, States
<1>2. PICK pc \in {"generate", "unlock"} :
        /\ app' = [app EXCEPT ![a].pc = pc]
        /\ pc = "generate" <=> file = Missing
    BY DEF HasWallet
<1>3. /\ app' \in [Apps -> States]
      /\ \A b \in Apps \ {a} : app'[b] = app[b]
      /\ app'[a].pc = pc
    BY <1>1, <1>2 DEF States, Generating
<1>4. overlap' = (overlap \/ (file = Missing /\ \E b \in Apps \ {a} :
                                    app[b].pc \in Generating))
      /\ overlap \in BOOLEAN
    BY DEF HasWallet, TypeOK
<1>5. TypeOK'
    BY <1>1, <1>3, <1>4 DEF TypeOK, States
<1>6. RunsOnWhatIsStored' /\ BrokenMeansTorn' /\ SeedWasShown' /\ SeedsShown'
    BY <1>1, <1>2, <1>3, <1>4
       DEF RunsOnWhatIsStored, BrokenMeansTorn, SeedWasShown, SeedsShown
<1>7. OneMaker'
    BY <1>1, <1>2, <1>3, <1>4 DEF OneMaker, Generating
<1> QED
    BY <1>5, <1>6, <1>7

\* A seed is shown before the process that made it opens the file.
LEMMA GenerateKeeps ==
    ASSUME WalletInv, NEW a \in Apps, NEW pass \in Passphrases, Generate(a, pass)
    PROVE  WalletInv'
<1> USE DEF WalletInv, WalletIsStored
<1> DEFINE seed == Cardinality(shown) + 1
<1>1. /\ app \in [Apps -> States] /\ app[a].pc = "generate"
      /\ UNCHANGED <<file, crashes, overlap, torn>>
    BY DEF TypeOK, Generate, States
<1>2. seed \in 1 .. MaxSeeds /\ seed \in 0 .. MaxSeeds
    <2>1. Cardinality(shown) \in Nat /\ Cardinality(shown) < MaxSeeds
        BY FS_CardinalityType DEF SeedsShown, Generate
    <2> QED
        BY <2>1, BoundsAssumption
<1>3. /\ shown' = shown \cup {<<seed, pass>>}
      /\ app' = [app EXCEPT ![a] = [pc |-> "open", pass |-> pass, seed |-> seed]]
    BY DEF Generate
<1> HIDE DEF seed
<1>4. /\ app' \in [Apps -> States]
      /\ \A b \in Apps \ {a} : app'[b] = app[b]
      /\ app'[a].pc = "open" /\ app'[a].pass = pass /\ app'[a].seed = seed
    BY <1>1, <1>2, <1>3 DEF States, Generating
<1>5. IsFiniteSet(shown')
    BY <1>3, FS_AddElement DEF SeedsShown
<1>6. TypeOK'
    BY <1>1, <1>2, <1>3, <1>4 DEF TypeOK, States
<1>7. RunsOnWhatIsStored' /\ BrokenMeansTorn' /\ SeedWasShown'
    BY <1>1, <1>3, <1>4 DEF RunsOnWhatIsStored, BrokenMeansTorn, SeedWasShown
<1>8. SeedsShown'
    BY <1>1, <1>3, <1>4, <1>5 DEF SeedsShown
<1>9. OneMaker'
    BY <1>1, <1>4 DEF OneMaker, Generating
<1> QED
    BY <1>6, <1>7, <1>8, <1>9

LEMMA OpenFileKeeps ==
    ASSUME WalletInv, NEW a \in Apps, OpenFile(a) PROVE WalletInv'
<1> USE DEF WalletInv, WalletIsStored
<1>1. /\ app \in [Apps -> States] /\ app[a].pc = "open" /\ file' = Empty
      /\ app' = [app EXCEPT ![a].pc = "write"]
      /\ UNCHANGED <<shown, crashes, overlap, torn>>
    BY DEF TypeOK, OpenFile, States
<1>2. /\ app' \in [Apps -> States]
      /\ \A b \in Apps \ {a} : app'[b] = app[b]
      /\ app'[a].pc = "write"
      /\ app'[a].seed = app[a].seed /\ app'[a].pass = app[a].pass
    BY <1>1 DEF States, Generating
<1>3. TypeOK'
    BY <1>1, <1>2 DEF TypeOK, States
<1>4. RunsOnWhatIsStored'
    BY <1>1, <1>2 DEF RunsOnWhatIsStored, OneMaker, Missing, Wallet
<1>5. BrokenMeansTorn' /\ SeedWasShown' /\ SeedsShown'
    BY <1>1, <1>2 DEF BrokenMeansTorn, SeedWasShown, SeedsShown
<1>6. OneMaker'
    BY <1>1, <1>2 DEF OneMaker, Generating
<1> QED
    BY <1>3, <1>4, <1>5, <1>6

LEMMA WriteFileKeeps ==
    ASSUME WalletInv, NEW a \in Apps, WriteFile(a) PROVE WalletInv'
<1> USE DEF WalletInv, WalletIsStored
<1> DEFINE x == <<app[a].seed, app[a].pass>>
<1>1. /\ app \in [Apps -> States] /\ app[a].pc = "write"
      /\ file' = Wallet(app[a].seed, app[a].pass)
      /\ app' = [app EXCEPT ![a].pc = "run"]
      /\ UNCHANGED <<shown, crashes, overlap, torn>>
    BY DEF TypeOK, WriteFile, States
<1>2. /\ app' \in [Apps -> States]
      /\ \A b \in Apps \ {a} : app'[b] = app[b]
      /\ app'[a].pc = "run"
      /\ app'[a].seed = app[a].seed /\ app'[a].pass = app[a].pass
    BY <1>1 DEF States, Generating
<1>3. /\ x \in shown /\ file' = Wallet(x[1], x[2])
      /\ app[a].seed \in 1 .. MaxSeeds /\ app[a].pass \in Passphrases
    BY <1>1 DEF SeedsShown, TypeOK
<1>4. TypeOK'
    BY <1>1, <1>2, <1>3 DEF TypeOK, States
<1>5. RunsOnWhatIsStored'
    BY <1>1, <1>2 DEF RunsOnWhatIsStored, OneMaker, Empty, Wallet
<1>6. BrokenMeansTorn'
    BY <1>1 DEF BrokenMeansTorn, Wallet, Empty
<1>7. SeedWasShown' /\ SeedsShown'
    BY <1>1, <1>2, <1>3 DEF SeedWasShown, SeedsShown
<1>8. OneMaker'
    BY <1>1, <1>2 DEF OneMaker, Generating
<1> QED
    BY <1>4, <1>5, <1>6, <1>7, <1>8

\* A passphrase that decrypts the file is the one its seed was shown with.
LEMMA UnlockKeeps ==
    ASSUME WalletInv, NEW a \in Apps, NEW pass \in Passphrases, Unlock(a, pass)
    PROVE  WalletInv'
<1> USE DEF WalletInv, WalletIsStored
<1>1. /\ app \in [Apps -> States] /\ app[a].pc = "unlock"
      /\ UNCHANGED <<file, shown, crashes, overlap, torn>>
    BY DEF TypeOK, Unlock, States
<1>2. CASE Decrypts(file, pass)
    <2>1. PICK x \in shown : file = Wallet(x[1], x[2])
        BY <1>2 DEF SeedsShown, Decrypts, Missing, Empty
    <2>2. /\ x[2] = pass /\ file[2] = x[1] /\ x = <<x[1], x[2]>>
          /\ x[1] \in 1 .. MaxSeeds /\ x[1] \in 0 .. MaxSeeds
        BY <1>2, <2>1 DEF Decrypts, Wallet, TypeOK
    <2>3. app' = [app EXCEPT ![a] = [pc |-> "run", pass |-> pass, seed |-> x[1]]]
        BY <1>2, <2>2 DEF Unlock
    <2>4. /\ app' \in [Apps -> States]
          /\ \A b \in Apps \ {a} : app'[b] = app[b]
          /\ app'[a].pc = "run" /\ app'[a].pass = pass /\ app'[a].seed = x[1]
        BY <1>1, <2>2, <2>3 DEF States
    <2>5. TypeOK'
        BY <1>1, <2>4 DEF TypeOK, States
    <2>6. RunsOnWhatIsStored'
        BY <1>1, <2>1, <2>2, <2>4 DEF RunsOnWhatIsStored
    <2>7. BrokenMeansTorn'
        BY <1>1, <2>1 DEF BrokenMeansTorn, Wallet, Empty
    <2>8. SeedWasShown' /\ SeedsShown'
        BY <1>1, <2>2, <2>4 DEF SeedWasShown, SeedsShown
    <2>9. OneMaker'
        BY <1>1, <2>4 DEF OneMaker, Generating
    <2> QED
        BY <2>5, <2>6, <2>7, <2>8, <2>9
<1>3. CASE ~Decrypts(file, pass)
    <2>1. app' = [app EXCEPT ![a] = Idle] /\ Idle \in States
        BY <1>3, BoundsAssumption DEF Unlock, Idle, States, NoSeed
    <2>2. /\ app' \in [Apps -> States]
          /\ \A b \in Apps \ {a} : app'[b] = app[b]
          /\ app'[a].pc = "off"
        BY <1>1, <2>1 DEF Idle
    <2>3. TypeOK'
        BY <1>1, <2>2 DEF TypeOK, States
    <2>4. RunsOnWhatIsStored' /\ BrokenMeansTorn' /\ SeedWasShown' /\ SeedsShown'
        BY <1>1, <2>2
           DEF RunsOnWhatIsStored, BrokenMeansTorn, SeedWasShown, SeedsShown
    <2>5. OneMaker'
        BY <1>1, <2>2 DEF OneMaker, Generating
    <2> QED
        BY <2>3, <2>4, <2>5
<1> QED
    BY <1>2, <1>3

\* A process that ends, or is killed, at any point.
LEMMA EndKeeps ==
    ASSUME WalletInv, NEW a \in Apps, Quit(a) \/ Crash(a) PROVE WalletInv'
<1> USE DEF WalletInv, WalletIsStored
<1>1. /\ app \in [Apps -> States] /\ Idle \in States
      /\ app' = [app EXCEPT ![a] = Idle]
      /\ UNCHANGED <<file, shown, overlap>>
    BY BoundsAssumption DEF TypeOK, Quit, Crash, States, Idle, NoSeed
<1>2. /\ app' \in [Apps -> States]
      /\ \A b \in Apps \ {a} : app'[b] = app[b]
      /\ app'[a].pc = "off"
    BY <1>1 DEF Idle
<1>3. /\ crashes' \in 0 .. MaxCrashes /\ torn' \in BOOLEAN
      /\ torn' <=> torn \/ app[a].pc = "write"
    <2>1. CASE Quit(a)
        BY <2>1 DEF TypeOK, Quit
    <2>2. CASE Crash(a)
        <3>1. crashes' \in 0 .. MaxCrashes
            BY <2>2, BoundsAssumption DEF TypeOK, Crash
        <3>2. torn' = (torn \/ app[a].pc = "write")
            BY <2>2 DEF Crash
        <3> QED
            BY <3>1, <3>2, Zenon
    <2> QED
        BY <2>1, <2>2
<1>4. TypeOK'
    BY <1>1, <1>2, <1>3 DEF TypeOK, States
<1>5. BrokenMeansTorn'
    BY <1>1, <1>2, <1>3 DEF BrokenMeansTorn
<1>6. RunsOnWhatIsStored' /\ SeedWasShown' /\ SeedsShown'
    BY <1>1, <1>2 DEF RunsOnWhatIsStored, SeedWasShown, SeedsShown
<1>7. OneMaker'
    BY <1>1, <1>2 DEF OneMaker, Generating
<1> QED
    BY <1>4, <1>5, <1>6, <1>7

LEMMA WalletStep == WalletInv /\ [Next]_vars => WalletInv'
<1> SUFFICES ASSUME WalletInv, [Next]_vars PROVE WalletInv'
    OBVIOUS
<1>1. CASE UNCHANGED vars
    BY <1>1 DEF vars, WalletInv, WalletIsStored, TypeOK, RunsOnWhatIsStored,
                BrokenMeansTorn, SeedWasShown, SeedsShown, OneMaker
<1> QED
    BY <1>1, HasWalletKeeps, GenerateKeeps, OpenFileKeeps, WriteFileKeeps,
       UnlockKeeps, EndKeeps DEF Next

\* The invariant the two theorems rest on: who showed, wrote and read what.
THEOREM WalletInvariant == Spec => []WalletInv
BY WalletStarts, WalletStep, PTL DEF Spec

\* Whatever ends, is killed or runs at the same time: a process that runs
\* has a seed whose mnemonic was shown, under its own passphrase; unless two
\* looked for the file together it is the one in the file; and a file that
\* is left empty is one whose writer still writes or was killed (wallet.js).
THEOREM StoredWallet == Spec => []WalletIsStored
<1>1. WalletInv => WalletIsStored
    BY DEF WalletInv
<1> QED
    BY <1>1, WalletInvariant, PTL

\* Nothing repairs an empty file: once nobody is making a wallet, nobody
\* ever does again (index.js looks only for the file).
THEOREM TornIsFinal == Spec => TornStaysTorn
<1>1. WalletInv /\ [Next]_vars => (Torn => Torn')
    <2> SUFFICES ASSUME WalletInv, [Next]_vars, Torn PROVE Torn'
        OBVIOUS
    <2>1. app \in [Apps -> States]
        BY DEF WalletInv, WalletIsStored, TypeOK, States
    <2>2. CASE UNCHANGED vars
        BY <2>2 DEF vars, Torn
    <2>3. ASSUME NEW a \in Apps, HasWallet(a) PROVE Torn'
        BY <2>1, <2>3 DEF HasWallet, Torn, Empty, Missing, Generating
    <2>4. ASSUME NEW a \in Apps, NEW pass \in Passphrases, Unlock(a, pass)
          PROVE  Torn'
        BY <2>1, <2>4 DEF Unlock, Torn, Idle, Generating
    <2>5. ASSUME NEW a \in Apps, Quit(a) \/ Crash(a) PROVE Torn'
        BY <2>1, <2>5 DEF Quit, Crash, Torn, Idle, Generating
    <2>6. \A a \in Apps, pass \in Passphrases : ~Generate(a, pass)
        BY DEF Torn, Generating, Generate
    <2>7. \A a \in Apps : ~OpenFile(a) /\ ~WriteFile(a)
        BY DEF Torn, Generating, OpenFile, WriteFile
    <2> QED
        BY <2>2, <2>3, <2>4, <2>5, <2>6, <2>7 DEF Next
<1> QED
    BY <1>1, WalletInvariant, PTL DEF Spec, TornStaysTorn

(***************************************************************************)
(* The segwit command line.                                                *)
(***************************************************************************)

LEMMA SegwitSpec == SpecAny => Segwit!Spec
<1>1. InitAny => Segwit!Init
  BY DEF InitAny
<1>2. [NextAny]_<<vars, segwitVars, program>> => [Segwit!Next]_Segwit!vars
  BY DEF NextAny, segwitVars, Segwit!vars
<1> QED
  BY <1>1, <1>2, PTL DEF SpecAny, Segwit!Spec

(* Every key shown for a name, and every address and transaction made with *)
(* it, is the one in its file, unless two invocations created it at once;  *)
(* only a kill leaves a file empty (cmds/key.js, address.js, tx.js).       *)
THEOREM OneKey == SpecAny => []OneKeyPerName
<1>1. Segwit!Spec =>
        [](Segwit!TypeOK /\ Segwit!OneKeyPerName /\ Segwit!EmptyMeansTorn)
  BY SegwitBounded, Segwit!KeyIsStored
<1> QED
  BY <1>1, SegwitSpec, PTL DEF OneKeyPerName

(* A name that has shown its key is read by every later call, whatever is  *)
(* killed, and a file left empty stays empty.                              *)
THEOREM ShownStaysReadable == SpecAny => ReadableOnceShown
BY SegwitSpec, SegwitBounded, Segwit!ShownIsReadable, Segwit!EmptyIsFinal
   DEF ReadableOnceShown
=============================================================================
