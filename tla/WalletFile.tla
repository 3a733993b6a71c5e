----------------------------- MODULE WalletFile -----------------------------
(***************************************************************************)
(* wallet.dat of the lightning application: hasWallet, generateWallet and  *)
(* unlockWallet of index.js over wallet.js, wallet-io.js and fs.js, in the *)
(* order run() has them, and processes that die and are started again.     *)
(*                                                                         *)
(* A process prompts for the passphrase between looking for the file and   *)
(* touching it, so another one may run in between.  fs.writeFile opens the *)
(* file, which empties it, and then writes it.                             *)
(***************************************************************************)
EXTENDS Naturals, FiniteSets

CONSTANTS
    Apps,         \* the processes that may run at once
    Passphrases,
    MaxSeeds,     \* bound on the seeds generated
    MaxCrashes    \* bound on the processes killed

ASSUME BoundsAssumption == MaxSeeds \in Nat /\ MaxCrashes \in Nat

VARIABLES
    file,     \* <<>> when there is none, what it holds otherwise
    app,      \* what each process is doing, with its passphrase and its seed
    shown,    \* the seeds whose mnemonic was printed, and their passphrases
    crashes,  \* processes killed
    overlap,  \* whether two processes ever were between the look and the write
    torn      \* whether a process was ever killed after emptying the file

vars == <<file, app, shown, crashes, overlap, torn>>

NoSeed == 0
Missing == <<"missing">>
Empty == <<"empty">>
Wallet(seed, pass) == <<"wallet", seed, pass>>

Idle == [pc |-> "off", pass |-> "none", seed |-> NoSeed]

Init ==
    /\ file = Missing
    /\ app = [a \in Apps |-> Idle]
    /\ shown = {}
    /\ crashes = 0
    /\ overlap = FALSE
    /\ torn = FALSE

Generating == {"generate", "open", "write"}

\* Mutant: an empty file counts as none.
HasWalletNonEmpty(a) ==
    /\ app[a].pc = "off"
    /\ app' = [app EXCEPT ![a].pc =
                IF file \in {Missing, Empty} THEN "generate" ELSE "unlock"]
    /\ overlap' = (overlap \/ (file = Missing /\ \E b \in Apps \ {a} :
                                    app[b].pc \in Generating))
    /\ UNCHANGED <<file, shown, crashes, torn>>

\* run(): look for the file, then prompt.
HasWallet(a) ==
    /\ app[a].pc = "off"
    /\ app' = [app EXCEPT ![a].pc =
                IF file = Missing THEN "generate" ELSE "unlock"]
    /\ overlap' = (overlap \/ (file = Missing /\ \E b \in Apps \ {a} :
                                    app[b].pc \in Generating))
    /\ UNCHANGED <<file, shown, crashes, torn>>

\* Wallet.generate: the mnemonic is shown before anything is written.
Generate(a, pass) ==
    /\ app[a].pc = "generate"
    /\ Cardinality(shown) < MaxSeeds
    /\ LET seed == Cardinality(shown) + 1
       IN  /\ shown' = shown \cup {<<seed, pass>>}
           /\ app' = [app EXCEPT
                ![a] = [pc |-> "open", pass |-> pass, seed |-> seed]]
    /\ UNCHANGED <<file, crashes, overlap, torn>>

OpenFile(a) ==
    /\ app[a].pc = "open"
    /\ file' = Empty
    /\ app' = [app EXCEPT ![a].pc = "write"]
    /\ UNCHANGED <<shown, crashes, overlap, torn>>

\* Mutant: the wallet is handed back before it is written.
WriteFileUnawaited(a) ==
    /\ app[a].pc = "write"
    /\ file' = file
    /\ app' = [app EXCEPT ![a].pc = "run"]
    /\ UNCHANGED <<shown, crashes, overlap, torn>>

\* writeWallet: the salt, then the seed encrypted under the passphrase.
WriteFile(a) ==
    /\ app[a].pc = "write"
    /\ file' = Wallet(app[a].seed, app[a].pass)
    /\ app' = [app EXCEPT ![a].pc = "run"]
    /\ UNCHANGED <<shown, crashes, overlap, torn>>

\* readWallet of what a wrong passphrase or an empty file gives throws, in
\* decipher.final or in JSON.parse.
Decrypts(content, pass) == content[1] = "wallet" /\ content[3] = pass

\* unlockWallet: the process exits when it throws.
Unlock(a, pass) ==
    /\ app[a].pc = "unlock"
    /\ app' = [app EXCEPT ![a] =
            IF Decrypts(file, pass)
            THEN [pc |-> "run", pass |-> pass, seed |-> file[2]] ELSE Idle]
    /\ UNCHANGED <<file, shown, crashes, overlap, torn>>

\* The user ends a process that runs; the next one starts from nothing.
Quit(a) ==
    /\ app[a].pc = "run"
    /\ app' = [app EXCEPT ![a] = Idle]
    /\ UNCHANGED <<file, shown, crashes, overlap, torn>>

Crash(a) ==
    /\ app[a].pc # "off"
    /\ crashes < MaxCrashes
    /\ crashes' = crashes + 1
    /\ torn' = (torn \/ (app[a].pc = "write"))
    /\ app' = [app EXCEPT ![a] = Idle]
    /\ UNCHANGED <<file, shown, overlap>>

Next ==
    \E a \in Apps :
        \/ HasWallet(a) \/ OpenFile(a) \/ WriteFile(a) \/ Quit(a) \/ Crash(a)
        \/ \E pass \in Passphrases : Generate(a, pass) \/ Unlock(a, pass)

Spec == Init /\ [][Next]_vars

(***************************************************************************)
(* Properties                                                              *)
(***************************************************************************)
\* Types of the variables.
TypeOK ==
    /\ file \in {Missing, Empty}
                \cup {Wallet(s, p) : s \in 1 .. MaxSeeds, p \in Passphrases}
    /\ app \in [Apps -> [pc : {"off", "unlock", "run"} \cup Generating,
                         pass : Passphrases \cup {"none"},
                         seed : 0 .. MaxSeeds]]
    /\ shown \subseteq (1 .. MaxSeeds) \X Passphrases
    /\ crashes \in 0 .. MaxCrashes
    /\ overlap \in BOOLEAN /\ torn \in BOOLEAN

\* The wallet a process runs with is the one in the file, so the seed it
\* hands out addresses of is the one its user can unlock again, unless two
\* processes looked for the file before either had written it.
RunsOnWhatIsStored ==
    ~overlap => \A a \in Apps :
        app[a].pc = "run" => file = Wallet(app[a].seed, app[a].pass)

\* No process is generating while the file holds nothing, unless one was
\* killed after emptying it: without a crash the window closes by itself.
BrokenMeansTorn ==
    file = Empty =>
        torn \/ \E a \in Apps : app[a].pc = "write"

\* A file left empty stays empty: hasWallet finds it, so every later process
\* tries to unlock it, no passphrase does, and none ever generates again.
Torn == file = Empty /\ \A a \in Apps : app[a].pc \notin Generating
TornStaysTorn == [][Torn => Torn']_vars

\* Whatever two processes do to the file, no one runs with a seed whose
\* mnemonic was not shown, and no one unlocks a wallet with a passphrase it
\* was not generated with: the file is never a mix of two wallets.
SeedWasShown ==
    \A a \in Apps : app[a].pc = "run" => <<app[a].seed, app[a].pass>> \in shown

\* The four together: what holds of the file and of every process, at any
\* point of any number of them (wallet.js, wallet-io.js, index.js).
WalletIsStored ==
    TypeOK /\ RunsOnWhatIsStored /\ BrokenMeansTorn /\ SeedWasShown
=============================================================================
