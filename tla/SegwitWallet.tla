---------------------------- MODULE SegwitWallet ----------------------------
(***************************************************************************)
(* The command line of bitcoin/segwit: key, address and tx over the files  *)
(* that hold one key per wallet name, with several invocations, some of    *)
(* them at the same time or killed half way.                               *)
(*                                                                         *)
(* The calls into fs are synchronous within a process, but another one may *)
(* run between them; writeFileSync empties the file before it writes it.   *)
(***************************************************************************)
EXTENDS Integers, FiniteSets

CONSTANTS
    Names,       \* wallet names
    NoName,      \* what --wallet is when it is not given
    Calls,       \* the invocations
    MaxRunning,  \* how many of them may run at once
    Amounts,     \* --amount, in units of which the fee takes Fee
    CoinValue    \* the value of the coin --txid and --vout name

\* What the theorems assume of the constants.
Bounded == IsFiniteSet(Calls) /\ MaxRunning \in Nat /\ Amounts \subseteq Int

VARIABLES
    files,  \* what each file holds
    call,   \* what each invocation is doing, and with which key
    out,    \* what each has printed
    made,   \* keys made so far
    torn,   \* the names whose file a killed invocation left empty
    raced   \* the names two invocations found missing at the same time

vars == <<files, call, out, made, torn, raced>>

Missing == <<"missing">>
Empty == <<"empty">>
Wif(key) == <<"wif", key>>
NoKey == 0
Fee == 2  \* 20000 satoshis
Types == {"p2pkh", "p2wpkh", "np2wpkh", "raw", "other", "none"}
Commands == {"key", "address", "tx"}

Nothing == <<"nothing">>
Help == <<"help">>
Threw == <<"threw">>
Idle == [pc |-> "off", cmd |-> "key", name |-> NoName, type |-> "other",
         amount |-> 0, key |-> NoKey]

Init ==
    /\ files = [n \in Names |-> Missing]
    /\ call = [c \in Calls |-> Idle]
    /\ out = [c \in Calls |-> Nothing]
    /\ made = 0
    /\ torn = {}
    /\ raced = {}

Running == {c \in Calls : call[c].pc \notin {"off", "done"}}
Finish(c, printed) ==
    /\ call' = [call EXCEPT ![c].pc = "done"]
    /\ out' = [out EXCEPT ![c] = printed]

\* index.js takes the command from the arguments.
Start(c, cmd, name, type, amount) ==
    /\ call[c].pc = "off"
    /\ Cardinality(Running) < MaxRunning
    /\ call' = [call EXCEPT
        ![c] = [pc |-> cmd, cmd |-> cmd, name |-> name, type |-> type,
                amount |-> amount, key |-> NoKey]]
    /\ UNCHANGED <<files, out, made, torn, raced>>

\* cmds/key.js without a name, or with one.
KeyHelp(c) ==
    /\ call[c].pc = "key"
    /\ call[c].name = NoName
    /\ Finish(c, Help)
    /\ UNCHANGED <<files, made, torn, raced>>

\* Mutant: the path looked at is not the one that is written.
ExistsNever(name) == FALSE

Exists(name) == files[name] # Missing
Creating(name) ==
    {c \in Calls : call[c].pc \in {"create", "write"} /\ call[c].name = name}
KeyExists(c) ==
    LET name == call[c].name
    IN  /\ call[c].pc = "key"
        /\ name # NoName
        /\ call' = [call EXCEPT ![c].pc =
                        IF Exists(name) THEN "load" ELSE "create"]
        /\ raced' = IF ~Exists(name) /\ Creating(name) # {}
                    THEN raced \cup {name} ELSE raced
        /\ UNCHANGED <<files, out, made, torn>>

\* wallet.create: a random key, and the file emptied.
Create(c) ==
    /\ call[c].pc = "create"
    /\ made' = made + 1
    /\ call' = [call EXCEPT ![c].pc = "write", ![c].key = made']
    /\ files' = [files EXCEPT ![call[c].name] = Empty]
    /\ UNCHANGED <<out, torn, raced>>

\* Mutant: the key is printed and not written.
WriteLost(c) ==
    /\ call[c].pc = "write"
    /\ Finish(c, <<"key", call[c].name, call[c].key>>)
    /\ UNCHANGED <<files, made, torn, raced>>

Write(c) ==
    /\ call[c].pc = "write"
    /\ files' = [files EXCEPT ![call[c].name] = Wif(call[c].key)]
    /\ Finish(c, <<"key", call[c].name, call[c].key>>)
    /\ UNCHANGED <<made, torn, raced>>

\* wallet.load: a name that is undefined, a file that is not there and a WIF
\* that is empty all throw.
Loads(name) == IF name = NoName THEN Threw
               ELSE IF files[name][1] # "wif" THEN Threw ELSE files[name]

KeyLoad(c) ==
    LET held == Loads(call[c].name)
    IN  /\ call[c].pc = "load"
        /\ Finish(c, IF held = Threw THEN Threw
                     ELSE <<"key", call[c].name, held[2]>>)
        /\ UNCHANGED <<files, made, torn, raced>>

\* cmds/address.js loads the key before it looks at the name or the type.
Address(c) ==
    LET held == Loads(call[c].name)
    IN  /\ call[c].pc = "address"
        /\ Finish(c, IF held = Threw THEN Threw
                     ELSE IF call[c].type \in {"p2pkh", "p2wpkh", "np2wpkh"}
                     THEN <<"address", call[c].name, held[2]>> ELSE Help)
        /\ UNCHANGED <<files, made, torn, raced>>

\* cmds/tx.js looks at its arguments first, whichever is missing; here type.
\* lib/tx.js: one output of the amount less 20000, which the builder refuses
\* below zero; np2wpkh is signed over the amount, as if it were the coin's.
Paid(amount) == amount - Fee
SignedValue(type, amount) == IF type = "np2wpkh" THEN amount ELSE CoinValue
Tx(c) ==
    LET held == Loads(call[c].name)
        type == call[c].type
        amount == call[c].amount
    IN  /\ call[c].pc = "tx"
        /\ Finish(c, IF type = "none" THEN Help
                     ELSE IF held = Threw THEN Threw
                     ELSE IF type \notin {"p2pkh", "np2wpkh", "raw"} THEN Help
                     ELSE IF amount < Fee THEN Threw
                     ELSE <<"tx", call[c].name, held[2], type, Paid(amount),
                            SignedValue(type, amount), amount>>)
        /\ UNCHANGED <<files, made, torn, raced>>

Kill(c) ==
    /\ call[c].pc \notin {"off", "done"}
    /\ torn' = IF call[c].pc = "write" THEN torn \cup {call[c].name} ELSE torn
    /\ call' = [call EXCEPT ![c].pc = "done"]
    /\ UNCHANGED <<files, out, made, raced>>

Next ==
    \E c \in Calls :
        \/ \E cmd \in Commands, name \in Names \cup {NoName} :
            \E type \in (IF cmd = "key" THEN {"other"} ELSE Types),
               amount \in (IF cmd = "tx" THEN Amounts ELSE {0}) :
                Start(c, cmd, name, type, amount)
        \/ KeyHelp(c) \/ KeyExists(c) \/ Create(c) \/ Write(c) \/ KeyLoad(c)
        \/ Address(c) \/ Tx(c) \/ Kill(c)

Spec == Init /\ [][Next]_vars

(***************************************************************************)
(* Properties                                                              *)
(***************************************************************************)
\* Types of the variables.
TypeOK ==
    /\ files \in [Names -> {Missing, Empty}
                            \cup {Wif(k) : k \in 1 .. Cardinality(Calls)}]
    /\ made \in 0 .. Cardinality(Calls)
    /\ torn \subseteq Names /\ raced \subseteq Names
    /\ \A c \in Calls : call[c].key \in 0 .. made
    /\ Cardinality(Running) <= MaxRunning

Printed(c) == out[c][1] \in {"key", "address", "tx"}

\* Every key shown for a name, and every address and transaction made with
\* it, is the one in its file, unless two invocations created it at once:
\* killing one in between leaves no key that anybody has seen.
OneKeyPerName ==
    \A c \in Calls : Printed(c) /\ out[c][2] \notin raced =>
        files[out[c][2]] = Wif(out[c][3])

\* Once a name has shown its key, an invocation that reads it throws only
\* when two invocations created it at once; a kill alone cannot cause it.
ReadableOnceShown ==
    [][ \A c, d \in Calls :
            /\ out[c][1] = "key"
            /\ out'[d] = Threw /\ out[d] # Threw
            /\ call[d].name = out[c][2]
            /\ (call[d].cmd = "tx" => call[d].amount >= Fee)
            => call[d].name \in raced ]_vars

\* A wallet that cannot be read is one whose writer is still running or was
\* killed, and no command writes it again.
EmptyMeansTorn ==
    \A n \in Names : files[n] = Empty =>
        n \in torn \/ \E c \in Calls : call[c].pc = "write" /\ call[c].name = n
UnreadableStays ==
    [][ \A n \in Names : files[n] = Empty /\ Creating(n) = {}
            => files'[n] = Empty /\ Creating(n)' = {} ]_vars
=============================================================================
