------------------------- MODULE SegwitWallet_proofs -------------------------
(***************************************************************************)
(* Proofs about SegwitWallet, for any number of names and invocations.     *)
(***************************************************************************)
EXTENDS SegwitWallet, TLAPS, FiniteSetTheorems

CallStates ==
    [pc : Commands \cup {"off", "create", "write", "load", "done"},
     cmd : Commands, name : Names \cup {NoName}, type : Types,
     amount : Amounts \cup {0}, key : Nat]

\* An invocation makes at most one key, and writes no other.
Made == {c \in Calls : call[c].key # NoKey}
KeysMade ==
    /\ made = Cardinality(Made)
    /\ \A c \in Calls :
        /\ call[c].pc \in {"off", "key", "create"} => call[c].key = NoKey
        /\ call[c].pc = "write" => call[c].key # NoKey
        /\ call[c].pc \in {"create", "write", "load"} => call[c].name # NoName
        /\ call[c].pc = "tx" => call[c].cmd = "tx"

\* The file of a name nobody raced for is as its one maker left it.
OneMaker ==
    \A c \in Calls : call[c].name \notin raced =>
        /\ call[c].pc = "create" => files[call[c].name] = Missing
        /\ call[c].pc = "write" => files[call[c].name] = Empty
        /\ \A d \in Calls : /\ call[c].pc \in {"create", "write"}
                           /\ call[d].pc \in {"create", "write"}
                           /\ call[d].name = call[c].name => c = d

\* What was printed was printed for a name.
PrintedForName ==
    \A c \in Calls : Printed(c) => out[c][2] \in Names \ {NoName}

SegwitInv ==
    /\ TypeOK
    /\ call \in [Calls -> CallStates] /\ DOMAIN out = Calls
    /\ KeysMade
    /\ OneMaker
    /\ PrintedForName
    /\ OneKeyPerName
    /\ EmptyMeansTorn

Contents == {Missing, Empty} \cup {Wif(k) : k \in 1 .. Cardinality(Calls)}

LEMMA CallsFinite ==
    ASSUME Bounded, NEW S \in SUBSET Calls
    PROVE  /\ IsFiniteSet(S) /\ Cardinality(S) \in Nat
           /\ Cardinality(S) <= Cardinality(Calls) /\ Cardinality(Calls) \in Nat
BY FS_Subset, FS_CardinalityType DEF Bounded

LEMMA SegwitStarts == Bounded /\ Init => SegwitInv
<1> SUFFICES ASSUME Bounded, Init PROVE SegwitInv
    OBVIOUS
<1>1. Idle \in CallStates
    BY DEF Idle, CallStates, Commands, Types, NoKey
<1>2. \A c \in Calls : /\ call[c] = Idle /\ call[c].pc = "off"
                       /\ call[c].key = NoKey /\ ~Printed(c)
    BY DEF Init, Idle, Printed, Nothing
<1>3. call \in [Calls -> CallStates] /\ DOMAIN out = Calls
    BY <1>1 DEF Init
<1>4. Made = {} /\ Running = {} /\ Cardinality({}) = 0 /\ Cardinality(Calls) \in Nat
    BY <1>2, FS_EmptySet, CallsFinite DEF Made, Running
<1>5. TypeOK
    <2>1. files \in [Names -> Contents]
        BY DEF Init, Contents
    <2>2. /\ made \in 0 .. Cardinality(Calls) /\ Cardinality(Running) <= MaxRunning
          /\ \A c \in Calls : call[c].key \in 0 .. made
        BY <1>2, <1>4 DEF Init, Bounded, NoKey
    <2> QED
        BY <2>1, <2>2 DEF Init, TypeOK, Contents
<1>6. KeysMade
    BY <1>2, <1>4 DEF Init, KeysMade
<1>7. OneMaker /\ PrintedForName /\ OneKeyPerName
    BY <1>2 DEF OneMaker, PrintedForName, OneKeyPerName
<1>8. EmptyMeansTorn
    BY DEF Init, EmptyMeansTorn, Missing, Empty
<1> QED
    BY <1>3, <1>5, <1>6, <1>7, <1>8 DEF SegwitInv

\* An invocation that only changes its pc, its files as they were.
Quiet(c, pc) ==
    /\ call' = [call EXCEPT ![c].pc = pc]
    /\ UNCHANGED <<files, made>>

LEMMA QuietFacts ==
    ASSUME SegwitInv, NEW c \in Calls, NEW pc, Quiet(c, pc),
           pc \in {"load", "create", "done"}
    PROVE  /\ call' \in [Calls -> CallStates]
           /\ \A d \in Calls \ {c} : call'[d] = call[d]
           /\ call'[c].pc = pc
           /\ call'[c].name = call[c].name /\ call'[c].key = call[c].key
           /\ call'[c].cmd = call[c].cmd
           /\ Made' = Made
<1>1. /\ call' \in [Calls -> CallStates]
      /\ \A d \in Calls \ {c} : call'[d] = call[d]
      /\ call'[c].pc = pc
      /\ call'[c].name = call[c].name /\ call'[c].key = call[c].key
      /\ call'[c].cmd = call[c].cmd
    BY DEF SegwitInv, CallStates, Quiet, Commands
<1>2. Made' = Made
    BY <1>1 DEF Made
<1> QED
    BY <1>1, <1>2

\* No step but Start lets one more run.
LEMMA RunningShrinks ==
    ASSUME Bounded, SegwitInv, Running' \subseteq Running
    PROVE  Cardinality(Running') <= MaxRunning
<1>1. /\ IsFiniteSet(Running) /\ Cardinality(Running) <= MaxRunning
      /\ Cardinality(Running) \in Nat
    BY CallsFinite DEF SegwitInv, TypeOK, Running
<1>2. Cardinality(Running') <= Cardinality(Running) /\ Cardinality(Running') \in Nat
    BY <1>1, FS_Subset, FS_CardinalityType
<1> QED
    BY <1>1, <1>2 DEF Bounded

LEMMA StartKeeps ==
    ASSUME Bounded, SegwitInv, NEW c \in Calls, NEW cmd \in Commands,
           NEW name \in Names \cup {NoName}, NEW type \in Types,
           NEW amount \in Amounts \cup {0}, Start(c, cmd, name, type, amount)
    PROVE  SegwitInv'
<1>1. /\ call[c].pc = "off" /\ call[c].key = NoKey
      /\ call' = [call EXCEPT ![c] = [pc |-> cmd, cmd |-> cmd, name |-> name,
                     type |-> type, amount |-> amount, key |-> NoKey]]
      /\ UNCHANGED <<files, out, made, torn, raced>>
    BY DEF Start, SegwitInv, KeysMade
<1>2. /\ call' \in [Calls -> CallStates]
      /\ \A d \in Calls \ {c} : call'[d] = call[d]
      /\ call'[c].pc = cmd /\ call'[c].cmd = cmd /\ call'[c].name = name
      /\ call'[c].key = NoKey
    BY <1>1 DEF SegwitInv, CallStates, NoKey
<1>3. Made' = Made
    BY <1>1, <1>2 DEF Made
<1>4. Cardinality(Running') <= MaxRunning
    <2>1. Running' = Running \cup {c}
        BY <1>1, <1>2 DEF Running, Commands
    <2>5. c \notin Running
        BY <1>1 DEF Running
    <2>2. /\ IsFiniteSet(Running) /\ Cardinality(Running) \in Nat
          /\ Cardinality(Running) < MaxRunning
        BY CallsFinite DEF Running, Start
    <2>3. Cardinality(Running') = Cardinality(Running) + 1
        BY <2>5, <2>1, <2>2, FS_AddElement
    <2>4. Cardinality(Running') \in Nat
        BY <2>1, <2>2, FS_AddElement, FS_CardinalityType
    <2> QED
        BY <2>2, <2>3, <2>4 DEF Bounded
<1>5. TypeOK'
    BY <1>1, <1>2, <1>4 DEF SegwitInv, TypeOK, NoKey
<1>6. KeysMade'
    BY <1>1, <1>2, <1>3 DEF SegwitInv, KeysMade, Commands
<1>7. OneMaker'
    BY <1>1, <1>2, <1>3 DEF SegwitInv, OneMaker, Commands
<1>8. PrintedForName' /\ OneKeyPerName'
    BY <1>1 DEF SegwitInv, PrintedForName, OneKeyPerName, Printed
<1>9. EmptyMeansTorn'
    BY <1>1, <1>2 DEF SegwitInv, EmptyMeansTorn
<1>10. DOMAIN out' = Calls
    BY <1>1 DEF SegwitInv
<1> QED
    BY <1>2, <1>5, <1>6, <1>7, <1>8, <1>9, <1>10 DEF SegwitInv

\* An invocation that ends without touching a file, and prints a key only
\* when it found it in the file of its name.
LEMMA FinishKeeps ==
    ASSUME Bounded, SegwitInv, NEW c \in Calls, NEW printed,
           Finish(c, printed), UNCHANGED <<files, made, torn, raced>>,
           call[c].pc \in {"key", "load", "address", "tx"},
           printed[1] \in {"key", "address", "tx"} =>
                /\ call[c].name # NoName /\ printed[2] = call[c].name
                /\ files[call[c].name] = Wif(printed[3])
    PROVE  SegwitInv'
<1>1. /\ call' \in [Calls -> CallStates]
      /\ \A d \in Calls \ {c} : call'[d] = call[d]
      /\ call'[c].pc = "done"
      /\ call'[c].name = call[c].name /\ call'[c].key = call[c].key
      /\ Made' = Made
    BY QuietFacts DEF Finish, Quiet
<1>2. /\ DOMAIN out' = Calls /\ out'[c] = printed
      /\ \A d \in Calls \ {c} : out'[d] = out[d]
    BY DEF SegwitInv, Finish
<1>3. Running' \subseteq Running
    BY <1>1 DEF Running
<1>4. TypeOK'
    BY <1>1, <1>3, RunningShrinks DEF SegwitInv, TypeOK
<1>5. KeysMade'
    BY <1>1 DEF SegwitInv, KeysMade
<1>7. OneMaker'
    BY <1>1 DEF SegwitInv, OneMaker
<1>8. PrintedForName' /\ OneKeyPerName'
    <2>1. call[c].name \in Names \cup {NoName}
        BY DEF SegwitInv, CallStates
    <2> QED
        BY <1>2, <2>1 DEF SegwitInv, PrintedForName, OneKeyPerName, Printed
<1>9. EmptyMeansTorn'
    BY <1>1 DEF SegwitInv, EmptyMeansTorn
<1> QED
    BY <1>1, <1>2, <1>4, <1>5, <1>7, <1>8, <1>9 DEF SegwitInv

\* What a load that does not throw returns.
LEMMA LoadsWif ==
    ASSUME SegwitInv, NEW name \in Names \cup {NoName}, Loads(name) # Threw
    PROVE  /\ name # NoName /\ Loads(name) = files[name]
           /\ files[name] = Wif(files[name][2])
<1>1. name \in Names /\ name # NoName /\ files[name][1] = "wif"
    BY DEF Loads
<1>2. files[name] \in Contents
    BY <1>1 DEF SegwitInv, TypeOK, Contents
<1>3. PICK k : files[name] = Wif(k)
    BY <1>1, <1>2 DEF Contents, Missing, Empty
<1> QED
    BY <1>1, <1>3 DEF Loads, Wif

LEMMA ReadingKeeps ==
    ASSUME Bounded, SegwitInv, NEW c \in Calls,
           KeyHelp(c) \/ KeyLoad(c) \/ Address(c) \/ Tx(c)
    PROVE  SegwitInv'
<1> DEFINE name == call[c].name
           key == files[name][2]
<1>1. name \in Names \cup {NoName}
    BY DEF SegwitInv, CallStates
<1>2. Loads(name) # Threw => /\ name # NoName /\ Loads(name)[2] = key
                             /\ files[name] = Wif(key)
    BY <1>1, LoadsWif
<1> HIDE DEF name, key
<1>3. CASE KeyHelp(c)
    <2>1. Help[1] = "help"
        BY DEF Help
    <2> QED
        BY <1>3, <2>1, FinishKeeps DEF KeyHelp
<1>4. CASE KeyLoad(c)
    <2>1. PICK printed :
            /\ Finish(c, printed)
            /\ printed = IF Loads(name) = Threw THEN Threw
                         ELSE <<"key", name, Loads(name)[2]>>
        BY <1>4 DEF KeyLoad, name
    <2>2. printed[1] \in {"key", "address", "tx"} =>
            name # NoName /\ printed[2] = name /\ files[name] = Wif(printed[3])
        BY <1>2, <2>1 DEF Threw
    <2> QED
        BY <1>4, <2>1, <2>2, FinishKeeps DEF KeyLoad, name
<1>5. CASE Address(c)
    <2>1. PICK printed :
            /\ Finish(c, printed)
            /\ printed = IF Loads(name) = Threw THEN Threw
                         ELSE IF call[c].type \in {"p2pkh", "p2wpkh", "np2wpkh"}
                         THEN <<"address", name, Loads(name)[2]>> ELSE Help
        BY <1>5 DEF Address, name
    <2>2. printed[1] \in {"key", "address", "tx"} =>
            name # NoName /\ printed[2] = name /\ files[name] = Wif(printed[3])
        BY <1>2, <2>1 DEF Threw, Help
    <2> QED
        BY <1>5, <2>1, <2>2, FinishKeeps DEF Address, name
<1>6. CASE Tx(c)
    <2>1. PICK printed :
            /\ Finish(c, printed)
            /\ \/ printed \in {Help, Threw}
               \/ /\ Loads(name) # Threw
                  /\ \E t, p, s, m :
                        printed = <<"tx", name, Loads(name)[2], t, p, s, m>>
        BY <1>6 DEF Tx, name
    <2>2. printed[1] \in {"key", "address", "tx"} =>
            name # NoName /\ printed[2] = name /\ files[name] = Wif(printed[3])
        BY <1>2, <2>1 DEF Threw, Help
    <2> QED
        BY <1>6, <2>1, <2>2, FinishKeeps DEF Tx, name
<1> QED
    BY <1>3, <1>4, <1>5, <1>6

LEMMA KeyExistsKeeps ==
    ASSUME Bounded, SegwitInv, NEW c \in Calls, KeyExists(c)
    PROVE  SegwitInv'
<1> DEFINE name == call[c].name
<1>1. PICK pc \in {"load", "create"} :
        /\ call' = [call EXCEPT ![c].pc = pc]
        /\ pc = "create" <=> ~Exists(name)
    BY DEF KeyExists
<1>2. /\ call[c].pc = "key" /\ name # NoName /\ name \in Names
      /\ UNCHANGED <<files, out, made, torn>>
      /\ raced' = IF ~Exists(name) /\ Creating(name) # {}
                  THEN raced \cup {name} ELSE raced
    BY DEF KeyExists, SegwitInv, CallStates
<1>3. /\ call' \in [Calls -> CallStates]
      /\ \A d \in Calls \ {c} : call'[d] = call[d]
      /\ call'[c].pc = pc
      /\ call'[c].name = name /\ call'[c].key = call[c].key
      /\ Made' = Made
    BY <1>1, <1>2, QuietFacts DEF Quiet
<1>4. Running' \subseteq Running
    BY <1>2, <1>3 DEF Running
<1>5. raced' \subseteq Names /\ raced \subseteq raced'
    BY <1>2 DEF SegwitInv, TypeOK
<1>6. TypeOK'
    BY <1>2, <1>3, <1>4, <1>5, RunningShrinks DEF SegwitInv, TypeOK
<1>7. KeysMade'
    BY <1>2, <1>3 DEF SegwitInv, KeysMade
<1>8. OneMaker'
    <2>1. CASE pc = "load"
        BY <1>2, <1>3, <1>5, <2>1 DEF SegwitInv, OneMaker
    <2>2. CASE pc = "create"
        <3>1. files[name] = Missing
            BY <1>1, <2>2 DEF Exists
        <3>2. name \notin raced' => \A d \in Calls :
                call[d].pc \in {"create", "write"} => call[d].name # name
            BY <1>1, <1>2, <2>2 DEF Creating
        <3> QED
            BY <1>2, <1>3, <1>5, <2>2, <3>1, <3>2 DEF SegwitInv, OneMaker
    <2> QED
        BY <2>1, <2>2
<1>9. PrintedForName' /\ OneKeyPerName'
    BY <1>2, <1>5 DEF SegwitInv, PrintedForName, OneKeyPerName, Printed
<1>10. EmptyMeansTorn'
    BY <1>2, <1>3 DEF SegwitInv, EmptyMeansTorn
<1>11. DOMAIN out' = Calls
    BY <1>2 DEF SegwitInv
<1> QED
    BY <1>3, <1>6, <1>7, <1>8, <1>9, <1>10, <1>11 DEF SegwitInv

LEMMA CreateKeeps ==
    ASSUME Bounded, SegwitInv, NEW c \in Calls, Create(c)
    PROVE  SegwitInv'
<1> DEFINE name == call[c].name
<1>1. /\ call[c].pc = "create" /\ call[c].key = NoKey
      /\ name \in Names /\ made' = made + 1
      /\ call' = [call EXCEPT ![c].pc = "write", ![c].key = made']
      /\ files' = [files EXCEPT ![name] = Empty]
      /\ UNCHANGED <<out, torn, raced>>
    BY DEF Create, SegwitInv, KeysMade, CallStates
<1>2. /\ made \in Nat /\ made' \in Nat /\ made' # NoKey
      /\ files \in [Names -> Contents]
    BY <1>1, CallsFinite DEF SegwitInv, TypeOK, NoKey, Contents
<1>3. /\ call' \in [Calls -> CallStates]
      /\ \A d \in Calls \ {c} : call'[d] = call[d]
      /\ call'[c].pc = "write" /\ call'[c].key = made'
      /\ call'[c].name = name /\ call'[c].cmd = call[c].cmd
    BY <1>1, <1>2 DEF SegwitInv, CallStates
<1>4. /\ files' \in [Names -> Contents] /\ files'[name] = Empty
      /\ \A n \in Names \ {name} : files'[n] = files[n]
    BY <1>1, <1>2 DEF Contents
<1>5. Made' = Made \cup {c} /\ c \notin Made
    BY <1>1, <1>2, <1>3 DEF Made
<1>6. made' = Cardinality(Made') /\ made' \in 0 .. Cardinality(Calls)
    <2>1. IsFiniteSet(Made) /\ made = Cardinality(Made)
        BY CallsFinite DEF Made, SegwitInv, KeysMade
    <2>2. Cardinality(Made') = made + 1
        BY <1>5, <2>1, FS_AddElement
    <2>3. Cardinality(Made') <= Cardinality(Calls) /\ Cardinality(Calls) \in Nat
        BY <1>5, CallsFinite DEF Made
    <2> QED
        BY <1>1, <1>2, <2>2, <2>3
<1>7. Running' \subseteq Running
    BY <1>1, <1>3 DEF Running
<1>8. \A d \in Calls : call'[d].key \in 0 .. made'
    BY <1>1, <1>2, <1>3 DEF SegwitInv, TypeOK
<1>9. TypeOK'
    BY <1>1, <1>4, <1>6, <1>7, <1>8, RunningShrinks DEF SegwitInv, TypeOK, Contents
<1>10. KeysMade'
    BY <1>1, <1>2, <1>3, <1>6 DEF SegwitInv, KeysMade
<1>12. OneMaker'
    <2>1. \A d \in Calls : call[d].name = name /\ d # c /\ name \notin raced =>
            call[d].pc \notin {"create", "write"}
        BY <1>1 DEF SegwitInv, OneMaker
    <2>2. \A d \in Calls : call[d].pc \in {"create", "write"} => call[d].name \in Names
        BY DEF SegwitInv, KeysMade, CallStates
    <2> QED
        BY <1>1, <1>3, <1>4, <2>1, <2>2 DEF SegwitInv, OneMaker
<1>13. PrintedForName' /\ OneKeyPerName'
    <2>1. name \notin raced => files[name] = Missing
        BY <1>1 DEF SegwitInv, OneMaker
    <2> QED
        BY <1>1, <1>4, <2>1
           DEF SegwitInv, PrintedForName, OneKeyPerName, Printed, Missing, Wif
<1>14. EmptyMeansTorn'
    BY <1>1, <1>3, <1>4 DEF SegwitInv, EmptyMeansTorn
<1>15. DOMAIN out' = Calls
    BY <1>1 DEF SegwitInv
<1> QED
    BY <1>3, <1>9, <1>10, <1>12, <1>13, <1>14, <1>15 DEF SegwitInv

LEMMA WriteKeeps ==
    ASSUME Bounded, SegwitInv, NEW c \in Calls, Write(c)
    PROVE  SegwitInv'
<1> DEFINE name == call[c].name
           printed == <<"key", name, call[c].key>>
<1>1. /\ call[c].pc = "write" /\ name \in Names \ {NoName}
      /\ call[c].key \in 1 .. Cardinality(Calls)
      /\ files' = [files EXCEPT ![name] = Wif(call[c].key)]
      /\ UNCHANGED <<made, torn, raced>>
    BY CallsFinite DEF Write, SegwitInv, KeysMade, CallStates, TypeOK, NoKey
<1>2. Finish(c, printed) /\ printed[2] = name /\ printed[3] = call[c].key
    BY DEF Write
<1> HIDE DEF printed
<1>3. /\ call' \in [Calls -> CallStates]
      /\ \A d \in Calls \ {c} : call'[d] = call[d]
      /\ call'[c].pc = "done" /\ call'[c].key = call[c].key
      /\ call'[c].name = name /\ call'[c].cmd = call[c].cmd
    BY <1>2 DEF SegwitInv, CallStates, Finish
<1>4. /\ files' \in [Names -> Contents] /\ files'[name] = Wif(call[c].key)
      /\ \A n \in Names \ {name} : files'[n] = files[n]
    BY <1>1 DEF SegwitInv, TypeOK, Contents
<1>5. /\ DOMAIN out' = Calls /\ out'[c] = printed
      /\ \A d \in Calls \ {c} : out'[d] = out[d]
    BY <1>2 DEF SegwitInv, Finish
<1>6. Made' = Made /\ Running' \subseteq Running
    BY <1>3 DEF Made, Running
<1>7. TypeOK'
    BY <1>1, <1>3, <1>4, <1>6, RunningShrinks DEF SegwitInv, TypeOK, Contents
<1>8. KeysMade'
    BY <1>1, <1>3, <1>6 DEF SegwitInv, KeysMade
<1>9. name \notin raced => files[name] = Empty
    BY <1>1 DEF SegwitInv, OneMaker
<1>10. OneMaker'
    <2>1. \A d \in Calls \ {c} : call[d].name = name /\ name \notin raced =>
            call[d].pc \notin {"create", "write"}
        BY <1>1 DEF SegwitInv, OneMaker
    <2>2. \A d \in Calls : call[d].pc \in {"create", "write"} => call[d].name \in Names
        BY DEF SegwitInv, KeysMade, CallStates
    <2> QED
        BY <1>1, <1>3, <1>4, <2>1, <2>2 DEF SegwitInv, OneMaker
<1>11. PrintedForName' /\ OneKeyPerName'
    BY <1>1, <1>2, <1>4, <1>5, <1>9
       DEF SegwitInv, PrintedForName, OneKeyPerName, Printed, Empty, Wif
<1>12. EmptyMeansTorn'
    BY <1>1, <1>3, <1>4 DEF SegwitInv, EmptyMeansTorn, Empty, Wif
<1> QED
    BY <1>3, <1>5, <1>7, <1>8, <1>10, <1>11, <1>12 DEF SegwitInv

LEMMA KillKeeps ==
    ASSUME Bounded, SegwitInv, NEW c \in Calls, Kill(c)
    PROVE  SegwitInv'
<1>1. /\ call' = [call EXCEPT ![c].pc = "done"]
      /\ torn' = IF call[c].pc = "write" THEN torn \cup {call[c].name} ELSE torn
      /\ UNCHANGED <<files, out, made, raced>>
      /\ call[c].pc = "write" => call[c].name \in Names
    BY DEF Kill, SegwitInv, KeysMade, CallStates
<1>2. /\ call' \in [Calls -> CallStates]
      /\ \A d \in Calls \ {c} : call'[d] = call[d]
      /\ call'[c].pc = "done"
      /\ call'[c].name = call[c].name /\ call'[c].key = call[c].key
      /\ Made' = Made
    BY <1>1, QuietFacts DEF Quiet
<1>3. Running' \subseteq Running
    BY <1>2 DEF Running, Kill
<1>4. torn' \subseteq Names
    BY <1>1 DEF SegwitInv, TypeOK
<1>5. TypeOK'
    BY <1>1, <1>2, <1>3, <1>4, RunningShrinks DEF SegwitInv, TypeOK
<1>6. KeysMade'
    BY <1>1, <1>2 DEF SegwitInv, KeysMade
<1>7. OneMaker'
    BY <1>1, <1>2 DEF SegwitInv, OneMaker
<1>8. PrintedForName' /\ OneKeyPerName'
    BY <1>1 DEF SegwitInv, PrintedForName, OneKeyPerName, Printed
<1>9. EmptyMeansTorn'
    BY <1>1, <1>2 DEF SegwitInv, EmptyMeansTorn
<1>10. DOMAIN out' = Calls
    BY <1>1 DEF SegwitInv
<1> QED
    BY <1>2, <1>5, <1>6, <1>7, <1>8, <1>9, <1>10 DEF SegwitInv

LEMMA SegwitStep == Bounded /\ SegwitInv /\ [Next]_vars => SegwitInv'
<1> SUFFICES ASSUME Bounded, SegwitInv, [Next]_vars PROVE SegwitInv'
    OBVIOUS
<1>1. CASE UNCHANGED vars
    BY <1>1 DEF vars, SegwitInv, TypeOK, KeysMade, Made, Running, OneMaker,
                PrintedForName, OneKeyPerName, Printed, EmptyMeansTorn
<1>2. ASSUME NEW c \in Calls,
             \E cmd \in Commands, name \in Names \cup {NoName} :
                \E type \in (IF cmd = "key" THEN {"other"} ELSE Types),
                   amount \in (IF cmd = "tx" THEN Amounts ELSE {0}) :
                        Start(c, cmd, name, type, amount)
      PROVE  SegwitInv'
    <2>1. PICK cmd \in Commands, name \in Names \cup {NoName}, type \in Types,
               amount \in Amounts \cup {0} : Start(c, cmd, name, type, amount)
        BY <1>2 DEF Types
    <2> QED
        BY <2>1, StartKeeps
<1> QED
    BY <1>1, <1>2, ReadingKeeps, KeyExistsKeeps, CreateKeeps, WriteKeeps, KillKeeps
       DEF Next

\* The invariant the theorems rest on: which invocation made which key and
\* how it left the file.
THEOREM SegwitInvariant == Bounded /\ Spec => []SegwitInv
<1> SUFFICES ASSUME Bounded PROVE Spec => []SegwitInv
    OBVIOUS
<1>1. Init => SegwitInv
    BY SegwitStarts
<1>2. SegwitInv /\ [Next]_vars => SegwitInv'
    BY SegwitStep
<1> QED
    BY <1>1, <1>2, PTL DEF Spec

\* Once a name has shown its key, a call that reads it throws only when two
\* created it at once (cmds/key.js, wallet.js).
LEMMA ReadableStep ==
    ASSUME Bounded, SegwitInv, [Next]_vars, NEW c \in Calls, NEW d \in Calls,
           out[c][1] = "key", out'[d] = Threw, out[d] # Threw,
           call[d].name = out[c][2],
           call[d].cmd = "tx" => call[d].amount >= Fee
    PROVE  call[d].name \in raced
<1> DEFINE name == call[d].name
<1> SUFFICES ASSUME name \notin raced PROVE FALSE
    OBVIOUS
<1>1. name \in Names \ {NoName} /\ files[name] = Wif(out[c][3])
    BY DEF SegwitInv, PrintedForName, OneKeyPerName, Printed
<1>2. Loads(name) = files[name] /\ Loads(name) # Threw
    BY <1>1 DEF Loads, Wif, Threw
<1>3. Help # Threw /\ \A n, k : <<"key", n, k>> # Threw /\ <<"address", n, k>> # Threw
    <2>1. Help[1] = "help" /\ Threw[1] = "threw"
        BY DEF Help, Threw
    <2>2. \A n, k : <<"key", n, k>>[1] = "key" /\ <<"address", n, k>>[1] = "address"
        OBVIOUS
    <2> QED
        BY <2>1, <2>2
<1>4. \A e \in Calls : \A printed : Finish(e, printed) => e = d /\ printed = Threw
    BY DEF Finish, SegwitInv
<1>5. ~UNCHANGED out
    OBVIOUS
<1>6. \A e \in Calls : ~KeyHelp(e) /\ ~Write(e)
    BY <1>3, <1>4 DEF KeyHelp, Write
<1>7. \A e \in Calls : ~KeyLoad(e) /\ ~Address(e)
    BY <1>2, <1>3, <1>4 DEF KeyLoad, Address
<1>8. \A e \in Calls : ~Tx(e)
    <2> SUFFICES ASSUME NEW e \in Calls, Tx(e) PROVE FALSE
        OBVIOUS
    <2>1. call[e].cmd = "tx"
        BY DEF Tx, SegwitInv, KeysMade
    <2>2. PICK printed :
            /\ Finish(e, printed)
            /\ \/ printed = Help
               \/ Loads(call[e].name) = Threw
               \/ call[e].amount < Fee
               \/ printed[1] = "tx"
        BY DEF Tx
    <2>3. e = d /\ printed = Threw
        BY <1>4, <2>2
    <2>4. call[d].amount < Fee
        BY <1>2, <1>3, <2>2, <2>3 DEF Threw
    <2>5. call[d].amount >= Fee
        BY <2>1, <2>3
    <2>6. call[d].amount \in Amounts \cup {0}
        BY DEF SegwitInv, CallStates
    <2>7. call[d].amount \in Int
        <3>1. Amounts \subseteq Int /\ 0 \in Int
            BY DEF Bounded
        <3> QED
            BY <2>6, <3>1
    <2> QED
        BY <2>4, <2>5, <2>7 DEF Fee
<1> QED
    BY <1>5, <1>6, <1>7, <1>8 DEF Next, vars, Start, KeyExists, Create, Kill

\* What is printed for a name is the key in its file, unless two invocations
\* created it at once; only a kill leaves a file empty (cmds/key.js 3-16).
THEOREM KeyIsStored == Bounded /\ Spec => [](TypeOK /\ OneKeyPerName /\ EmptyMeansTorn)
<1>1. SegwitInv => TypeOK /\ OneKeyPerName /\ EmptyMeansTorn
    BY DEF SegwitInv
<1> QED
    BY <1>1, SegwitInvariant, PTL

\* A name that has shown its key is read again by every later call.
THEOREM ShownIsReadable == Bounded /\ Spec => ReadableOnceShown
<1> SUFFICES ASSUME Bounded PROVE Spec => ReadableOnceShown
    OBVIOUS
<1>1. Spec => []SegwitInv
    BY SegwitInvariant
<1>2. SegwitInv /\ [Next]_vars =>
        \A c, d \in Calls :
            /\ out[c][1] = "key"
            /\ out'[d] = Threw /\ out[d] # Threw
            /\ call[d].name = out[c][2]
            /\ (call[d].cmd = "tx" => call[d].amount >= Fee)
            => call[d].name \in raced
    BY ReadableStep
<1> QED
    BY <1>1, <1>2, PTL DEF Spec, ReadableOnceShown

\* A file left empty, with nobody creating it, stays empty: every command
\* only looks for the file (cmds/key.js 6).
THEOREM EmptyIsFinal == Bounded /\ Spec => UnreadableStays
<1> SUFFICES ASSUME Bounded PROVE Spec => UnreadableStays
    OBVIOUS
<1>1. Spec => []SegwitInv
    BY SegwitInvariant
<1>2. SegwitInv /\ [Next]_vars =>
        \A n \in Names : files[n] = Empty /\ Creating(n) = {}
            => files'[n] = Empty /\ Creating(n)' = {}
    <2> SUFFICES ASSUME SegwitInv, [Next]_vars, NEW n \in Names,
                        files[n] = Empty, Creating(n) = {}
                 PROVE  files'[n] = Empty /\ Creating(n)' = {}
        OBVIOUS
    <2>1. /\ call \in [Calls -> CallStates] /\ files \in [Names -> Contents]
          /\ \A c \in Calls : call[c].pc \in {"create", "write"} => call[c].name # n
        BY DEF SegwitInv, TypeOK, Contents, Creating
    <2>2. CASE UNCHANGED vars
        BY <2>1, <2>2 DEF vars, Creating
    <2>3. ASSUME NEW c \in Calls, NEW cmd \in Commands, NEW name, NEW type,
                 NEW amount, Start(c, cmd, name, type, amount)
          PROVE  files'[n] = Empty /\ Creating(n)' = {}
        BY <2>1, <2>3 DEF Start, Creating, Commands
    <2>4. ASSUME NEW c \in Calls, KeyExists(c)
          PROVE  files'[n] = Empty /\ Creating(n)' = {}
        BY <2>1, <2>4 DEF KeyExists, Exists, Creating, Missing, Empty, CallStates
    <2>5. ASSUME NEW c \in Calls, Create(c) \/ Write(c)
          PROVE  files'[n] = Empty /\ Creating(n)' = {}
        BY <2>1, <2>5 DEF Create, Write, Finish, Creating, CallStates
    <2>6. ASSUME NEW c \in Calls,
                 KeyHelp(c) \/ KeyLoad(c) \/ Address(c) \/ Tx(c) \/ Kill(c)
          PROVE  files'[n] = Empty /\ Creating(n)' = {}
        <3>1. call' = [call EXCEPT ![c].pc = "done"] /\ files' = files
            BY <2>6 DEF KeyHelp, KeyLoad, Address, Tx, Kill, Finish
        <3> QED
            BY <2>1, <3>1 DEF Creating, CallStates
    <2> QED
        BY <2>2, <2>3, <2>4, <2>5, <2>6 DEF Next
<1> QED
    BY <1>1, <1>2, PTL DEF Spec, UnreadableStays
=============================================================================
