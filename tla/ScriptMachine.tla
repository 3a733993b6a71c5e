---------------------------- MODULE ScriptMachine ----------------------------
(***************************************************************************)
(* What the Bitcoin network checks of a transaction: the scripts of its    *)
(* inputs, run on a stack, and the digests its signatures have to be over. *)
(* External to the repository: it is written from the wire alone, and only *)
(* the opcodes the repository's scripts use are there.                     *)
(***************************************************************************)
EXTENDS RawTransaction

Fail == << <<"fail">> >>
Num(n) == <<"num", n>>
Top(stack, k) == stack[Len(stack) - k + 1]
Pop(stack, k) == SubSeq(stack, 1, Len(stack) - k)
Bool(b) == Num(IF b THEN 1 ELSE 0)

\* The digests of BIP143 and of the original protocol, from the wire.
LegacyDigest(wire, n, code, hashType) ==
    LET alone(v, i) == [v EXCEPT !.script = IF i = n THEN code ELSE <<>>]
        others(v, i) == IF hashType = All \/ i = n THEN v
                        ELSE [v EXCEPT !.sequence = 0]
    IN  <<"legacy",
          [wire EXCEPT
            !.marker = FALSE, !.witness = <<>>,
            !.ins = [i \in DOMAIN @ |-> others(alone(@[i], i), i)],
            !.outs = IF hashType = All THEN @
                     ELSE IF hashType = SingleOutput THEN SubSeq(@, 1, n)
                     ELSE <<>>],
          hashType>>
V0Digest(wire, n, code, value, hashType) ==
    <<"v0", wire.version,
      [i \in DOMAIN wire.ins |-> <<wire.ins[i].hash, wire.ins[i].index>>],
      IF hashType = All THEN [i \in DOMAIN wire.ins |-> wire.ins[i].sequence]
                        ELSE <<>>,
      <<wire.ins[n].hash, wire.ins[n].index>>, code, value,
      wire.ins[n].sequence,
      IF hashType = All THEN wire.outs
      ELSE IF hashType = SingleOutput THEN SubSeq(wire.outs, n, n)
      ELSE <<>>,
      wire.locktime, hashType>>

Signs(sig, pubkey, Digest(_)) ==
    /\ sig[1] = "sig" /\ pubkey[1] = "pubkey"
    /\ sig[2] = pubkey[2] /\ sig[3] = Digest(sig[4])

\* One opcode or push: the stack after it.
Step(stack, c, Digest(_)) ==
    LET need(k) == Len(stack) >= k
        drop(k, t) == Append(Pop(stack, k), t)
    IN  IF stack = Fail THEN Fail
        ELSE IF c[1] = "push" THEN Append(stack, c[2])
        ELSE IF c[1] = "small" THEN Append(stack, Num(c[2]))
        ELSE CASE c[2] = "DUP" /\ need(1) -> Append(stack, Top(stack, 1))
               [] c[2] = "HASH160" /\ need(1) ->
                    drop(1, <<"hash160", Top(stack, 1)>>)
               [] c[2] = "SHA256" /\ need(1) ->
                    drop(1, <<"sha256", Top(stack, 1)>>)
               [] c[2] = "EQUAL" /\ need(2) ->
                    drop(2, Bool(Top(stack, 1) = Top(stack, 2)))
               [] c[2] = "EQUALVERIFY" /\ need(2) ->
                    IF Top(stack, 1) = Top(stack, 2) THEN Pop(stack, 2)
                                                     ELSE Fail
               [] c[2] = "CHECKSIG" /\ need(2) ->
                    drop(2, Bool(Signs(Top(stack, 2), Top(stack, 1), Digest)))
               [] c[2] = "CHECKMULTISIG" /\ need(7) ->
                    \* dummy sig1 sig2 2 key1 key2 2, the only shape used
                    drop(7, Bool(/\ Top(stack, 1) = Num(2)
                                 /\ Top(stack, 4) = Num(2)
                                 /\ Signs(Top(stack, 6), Top(stack, 3), Digest)
                                 /\ Signs(Top(stack, 5), Top(stack, 2), Digest)))
               [] OTHER -> Fail

Execute(script, stack, Digest(_)) ==
    FoldLeft(LAMBDA st, c : Step(st, c, Digest), stack, script)
Succeeds(stack) == stack # Fail /\ stack # <<>> /\ Last(stack) # Num(0)

IsP2sh(script) == /\ Len(script) = 3 /\ script[1] = Op("HASH160")
                  /\ script[2][1] = "push" /\ script[3] = Op("EQUAL")
IsP2wpkh(script) == /\ Len(script) = 2 /\ script[1] = SmallOp(0)
                    /\ script[2][1] = "push" /\ script[2][3] = 20
PushOnly(script) == \A i \in DOMAIN script :
                        script[i][1] \in {"push", "small"}

\* Input n of the wire may spend the coin, which has a script and a value.
VerifyInput(wire, n, coin) ==
    LET script == wire.ins[n].script
        sigStack == Execute(script, <<>>, LAMBDA ht : <<"none">>)
        keyCode == <<Op("DUP"), Op("HASH160"), coin.script[2],
                     Op("EQUALVERIFY"), Op("CHECKSIG")>>
    IN  IF IsP2wpkh(coin.script)
        THEN /\ script = <<>> /\ wire.marker /\ Len(wire.witness[n]) = 2
             /\ Succeeds(Execute(keyCode,
                    [i \in 1 .. 2 |-> wire.witness[n][i][2]],
                    LAMBDA ht : V0Digest(wire, n, keyCode, coin.value, ht)))
        ELSE /\ wire.marker => wire.witness[n] = <<>>
             /\ PushOnly(script)
             /\ Succeeds(Execute(coin.script, sigStack,
                    LAMBDA ht : LegacyDigest(wire, n, coin.script, ht)))
             /\ IsP2sh(coin.script) =>
                    /\ Top(sigStack, 1)[1] = "script"
                    /\ LET redeem == Top(sigStack, 1)[2]
                       IN  Succeeds(Execute(redeem, Pop(sigStack, 1),
                               LAMBDA ht : LegacyDigest(wire, n, redeem, ht)))

\* A wire with the marker has one stack per input, or its end is misread.
WellFormed(wire) == wire.marker => Len(wire.witness) = Len(wire.ins)

ValueOf(outs) == Total(outs, LAMBDA o : o.value)

\* The whole transaction, against the coins its inputs name.
Accepts(wire, coins) ==
    /\ WellFormed(wire)
    /\ \A i \in DOMAIN wire.ins : VerifyInput(wire, i, coins[i])
    /\ ValueOf(wire.outs) <= ValueOf(coins)
=============================================================================
