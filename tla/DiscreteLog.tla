---------------------------- MODULE DiscreteLog -----------------------------
(***************************************************************************)
(* dlog: meet in the middle.  A table of h / g^x1 for every x1, then the   *)
(* powers of g^B are looked up in it.  "go1" inverts the power of g, "go2" *)
(* raises the inverse of g.                                                *)
(***************************************************************************)
EXTENDS Integers

CONSTANTS
    Primes, \* moduli, all of them prime (IsPrime)
    Bs      \* bases for the digits x0, x1 of x, all of them positive

\* A number above one that nothing between one and itself divides.
IsPrime(n) == n \in Nat \ {0, 1} /\ \A d \in 2 .. n - 1 : n % d # 0

VARIABLES
    variant, \* "go1" or "go2"
    p, g, h, \* the arguments
    B,       \* the base
    x,       \* the exponent that h was made with
    x1,      \* counter of buildLeftLookup
    lookup,  \* the table: for a residue the x1 it was stored with, or 0
    x0,      \* counter of searchLeft
    step,    \* "left", "right", "found" or "panic"
    result   \* what is printed

vars == <<variant, p, g, h, B, x, x1, lookup, x0, step, result>>
args == <<variant, p, g, h, B, x>>

Power(b, e) ==
    LET pow[k \in 0 .. e] == IF k = 0 THEN 1 % p ELSE (pow[k - 1] * b) % p
    IN pow[e]
ModInverse(b) == CHOOSE i \in 1 .. p - 1 : (b * i) % p = 1

Init ==
    /\ variant \in {"go1", "go2"}
    /\ p \in Primes
    /\ g \in 1 .. p - 1
    /\ B \in Bs
    /\ x \in 1 .. B * B
    /\ h = Power(g, x)
    /\ x1 = 0
    /\ x0 = 2
    /\ lookup = [r \in 0 .. p - 1 |-> 0]
    /\ step = "left"
    /\ result = 0

\* Mutant: go2 forgets to multiply by h.
LeftNoH ==
    IF variant = "go1" THEN (h * ModInverse(Power(g, x1 + 1))) % p
    ELSE Power(ModInverse(g), x1 + 1)

\* The residue of the next x1.
Left ==
    IF variant = "go1" THEN (h * ModInverse(Power(g, x1 + 1))) % p
    ELSE (Power(ModInverse(g), x1 + 1) * h) % p

\* A turn of buildLeftLookup; a residue that comes back keeps the last x1.
BuildLeft ==
    /\ step = "left"
    /\ IF x1 <= B
       THEN /\ x1' = x1 + 1
            /\ lookup' = [lookup EXCEPT ![Left] = x1 + 1]
            /\ UNCHANGED step
       ELSE step' = "right" /\ UNCHANGED <<x1, lookup>>
    /\ UNCHANGED <<args, x0, result>>

\* A turn of searchLeft: x0 is 3 when the first power is taken.
SearchLeft ==
    /\ step = "right"
    /\ IF x0 <= B
       THEN LET x1Found == lookup[Power(g, (x0 + 1) * B)] IN
            /\ x0' = x0 + 1
            /\ step' = IF x1Found # 0 THEN "found" ELSE "right"
            /\ result' = IF x1Found # 0 THEN (x0 + 1) * B + x1Found ELSE 0
       ELSE step' = "panic" /\ UNCHANGED <<x0, result>>
    /\ UNCHANGED <<args, x1, lookup>>

Next == BuildLeft \/ SearchLeft

Spec == Init /\ [][Next]_vars

(***************************************************************************)
(* Properties                                                              *)
(***************************************************************************)
\* Types of the variables; the counters end one past the base.
TypeOK ==
    /\ x1 \in 0 .. B + 1
    /\ x0 \in {2} \cup 3 .. B + 1
    /\ lookup \in [0 .. p - 1 -> 0 .. B + 1]
    /\ step \in {"left", "right", "found", "panic"}

\* What is printed is a logarithm of h.
Sound == step = "found" => Power(g, result) = h

\* An exponent from 3 B + 1 is found, where the table and the search meet.
FoundFromThreeB == x > 3 * B => step # "panic"
=============================================================================
