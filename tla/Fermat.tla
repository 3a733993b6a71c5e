------------------------------- MODULE Fermat -------------------------------
(***************************************************************************)
(* primes/test1, test2 and test3: a number with two factors that are close *)
(* to each other, or in a ratio close to 2 : 3, is taken apart around its  *)
(* square root.                                                            *)
(***************************************************************************)
EXTENDS Integers

CONSTANT MaxFactor \* bound on the factors the number is made from

VARIABLES
    variant, \* "test1", "test2" or "test3"
    f1, f2,  \* the factors that N was made from
    A,       \* the middle of the two factors
    p, q,    \* the factors found
    step     \* "start", "search" or "printed"

vars == <<variant, f1, f2, A, p, q, step>>
args == <<variant, f1, f2>>

N == f1 * f2

\* Sqrt of a big.Int: rounded down.
Sqrt(n) == CHOOSE r \in 0 .. n : r * r <= n /\ n < (r + 1) * (r + 1)

Odd == {f \in 1 .. MaxFactor : f % 2 = 1}
Init ==
    /\ variant \in {"test1", "test2", "test3"}
    /\ f1 \in Odd \ {1} /\ f2 \in Odd \ {1} /\ f1 <= f2
    /\ A = 0 /\ p = 0 /\ q = 0
    /\ step = "start"

\* Mutant: two more than the root.
MiddlePlusTwo(n) == Sqrt(n) + 2

\* One more than the root, also where the root is exact.
Middle(n) == Sqrt(n) + 1
FindX(a, n) == Sqrt(a * a - n)

Test1 ==
    /\ variant = "test1" /\ step = "start"
    /\ A' = Middle(N)
    /\ p' = A' - FindX(A', N)
    /\ q' = A' + FindX(A', N)
    /\ step' = "printed"
    /\ UNCHANGED args

\* test2 adds one at the start of every turn.
Test2Start ==
    /\ variant = "test2" /\ step = "start"
    /\ A' = Sqrt(N)
    /\ step' = "search"
    /\ UNCHANGED <<args, p, q>>

Test2Turn ==
    /\ step = "search"
    /\ A' = A + 1
    /\ p' = A' - FindX(A', N)
    /\ q' = A' + FindX(A', N)
    /\ step' = IF p' * q' = N THEN "printed" ELSE "search"
    /\ UNCHANGED args

\* test3: around the root of 24 N = 6 p * 4 q.
Test3 ==
    /\ variant = "test3" /\ step = "start"
    /\ A' = Middle(24 * N)
    /\ p' = (A' - FindX(A', 24 * N)) \div 6
    /\ q' = (A' + FindX(A', 24 * N)) \div 4
    /\ step' = "printed"
    /\ UNCHANGED args

Next == Test1 \/ Test2Start \/ Test2Turn \/ Test3

Spec == Init /\ [][Next]_vars /\ WF_vars(Next)

(***************************************************************************)
(* Properties                                                              *)
(***************************************************************************)
Abs(n) == IF n < 0 THEN -n ELSE n
Power4(n) == n * n * n * n
Square == f1 = f2
\* README.md of primes: |p - q| < 2 N^(1/4), and |3p - 2q| < N^(1/4).
Near == Power4(f2 - f1) < 16 * N
NearRatio(a, b) == Power4(Abs(3 * a - 2 * b)) < N

\* Types of the variables; the search of test2 stays where a factor can be.
TypeOK ==
    /\ f1 \in Odd /\ f2 \in Odd
    /\ A \in Nat /\ p \in Nat /\ q \in Nat
    /\ step \in {"start", "search", "printed"}
    /\ step = "search" => 2 * A <= f1 + f2 \/ Square

\* test1 finds the factors of every number whose factors are near and differ.
NearIsFound ==
    variant = "test1" /\ step = "printed" /\ Near /\ ~Square => p = f1 /\ q = f2

\* test2 prints the two factors of N that are nearest to each other, but not
\* two equal ones.
NearestIsFound ==
    variant = "test2" /\ step = "printed" =>
        /\ p * q = N
        /\ \A a \in p + 1 .. Sqrt(N) : N % a = 0 => a * a = N

\* test3 finds the factors in a ratio near 2 : 3, when it is the smaller one
\* that is a little less than two thirds of the other.
RatioIsFound ==
    variant = "test3" /\ step = "printed" /\ NearRatio(f1, f2)
        /\ 3 * f1 < 2 * f2 => p = f1 /\ q = f2

\* The loop of test2 finds factors of every odd number.
SearchEnds == variant = "test2" ~> step = "printed"
=============================================================================
