----------------------------- MODULE MerkleTree -----------------------------
(***************************************************************************)
(* merkleRoot of bitcoin/merkle-tree.js, called again and again on one     *)
(* list.  A leaf is its number, the double hash of two nodes is their      *)
(* pair.                                                                   *)
(***************************************************************************)
EXTENDS Naturals, Sequences

CONSTANTS
    MaxLeaves,  \* bound on the length of the list
    StackDepth, \* the calls the stack of the engine has room for
    MaxCalls    \* bound on the calls

ASSUME BoundsAssumption ==
    /\ MaxLeaves \in Nat /\ MaxCalls \in Nat
    /\ StackDepth \in Nat /\ StackDepth > MaxLeaves

VARIABLES
    size,    \* how many leaves the caller's list was made with
    leaves,  \* the caller's list, which the first level shares
    nodes,   \* childNodes of the innermost call
    depth,   \* the recursive calls that wait
    state,   \* "idle", "recursing", "returned" or "threw"
    calls    \* calls of merkleRoot so far

vars == <<size, leaves, nodes, depth, state, calls>>

Leaf(i) == <<"leaf", i>>
DHash(left, right) == <<"dhash", left, right>>

Init ==
    /\ size \in 0 .. MaxLeaves
    /\ leaves = [i \in 1 .. size |-> Leaf(i)]
    /\ nodes = <<>>
    /\ depth = 0
    /\ state = "idle"
    /\ calls = 0

MerkleRoot ==
    /\ state \in {"idle", "returned"}
    /\ calls < MaxCalls
    /\ calls' = calls + 1
    /\ nodes' = leaves
    /\ depth' = 0
    /\ state' = "recursing"
    /\ UNCHANGED <<size, leaves>>

\* Mutant: the first node is the one repeated.
PaddedFirst(list) ==
    IF Len(list) % 2 = 1 THEN Append(list, list[1]) ELSE list

\* Mutant: a level that is even already is padded too, with two nodes.
PaddedAlways(list) ==
    IF list = <<>> THEN list
    ELSE IF Len(list) % 2 = 1 THEN Append(list, list[Len(list)])
    ELSE list \o <<list[Len(list)], list[Len(list)]>>

\* The push, and the pairs.
Padded(list) ==
    IF Len(list) % 2 = 1 THEN Append(list, list[Len(list)]) ELSE list
Pairs(list) ==
    [i \in 1 .. Len(list) \div 2 |-> DHash(list[2 * i - 1], list[2 * i])]

\* recurseNodes of one level; the list of the outermost call is the caller's.
RecurseNodes ==
    /\ state = "recursing"
    /\ Len(nodes) # 1
    /\ depth < StackDepth
    /\ nodes' = Pairs(Padded(nodes))
    /\ leaves' = IF depth = 0 THEN Padded(nodes) ELSE leaves
    /\ depth' = depth + 1
    /\ UNCHANGED <<size, state, calls>>

Return ==
    /\ state = "recursing"
    /\ Len(nodes) = 1
    /\ state' = "returned"
    /\ UNCHANGED <<size, leaves, nodes, depth, calls>>

\* RangeError: the stack is used up.
Overflow ==
    /\ state = "recursing"
    /\ Len(nodes) # 1
    /\ depth = StackDepth
    /\ state' = "threw"
    /\ UNCHANGED <<size, leaves, nodes, depth, calls>>

Next == MerkleRoot \/ RecurseNodes \/ Return \/ Overflow

Spec == Init /\ [][Next]_vars /\ WF_vars(RecurseNodes \/ Return \/ Overflow)

(***************************************************************************)
(* Properties                                                              *)
(***************************************************************************)
\* The tree as it is defined: level k has half the nodes of the one below,
\* rounded up, and node j of it has the children 2j and 2j + 1, or 2j twice
\* where the level below ends there.
Count[k \in 0 .. MaxLeaves] ==
    IF k = 0 THEN size ELSE (Count[k - 1] + 1) \div 2
Tree[k \in 0 .. MaxLeaves] ==
    IF k = 0 THEN [j \in Nat |-> Leaf(j + 1)]
    ELSE [j \in Nat |->
            DHash(Tree[k - 1][2 * j],
                  Tree[k - 1][IF 2 * j + 1 < Count[k - 1] THEN 2 * j + 1
                                                          ELSE 2 * j])]
Height == CHOOSE k \in 0 .. MaxLeaves :
            Count[k] = 1 /\ \A l \in 0 .. k - 1 : Count[l] > 1

\* Types of the variables; the caller's list only ever grows to an even
\* length.
TypeOK ==
    /\ size \in 0 .. MaxLeaves
    /\ Len(leaves) \in {size, size + (size % 2)}
    /\ depth \in 0 .. StackDepth
    /\ state \in {"idle", "recursing", "returned", "threw"}
    /\ calls \in 0 .. MaxCalls

\* Every call returns the root of the tree over the leaves the list was made
\* with, also the second one, which finds the leaf that the first one pushed.
RootIsReference ==
    state = "returned" /\ size > 0 => nodes[1] = Tree[Height][0]

\* Only an empty list throws, and no other needs more calls than the height
\* of its tree.
DepthIsHeight ==
    /\ state = "threw" => size = 0
    /\ size > 0 => depth <= Height

\* A call on a list with a leaf returns.
Returns == state = "recursing" /\ size > 0 ~> state = "returned"
=============================================================================
