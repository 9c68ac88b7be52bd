------------------------------- MODULE Merkle -------------------------------
(***************************************************************************)
(* The Merkle trees over state roots and data roots.  A SHA-256 hash is a  *)
(* record of what was hashed, so roots are equal when the trees are.       *)
(***************************************************************************)
EXTENDS Integers, Sequences

\* 32 zero bytes: the leaf of a slot that holds no header.
EmptyLeaf == [kind |-> "zero"]

Leaf(kind, header) == [kind |-> kind, header |-> header]

sha256(left, right) == [kind |-> "sha256", left |-> left, right |-> right]

\* Pow2[n] is 2^n.
Pow2[n \in Nat] == IF n = 0 THEN 1 ELSE 2 * Pow2[n - 1]

IsPowerOfTwo(n) == \E k \in 0 .. n : n = Pow2[k]

\* The smallest k with 2^k >= n, for n > 0.
Log2(n) == CHOOSE k \in 0 .. n : Pow2[k] >= n /\ (k = 0 \/ Pow2[k - 1] < n)

Extended(leaves, n) ==
    [i \in 1 .. n |-> IF i <= Len(leaves) THEN leaves[i] ELSE EmptyLeaf]

\* The nodes of each level, from the leaves extended to a power of 2.
Nodes(leaves, depth) ==
    LET nodes[k \in 0 .. depth] ==
            IF k = 0 THEN Extended(leaves, Pow2[depth])
            ELSE LET below == nodes[k - 1]
                 IN [i \in 1 .. Pow2[depth - k] |-> sha256(below[2 * i - 1], below[2 * i])]
    IN nodes

get_merkle_root(leaves) ==
    LET depth == Log2(Len(leaves))
    IN Nodes(leaves, depth)[depth][1]

\* External (plonky2x): leaves from nb_enabled_leaves on count as zero bytes.
get_root_from_hashed_leaves(leaves, nb_enabled_leaves) ==
    get_merkle_root(Extended(SubSeq(leaves, 1, nb_enabled_leaves), Len(leaves)))
=============================================================================
