----------------------------- MODULE AvailChain -----------------------------
(***************************************************************************)
(* The Avail chain as VectorX sees it: a finalized prefix that only grows, *)
(* and for every block the id of the GRANDPA authority set that is current *)
(* after it.  The chain is external to the repository; what is modelled is *)
(* what the RPC methods of circuits/input/mod.rs observe of it.            *)
(*                                                                         *)
(* Hashes are records that name what they are the hash of, so two hashes   *)
(* are equal exactly when the hashed objects are.                          *)
(***************************************************************************)
EXTENDS Integers

CONSTANTS
    MaxBlock,   \* bound: height of the last block Avail ever finalizes
    SetId       \* SetId[b]: get_authority_set_id(b), the set after block b

Heights == 0 .. MaxBlock

\* The set id grows by one at each epoch end block, and the chain starts in
\* set 0.
ASSUME ChainAssumption ==
    /\ MaxBlock \in Nat \ {0}
    /\ SetId \in [Heights -> Nat]
    /\ SetId[0] = 0
    /\ \A b \in 1 .. MaxBlock : SetId[b] \in {SetId[b - 1], SetId[b - 1] + 1}
    /\ \A b, c \in Heights : b <= c => SetId[b] <= SetId[c]

\* The ids that can be a key of authoritySetIdToHash: those of the chain,
\* and the successor of the last one, which requestRotate looks up.
AuthoritySetIds == 0 .. SetId[MaxBlock] + 1

VARIABLE head   \* height of the last finalized block (get_head)

-----------------------------------------------------------------------------
\* bytes32(0), what an unwritten entry of a Solidity mapping reads as.
Zero == [kind |-> "zero"]

HeaderHash(b) == [kind |-> "header", block |-> b]

AuthoritySetHash(id) == [kind |-> "authoritySet", id |-> id]

\* Root of the Merkle tree with `tree` leaves over the data (state) roots of
\* the blocks start+1 .. end, padded with zero leaves.
DataRootCommitment(start, end, tree) ==
    [kind |-> "data", start |-> start, end |-> end, tree |-> tree]

StateRootCommitment(start, end, tree) ==
    [kind |-> "state", start |-> start, end |-> end, tree |-> tree]

\* Block b announces the next authority set.
EpochEnd(b) == b > 0 /\ SetId[b] = SetId[b - 1] + 1

\* The set whose GRANDPA votes finalize block b: the one that is current
\* before b, also when b is an epoch end block.
SignerOf(b) == SetId[b - 1]

\* Mutant of VerifiesAt: the set that signed the block is used.
VerifiesAnyBlock(b) == SignerOf(b) = SignerOf(b)

\* The indexer (bin/indexer.rs) verifies a justification with the set id
\* that is stored at the block itself, so none of an epoch end block.
VerifiesAt(b) == SetId[b] = SignerOf(b)

\* b is the last block that set id justifies.
IsLastBlockOf(b, id) == EpochEnd(b) /\ SignerOf(b) = id

\* What last_justified_block(id) returns when the finalized head is h: the
\* epoch end block of set id, 0 while that epoch is not over.  (The binary
\* search that computes it is module LastJustifiedBlock.)
last_justified_block(id, h) ==
    IF \E b \in 1 .. h : IsLastBlockOf(b, id)
    THEN CHOOSE b \in 1 .. h : IsLastBlockOf(b, id)
    ELSE 0

-----------------------------------------------------------------------------
\* Avail finalizes one more block.
Finalize ==
    /\ head < MaxBlock
    /\ head' = head + 1
=============================================================================
