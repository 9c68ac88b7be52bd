---------------------------- MODULE HeaderRange ----------------------------
(***************************************************************************)
(* The header range circuit, circuits/header_range.rs: verify_subchain and *)
(* then the justification of the target header by the authority set of the *)
(* input.  Next to it what the fetcher computes for the same range without *)
(* a circuit, which fill_block_range posts and the dummy circuit returns.  *)
(***************************************************************************)
EXTENDS SubchainVerification

CONSTANTS
    SignerOf,                   \* SignerOf[n]: the authority set that justifies block n
    MAX_CONCURRENT_WS_REQUESTS  \* headers that are fetched at a time

ASSUME SignerAssumption == SignerOf \in [DOMAIN Canonical -> Nat]
ASSUME RequestsAssumption == MAX_CONCURRENT_WS_REQUESTS \in Nat \ {0}

VARIABLE proof      \* the input authority_set_id and the circuit's outputs

vars == <<subchainVars, proof>>

SetIds == {SignerOf[n] : n \in DOMAIN SignerOf} \cup {0}

\* A justification as the circuit reads it: the precommit, and whether the
\* votes in its slots are those of more than two thirds of the set.  Module
\* Justification shows by_set of what the fetcher returns; the assertions on
\* signatures and threshold do not imply it for every other witness.
Justification(block_number, block_hash, id, by_set) ==
    [block_number |-> block_number, block_hash |-> block_hash,
     authority_set_id |-> id, by_set |-> by_set]

\* The votes of the set.  External: it votes for the finalized header only.
VotesOfSet(block_number) ==
    Justification(block_number, Canonical[block_number], SignerOf[block_number], TRUE)

\* The justification that the hint fetches for the target.
HintSimpleJustification == VotesOfSet(target_block)

\* Any other justification: one of the set, or one of which nothing is known.
AnyJustification ==
    {VotesOfSet(n) : n \in DOMAIN Canonical} \cup
    {Justification(NumberOf[h], h, id, FALSE) : h \in Headers, id \in SetIds}

\* Mutant of verify_simple_justification: the block hash is not compared.
verify_justification_of_number(block_number, block_hash, id, j) ==
    j.block_number = block_number /\ j.authority_set_id = id

\* The assertions on the decoded precommit.  Those on the commitment, the
\* signatures and the threshold hold of VotesOfSet, and are left open where
\* by_set is FALSE.
verify_simple_justification(block_number, block_hash, id, j) ==
    /\ j.block_number = block_number
    /\ j.authority_set_id = id
    /\ j.block_hash = block_hash

\* The circuit with input authority_set_id = id and the justification j.
header_range(id, j) ==
    /\ output.done /\ ~ proof.done
    /\ verify_simple_justification(target_block, output.target_header_hash, id, j)
    /\ proof' = [done |-> TRUE, authority_set_id |-> id, by_set |-> j.by_set,
                 evm_output |-> << output.target_header_hash,
                                   output.state_root_merkle_root,
                                   output.data_root_merkle_root >>]
    /\ UNCHANGED subchainVars

ProofStep ==
    \E id \in SetIds :
        \/ prover = "repository" /\ header_range(id, HintSimpleJustification)
        \/ prover = "any" /\ \E j \in AnyJustification : header_range(id, j)

-----------------------------------------------------------------------------
(* The fetcher.                                                            *)

\* The two assertions at the start of get_merkle_root_commitments.
CommitmentsPanic(tree_size, start_block, end_block) ==
    \/ ~ IsPowerOfTwo(tree_size)
    \/ end_block - start_block > tree_size

get_headers(first, last) == [i \in 1 .. last - first + 1 |-> Canonical[first + i - 1]]

\* The headers of start_block .. end_block: those of the batch that starts
\* at curr_block, and then of the next batches.
get_block_headers_range(start_block, end_block) ==
    LET end_of(curr_block) ==
            IF curr_block + MAX_CONCURRENT_WS_REQUESTS - 1 < end_block
            THEN curr_block + MAX_CONCURRENT_WS_REQUESTS - 1
            ELSE end_block
        headers[curr_block \in start_block .. end_block + MAX_CONCURRENT_WS_REQUESTS] ==
            IF curr_block > end_block THEN << >>
            ELSE get_headers(curr_block, end_of(curr_block))
                 \o headers[curr_block + MAX_CONCURRENT_WS_REQUESTS]
    IN headers[start_block]

\* State and data root commitment of the blocks start_block+1 .. end_block.
get_merkle_root_commitments(tree_size, start_block, end_block) ==
    LET headers == get_block_headers_range(start_block + 1, end_block)
        root(kind) == get_merkle_root(
            Extended([i \in DOMAIN headers |-> Leaf(kind, headers[i])], tree_size))
    IN <<root("state"), root("data")>>

\* circuits/dummy_header_range.rs.
DummyHeaderRange == <<Canonical[target_block]>> \o
    get_merkle_root_commitments(MaxLeaves, trusted_block, target_block)

-----------------------------------------------------------------------------
Init == SubchainInit /\ proof = None

Next ==
    \/ SubchainNext /\ UNCHANGED proof
    \/ ProofStep

\* The repository's prover carries on.
Fairness == WF_vars(prover = "repository" /\ Next)

Spec == Init /\ [][Next]_vars /\ Fairness

-----------------------------------------------------------------------------
(* Correctness.                                                            *)

\* What module VectorX takes a header range proof to mean holds whatever the
\* headers of the map jobs, provided that the votes in the justification are
\* those of the set, as they are in what the fetcher returns: the input set
\* justifies the target block, the trusted header is finalized, and the
\* outputs are the finalized target header and the commitments to exactly
\* the finalized blocks of the range, as fill_block_range and the dummy
\* circuit compute them off the circuit.  Nothing is claimed of a proof whose
\* justification is not known to carry the votes of the set.
ProofIsCanonical ==
    proof.done /\ proof.by_set =>
        /\ target_block \in DOMAIN Canonical
        /\ trusted_header = Canonical[trusted_block]
        /\ proof.authority_set_id = SignerOf[target_block]
        /\ ~ CommitmentsPanic(MaxLeaves, trusted_block, target_block)
        /\ proof.evm_output = DummyHeaderRange

\* For every range within reach the headers that the hint fetches satisfy
\* all assertions, also when the range ends inside a batch or before the
\* last batches start, so the proof is found.
HonestProverSucceeds == prover = "repository" ~> proof.done
=============================================================================
