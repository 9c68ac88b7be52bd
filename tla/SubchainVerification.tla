------------------------ MODULE SubchainVerification ------------------------
(***************************************************************************)
(* verify_subchain, circuits/builder/subchain_verification.rs: the part of *)
(* the header range circuit that walks the headers from the trusted block  *)
(* to the target block.  Map jobs check HEADERS_PER_MAP headers each, and  *)
(* may run in any order; a tree of reduce jobs joins neighbours.           *)
(*                                                                         *)
(* The headers come from a hint and are not trusted: the prover is either  *)
(* the repository's, which fetches the finalized headers, or one that      *)
(* gives a map job any sequence of headers.  A header is known by its      *)
(* hash, so a header stands for its own hash, its state root and its data  *)
(* root (module HeaderCodec is about reading them from its bytes).         *)
(***************************************************************************)
EXTENDS Merkle

CONSTANTS
    Headers,            \* every header there may ever be, forks included
    AnyHeaders,         \* bound: those that an untrusted prover uses
    NumberOf,           \* block number of each header
    ParentOf,           \* parent_hash of each header
    EmptyHeader,        \* the header that a padded slot of the hint holds
    ZeroHash,           \* 32 zero bytes
    MaxBlock,           \* bound: the last finalized block
    Canonical,          \* Canonical[n]: the finalized header of block n
    HEADERS_PER_MAP,
    Levels              \* num_map_jobs is 2^Levels

NumMapJobs == Pow2[Levels]

ASSUME SubchainAssumption ==
    /\ EmptyHeader \in Headers
    /\ AnyHeaders \subseteq Headers
    /\ NumberOf \in [Headers -> Nat]
    /\ ZeroHash \notin Headers
    /\ ParentOf \in [Headers -> Headers \cup {ZeroHash}]
    /\ NumberOf[EmptyHeader] = 0 /\ ParentOf[EmptyHeader] = ZeroHash
    /\ MaxBlock \in Nat
    /\ Canonical \in [0 .. MaxBlock -> Headers \ {EmptyHeader}]
    /\ \A n \in 0 .. MaxBlock : NumberOf[Canonical[n]] = n
    /\ \A n \in 1 .. MaxBlock : ParentOf[Canonical[n]] = Canonical[n - 1]
    /\ HEADERS_PER_MAP \in Nat \ {0} /\ IsPowerOfTwo(HEADERS_PER_MAP)
    /\ Levels \in Nat

VARIABLES
    prover,             \* "repository" or "any"
    trusted_header,     \* the input trusted_header_hash
    trusted_block,
    target_block,
    node,               \* outputs of the map and reduce jobs: node[level][i]
    output              \* the circuit's output once all assertions hold

inputs == <<prover, trusted_header, trusted_block, target_block>>
subchainVars == <<inputs, node, output>>

None == [done |-> FALSE]

-----------------------------------------------------------------------------
(* The map stage.                                                          *)

Slots == 1 .. HEADERS_PER_MAP

\* Of the `job`-th batch, counted from 1.
batch_start_block(job) == trusted_block + (job - 1) * HEADERS_PER_MAP + 1
batch_end_block(job) == trusted_block + job * HEADERS_PER_MAP

is_batch_disabled(job) == target_block < batch_start_block(job)

\* Mutant of curr_block_noop: the target itself is skipped too.
curr_block_noop_early(job, headers, i) ==
    \/ is_batch_disabled(job)
    \/ \E j \in 1 .. i : j \in Slots /\ NumberOf[headers[j]] = target_block

\* Slot i is skipped: the batch is disabled, or the target came before it.
curr_block_noop(job, headers, i) ==
    \/ is_batch_disabled(job)
    \/ \E j \in 1 .. i - 1 : NumberOf[headers[j]] = target_block

\* Header i follows header i-1.
header_correctly_linked(headers, i) ==
    /\ ParentOf[headers[i]] = headers[i - 1]
    /\ NumberOf[headers[i]] = NumberOf[headers[i - 1]] + 1

Enabled(job, headers) == {i \in Slots : ~ curr_block_noop(job, headers, i)}

\* The last enabled slot, 0 if there is none; they are a prefix.
LastEnabled(job, headers) ==
    CHOOSE n \in 0 .. HEADERS_PER_MAP : Enabled(job, headers) = 1 .. n

end_block_num(job, headers) ==
    LET n == LastEnabled(job, headers)
    IN IF n = 0 THEN 0 ELSE NumberOf[headers[n]]

\* The assertions of a map job.
MapAssertions(job, headers) ==
    /\ \A i \in Slots \ {1} :
           curr_block_noop(job, headers, i) \/ header_correctly_linked(headers, i)
    /\ NumberOf[headers[1]] = batch_start_block(job) \/ is_batch_disabled(job)
    /\ \/ end_block_num(job, headers) = batch_end_block(job)
       \/ curr_block_noop(job, headers, HEADERS_PER_MAP + 1)

\* The Merkle root of a batch.
BatchRoot(kind, headers, nb_enabled_leaves) ==
    get_root_from_hashed_leaves([i \in Slots |-> Leaf(kind, headers[i])], nb_enabled_leaves)

MapOutput(job, headers) ==
    LET n == LastEnabled(job, headers)
    IN [done |-> TRUE,
        num_blocks |-> n,
        start_block |-> NumberOf[headers[1]],
        start_parent |-> ParentOf[headers[1]],
        end_block |-> end_block_num(job, headers),
        end_header_hash |-> IF n = 0 THEN ZeroHash ELSE headers[n],
        state_merkle_root |-> BatchRoot("state", headers, n),
        data_merkle_root |-> BatchRoot("data", headers, n)]

-----------------------------------------------------------------------------
(* The reduce stage.                                                       *)

\* Mutant of ReduceAssertions: only the block numbers are compared.
ReduceNumbersOnly(left, right) ==
    \/ right.num_blocks = 0
    \/ left.end_block = right.start_block - 1

ReduceAssertions(left, right) ==
    \/ right.num_blocks = 0
    \/ /\ left.end_header_hash = right.start_parent
       /\ left.end_block = right.start_block - 1

ReduceOutput(left, right) ==
    LET end == IF right.num_blocks = 0 THEN left ELSE right
    IN [done |-> TRUE,
        num_blocks |-> left.num_blocks + right.num_blocks,
        start_block |-> left.start_block,
        start_parent |-> left.start_parent,
        end_block |-> end.end_block,
        end_header_hash |-> end.end_header_hash,
        state_merkle_root |-> sha256(left.state_merkle_root, right.state_merkle_root),
        data_merkle_root |-> sha256(left.data_merkle_root, right.data_merkle_root)]

-----------------------------------------------------------------------------
(* A run of the prover.  A failed assertion is a step that cannot happen.  *)

Width(level) == Pow2[Levels - level]

MaxLeaves == NumMapJobs * HEADERS_PER_MAP

\* The request comes from the operator: finalized blocks within reach.
HonestRequest ==
    /\ trusted_block \in DOMAIN Canonical
    /\ trusted_header = Canonical[trusted_block]
    /\ trusted_block < target_block
    /\ target_block <= trusted_block + MaxLeaves

\* The contract only takes targets after its latest block, so never block 0,
\* which an all-disabled tree would end at.
SubchainInit ==
    /\ prover \in {"repository", "any"}
    /\ trusted_header \in Headers \ {EmptyHeader}
    /\ trusted_block = NumberOf[trusted_header]
    /\ \/ prover = "repository" /\ target_block \in DOMAIN Canonical /\ HonestRequest
       \/ prover = "any" /\ target_block \in {NumberOf[h] : h \in AnyHeaders} \ {0}
    /\ node = [level \in 0 .. Levels |-> [i \in 1 .. Width(level) |-> None]]
    /\ output = None

map(job, headers) ==
    /\ ~ node[0][job].done
    /\ MapAssertions(job, headers)
    /\ node' = [node EXCEPT ![0][job] = MapOutput(job, headers)]
    /\ UNCHANGED <<inputs, output>>

reduce(level, i) ==
    LET left == node[level - 1][2 * i - 1]
        right == node[level - 1][2 * i]
    IN
    /\ left.done /\ right.done /\ ~ node[level][i].done
    /\ ReduceAssertions(left, right)
    /\ node' = [node EXCEPT ![level][i] = ReduceOutput(left, right)]
    /\ UNCHANGED <<inputs, output>>

\* The two assertions after the map-reduce.
FinalAssertions(root) ==
    /\ root.start_parent = trusted_header
    /\ root.end_block = target_block

verify_subchain ==
    LET root == node[Levels][1]
    IN
    /\ ~ output.done /\ root.done
    /\ FinalAssertions(root)
    /\ output' = [done |-> TRUE,
                  target_header_hash |-> root.end_header_hash,
                  state_root_merkle_root |-> root.state_merkle_root,
                  data_root_merkle_root |-> root.data_merkle_root]
    /\ UNCHANGED <<inputs, node>>

ReduceStep ==
    \E level \in 1 .. Levels : \E i \in 1 .. Width(level) : reduce(level, i)

Jobs == 1 .. NumMapJobs

\* The headers of batch_start_block .. min(batch_end_block, target_block),
\* then empty headers.
HeaderRangeFetcherHint(job) ==
    [i \in Slots |->
        LET n == batch_start_block(job) + i - 1
        IN IF n <= target_block THEN Canonical[n] ELSE EmptyHeader]

MapStep ==
    \E job \in Jobs :
        \/ prover = "repository" /\ map(job, HeaderRangeFetcherHint(job))
        \/ prover = "any" /\ \E headers \in [Slots -> AnyHeaders] : map(job, headers)

SubchainNext == MapStep \/ ReduceStep \/ verify_subchain

-----------------------------------------------------------------------------
(* Correctness.                                                            *)

\* The n-th ancestor of a header.
Ancestor(header, n) ==
    LET up[k \in 0 .. n] ==
            IF k = 0 THEN header
            ELSE IF up[k - 1] = ZeroHash THEN ZeroHash ELSE ParentOf[up[k - 1]]
    IN up[n]

\* The commitment over the `length` blocks that end at header h.
CommitmentTo(kind, h, length) ==
    get_merkle_root(
        Extended([i \in 1 .. length |-> Leaf(kind, Ancestor(h, length - i))], MaxLeaves))

\* Whatever headers the map jobs are given, and in whatever order they run,
\* an output is that of a chain of headers from the trusted one to a header
\* of the target block, one per block number, and both commitments are over
\* exactly the headers after the trusted one, in order.
OutputIsAChain ==
    output.done =>
        LET length == target_block - trusted_block
            target == output.target_header_hash
        IN /\ length \in 1 .. MaxLeaves
           /\ target \in Headers
           /\ Ancestor(target, length) = trusted_header
           /\ \A i \in 0 .. length :
                  NumberOf[Ancestor(target, i)] = target_block - i
           /\ output.state_root_merkle_root = CommitmentTo("state", target, length)
           /\ output.data_root_merkle_root = CommitmentTo("data", target, length)
=============================================================================
