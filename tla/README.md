# VectorX in TLA+

A verification project for VectorX, the light client that carries the headers,
authority sets and data/state root commitments of the Avail chain to Ethereum.
The modules are translated from the source under `src/`; `PROJECT.json` maps
every definition to the lines it models.

## 1. The system

```
 Avail nodes --RPC/websocket--> indexer --> Redis <--- events service <--+
      |                                       |                          | logs
      | head, headers, set ids                | justifications           |
      v                                       v                          |
   operator --reads latestBlock, ...--> VectorX contract ----------------+
      |                                       ^
      | request (function id, input)          | commitHeaderRange / rotate
      v                                       |
   Succinct platform -- circuits prove --> gateway
                 guardian: initialize, update*, fill_block_range, genesis
```

| Component | State | Operations | What is hard | What makes it correct |
|---|---|---|---|---|
| Contract `contracts/src/VectorX.sol` | latest block and set id, header and set hashes, range commitments, circuit ids, tree size, freeze | `initialize`, `request*`, `commitHeaderRange`, `rotate`, guardian updates | proofs relayed late or twice, circuits/gateway/genesis replaced in between | stored values are Avail's, ranges tile the chain, no rollback, never stranded |
| Circuits `circuits/header_range.rs`, `circuits/rotate.rs`, `circuits/builder/*.rs` | none; untrusted hints | map/reduce over headers, justification check, decoding of headers, rotate | ranges that end inside a batch, inactive subtrees, thresholds, variable-length integers, several logs of one layout | an output is of a chain from the trusted header; if the set voted for its last header it is of the finalized chain, and a rotate proof gives the next set; the repository's prover succeeds |
| Fetcher `circuits/input/mod.rs` | RPC and Redis handles | `last_justified_block`, `find_justifications_in_range`, `get_justification_*`, `get_header_rotate`, Merkle roots | block arithmetic at epoch ends, u32 borders, a chain that grows between reads | the search finds the epoch end; a listing is complete and without repetition; what it accepts can be proved; its Merkle roots are the circuit's |
| Indexer `bin/indexer.rs` | Redis justifications and their index | `listen_for_justifications`, `add_justification` | the set id at epoch ends, votes for descendants, two writes | every simple justification gets through; what is indexed is stored |
| Operator `bin/vectorx.rs` | locals of one round | `find_and_request_rotate`, `find_and_request_header_range` | separate reads, panics, lost requests | requests can be proved; the client follows Avail |
| Guardian tools `bin/genesis.rs`, `bin/fill_block_range.rs` | locals | compute transactions | stale reads | a stale call stores nothing wrong |
| Events service `bin/events.rs` | cursor and ranges in Redis | scan, store, advance cursor | panics, batch borders | no event before the cursor is missing |

Two conventions run through the code. `get_authority_set_id(b)` is the set that
is current *after* block `b`; block `b` itself is signed by
`get_authority_set_id(b - 1)`. And a range `(start, end]` excludes its start.

## 2. Modules

| Module | Models | How state and actions correspond |
|---|---|---|
| `AvailChain` | the chain as the RPC methods show it | `head` is the finalized head; `SetId[b]` is `get_authority_set_id(b)`; hashes and Merkle roots are records that name what they hash |
| `VectorX` | `VectorX.sol`, the gateway's callback, what the tools of the guardian compute | one variable per storage variable, one action per external function; a revert is an action that is not enabled. `stored` is the log of `HeaderRangeCommitmentStored`; `genesis` and `lineage` are history variables |
| `AttestedChain` | no code: what the light client promises | the origin, the tip, the attested ranges, the known headers and sets; `VectorX` implements it |
| `FillBlockRange` | `fill_block_range` against the live contract | composes `VectorX` with the tool's two reads and its transaction |
| `LastJustifiedBlock` | the binary search `last_justified_block` | one action per branch of the loop, u32 arithmetic modulo `U32` |
| `FindJustifications` | `find_justifications_in_range`, `add_justification`, `get_blocks_in_range` | extends `LastJustifiedBlock`: each era is one call of the search. `stored` and `indexed` are the two Redis keys, `find` the locals of the call |
| `Operator` | `vectorx.rs`, the indexer and Redis, the platform | composes `VectorX`; `op` holds the locals of one round, and every read of contract or head is a step |
| `SubchainVerification` | `verify_subchain` | `node[level][i]` is the output of a map (level 0) or reduce job; a failed assertion is a step that cannot happen |
| `Merkle` | `get_merkle_root`, and plonky2x's `get_root_from_hashed_leaves` (external) | a hash is a record of what was hashed, so equal roots mean equal trees |
| `HeaderRange` | the header range circuit, `get_merkle_root_commitments`, `get_block_headers_range`, `DummyHeaderRange` | extends `SubchainVerification` with the justification step, the hint's or another one (`by_set` says whether its votes are known to be those of the set); the fetcher's side is an operator |
| `AuthoritySet` | the two computations of an authority set's commitment | a chained hash is the sequence of keys that went in |
| `HeaderCodec` | `builder/decoder.rs`, and the SCALE encoder (external) | bytes are 0 .. 255; a circuit assertion is a predicate, a decoded value an operator |
| `Rotate` | `circuits/rotate.rs`, `builder/rotate.rs`, `get_header_rotate`, `DummyRotate` | `stage` is where the proof is, `witness` the `RotateVariable` (header bytes and size, position, number, keys) with the precommit, from the hint or from another prover |
| `Justification` | one justification: indexer, Redis, fetcher, hint, circuit | one action per program that handles it; the circuit's witness is what the fetcher returns |
| `Events` | `events.rs` | one action per call; `service` holds its locals |
| `AvailChainProofs`, `VectorXProofs`, `LastJustifiedBlockProofs`, `OperatorProofs`, `HeaderRangeProofs`, `RotateProofs`, `JustificationProofs`, `EventsProofs` | theorems | section 5 |
| `MC*` | constants for TLC | |

Operators commented "Mutant of ..." are faulty versions of the definition that
follows them. They are not used by any specification; `PROJECT.json` pairs each
with the property that detects it.

### What the models abstract

* A verified proof is represented by what it establishes. `HeaderRangeAccepts`
  says the range fits the circuit, starts at the trusted header and ends at a
  finalized block signed by the given set, and `HeaderRangeOutput` gives the
  finalized header and the commitments of the range; `RotateAccepts` and
  `RotateOutput` say that the epoch of the given set is over and the output is
  the next set. The contract is thus modelled for proofs that establish this.
  `HeaderRange` and `Rotate` derive it (`ProofIsCanonical`, `RotatedIsNextSet`)
  for the proofs that the repository's prover makes, and for others under the
  conditions of the next item, with the assumption that a supermajority of an
  authority set signs finalized headers only. The two levels are linked by these
  properties and not by a refinement: the circuits' inputs and witnesses have
  no counterpart in the contract's state. Both are theorems (section 5).
* **What is claimed of which witness.** The circuits read their hints as
  untrusted values. The chain of headers rests on the assertions alone:
  `OutputIsAChain` holds for any headers. The rest does not, and its claims are
  restricted accordingly:
  * The circuit counts the votes over all slots (`justification.rs:173-179`) and
    asserts nothing of the slots past `num_authorities`; the commitment covers
    the slots before (`justification.rs:142-160`). Point 4) of the comment at
    `justification.rs:112-116` therefore holds of a witness that leaves these
    slots unsigned, as the fetcher does (`mod.rs:813-818`). `Justification` has
    the fetcher's witness only; `CircuitSound` (section 5) is about any witness
    with `UnsignedPadding`. In `HeaderRange` and `Rotate` a justification is
    either one with the votes of the set (`by_set`) or one of which nothing is
    known; the properties say nothing of a proof that uses the latter.
  * Only `header_size` bytes of the header are hashed (`header.rs:18`), and the
    position of the log is not compared with it. `get_header_rotate` fills the
    rest with zeros. Another prover of `Rotate` has any padding of `AnyPadding`
    and any position, and `RotatedIsNextSet` takes as a hypothesis that the
    flag of a consensus log followed by `FRNK` is only where the header has
    such a log (`GrandpaLogsOnly`). Nothing in the circuit checks this: it
    recognises a log by these five bytes. For the repository's prover the
    property has neither hypothesis.
* A fulfilled request stays in the set of requests, so that the same proof may
  be relayed again. `Abandon` removes it. `verifiedCall` answers for exactly
  the function and input the gateway has just verified.
* Guardian transactions carry what the repository's tools compute, for any
  finalized block. A guardian who posts other values is outside the model, and
  `FillStep` in `VectorX` posts at once; `FillBlockRange` has the interleavings.
* `Justified` in `Operator` is the set of blocks whose justification reaches
  the indexer. The operator is modelled from `initialize` on. Its two reads of
  hashes for a request are one step: stored hashes never change
  (`NoRollback`). Requests made by third parties are in `VectorX` and not in
  the composition.
* In `Justification` authority `i` has key `i`, and GRANDPA (external)
  finalizes the highest block with a supermajority. A set has at most
  `MAX_NUM_AUTHORITIES` members. The witness is the fetcher's (see above).
* In `SubchainVerification` and `HeaderRange` a header stands for its hash and
  roots, and block numbers are not near 2^32. A target is never block 0: the
  contract only takes targets after its latest block. The finalized chain
  starts at a genesis header, and a batch is a power of two of headers, as it is
  in the repository; the commitment trees of the circuit and of the fetcher
  agree only then.
* In `Rotate` the lengths of hashes, keys, weights and delays are constants
  (two bytes each, one for the delay, in the run), and block numbers and set
  sizes have 32 bits (`FieldsAssumption`). Epoch end headers carry
  ScheduledChange logs for the next set only, with delay 0, and in the run fewer
  than 64 logs, as Avail's do; the position that `get_header_rotate` computes
  relies on the latter (`mod.rs:879`). A prover other than the repository's
  names the header of any block with any padding and position, a justification,
  a number of authorities from a set, and keys that are either those of the
  current set or read from the bytes; other keys fail the comparison. Headers
  that are not final are left out: they have no votes of the set.
* In `FindJustifications` there is one call of the listing at a time (the
  method takes `&mut self`); any number of other searches may precede it. A
  listing from block 0 is left out: `start_block - 1` (`mod.rs:385`) is then no
  block number.
* In `Events` there is one deployment, at most one event per Ethereum block,
  and no reorganisation. A read of the cursor that fails gives None, as in the
  code, and the service scans again from its first block.

## 3. Properties and runs

| Run | Module / cfg | What it shows |
|---|---|---|
| `contract` | `MCVectorX` / `MCVectorX.cfg` | two requests in flight, up to two guardian transactions of any kind, two circuits and two gateways, epoch ends at 2 and 3: `HeadersCanonical`, `AuthoritySetsCanonical`, `RangeCommitmentsCanonical`, `AuthorityWindow`, `NeverStranded`, `RangesTile`, `AnnouncedTreeSize`, `NoRollback`, and `ImplementsAttestedChain`. A circuit or gateway is replaced and put back while proofs are in flight |
| `fill_block_range` | `MCFillBlockRange` | `StaleCallHarmless`: old calldata stores nothing wrong |
| `fill_tree_size` (violation) | `MCFillTreeSize.cfg` | the event announces the wrong tree size, section 4 |
| `find_justifications` | `MCFindJustifications` | the search is right and ends for every set and head, an epoch of one block included, and neither bound wraps (`TypeOK`, `ResultCorrect`, `ZeroIffCurrent`, `Terminates`); the walk over the eras lists every justified block that was there when it was called, once, and nothing else (`ListingComplete`, `ListedOnce`, `ListedAreJustified`), and ends (`FindTerminates`), while the indexer stops between its two writes and the chain grows |
| `find_single_block` (violation) | `MCFindSingleBlock.cfg` | a range of one block, section 4 |
| `operator` | `MCOperator` | every request can be proved (`RangeRequestsJustified`, `RangeRequestsFit`, `RotateRequestsProvable`), and `FollowsAvail`: the client gets past every epoch end through a lost request, panics and a missing justification |
| `operator_upgrade` | `MCOperatorUpgrade.cfg` | the same with a guardian transaction in the middle of a round: a smaller or larger circuit, a freeze, a new genesis state |
| `header_range` | `MCHeaderRange` | four batches of two headers and two levels of reduce jobs in any order: `OutputIsAChain` for any headers in any job, `ProofIsCanonical` for what a proof then means if its justification has the votes of the set, `HonestProverSucceeds` for every trusted block and target within reach |
| `rotate` | `MCRotate` | `RotatedIsNextSet` for the repository's witness, and for any other with the votes of the set and no bytes that pass for a log of GRANDPA's; `HonestRotateProved` for the repository's, `HeaderDecoded` for every header and padding |
| `justification` | `Justification` / `MCJustification.cfg` | the three signature counts agree on the way of the repository's witness: `ProvedBlockHasVotes`, `FetchedIsProvable`, `SimpleGoesThrough` |
| `events` | `MCEvents` | `NothingSkipped`, `EveryEventStored` through panics and batch borders |
| `events_this_contract` (violation) | `MCEventsThisContract.cfg` | events of this contract are never stored, section 4 |

### Bounds

* Chain: 4 to 10 blocks. Every instance has two or more epoch ends, and most
  an epoch of one block, so that the case "latest block is an epoch end" is met
  from both sides and a range can cross an epoch.
* Two circuits of different size (1, 2 or 4 headers): ranges of the full size, a
  shorter last chunk, and epochs longer and shorter than the circuit all occur.
  A request that fits one circuit and not the other needs two sizes, no more.
* Requests and guardian calls: two stale proofs and two configuration changes
  (there and back) are what the hazards need. The gateways are a symmetry set:
  no definition tells them apart and no temporal property with fairness is
  checked in that run. The theorems of section 5 have none of these bounds.
* Justification: sets of 1 to 5 authorities contain every residue modulo 3,
  which is what the thresholds depend on.
* Header range: a tree of eight leaves in four batches. The repository's prover
  has every trusted block and every target within reach, so each batch is full,
  partly used and disabled; fetches come in batches of three, which do not
  align with those of the circuit. The chain is blocks 0 to 9. An untrusted
  prover starts at block 1 and ends by block 6, with a fork of two blocks and a header whose
  number does not follow its parent's, at borders inside and between batches.
  Its justification is that of any finalized block by the votes of its set, or
  an unknown one for any header and set.
* Rotate: block numbers 63, 64, 2^14 - 1, 2^14, 2^30 - 1 and 2^30, and sets of
  1, 15 and 64 authorities, are on both sides of each boundary of the compact
  encoding that a header can meet: in the number, in the length of the log and
  in the number of authorities. BABE logs, one of the layout of GRANDPA's,
  come before and after the announcement. Positions are those of the whole
  array; past a header there are zeros or bytes with the flag of a consensus
  log.
* Listing: seven blocks with epoch ends at 2, 3 (an epoch of one block) and 6;
  every start and end; justifications of an epoch end block, of a block inside
  an epoch and of the first block reach the indexer.
* Events: batches of two blocks over six blocks, two panics.

`CHECK_DEADLOCK FALSE` is set where a bound of the model, or the end of a
prover's run, stops it: the last block is finalized, the calls are used up, the
proof is made, or no assertion can hold any more.

### Fairness

* `Operator`: weak fairness of the chain, the deployment, the indexer, the
  operator's loop, its restart after a panic and the platform. The loop of
  `run` has no exit; the restart is an assumption on the process supervisor;
  the platform proves, relays or rejects what it does not lose, and loses at
  most `MaxLost` requests. Nothing is assumed of the guardian: `FollowsAvail`
  allows a contract that is frozen for good. The constant `Justified` has a
  block in every window the operator searches; without one the operator really
  waits, as its log message says.
* `LastJustifiedBlock`, `FindJustifications`: the loop runs on. Nothing is
  assumed of the chain and of the indexer.
* `HeaderRange`, `Rotate`: the prover runs on (in `HeaderRange` the repository's
  only).
* `Justification`: the indexer receives every justification and the operator
  tries again (its loop does).
* `Events`: the service's loop runs and is started again after a panic; the
  Ethereum chain keeps growing, without which a last event at the cursor border
  would wait for the next block.

## 4. Disagreements

* **`fill_tree_size`.** `updateBlockRangeData` announces the contract's current
  tree size (`VectorX.sol:157`), while the commitments were computed with the
  size the tool read before (`fill_block_range.rs:118`). A circuit upgrade in
  between makes them differ, contrary to the event's documentation
  (`IVectorX.sol:31`). What is stored is still right (`StaleCallHarmless`).
* **`find_single_block`.** The comment on `find_justifications_in_range`
  (`mod.rs:362-363`) says that start and end blocks are included; the loop over
  the eras (`mod.rs:390`) does not run when they are the same block, so an
  epoch end block asked for alone is not listed. `ListingComplete` shows that
  longer ranges are complete.
* **`events_this_contract`.** The service filters for an event with four
  arguments (`events.rs:96`), the contract's event has five
  (`IVectorX.sol:32-38`). No event matches and the cursor passes them all.
  `events` is the same model for a deployment whose event has four.

## 5. Theorems

All are proved by TLAPS for every value of the constants that satisfies the
named assumptions.

**`VectorXProofs`** (from `ChainAssumption`: the set id starts at 0 and grows by
at most one per block; `ContractAssumption`: circuits have a positive size and
no id or address is zero). `Invariance` shows `Spec => []IInv`, with one lemma
per action. `IInv` joins the checked invariants, all but `AnnouncedTreeSize`,
with three facts they need:

* `Uninitialized`: before `initialize` nothing is stored. Without it a request
  could be made by an uninitialized contract with a zero gateway.
* `TreeSizeMatches`: the tree size is that of the circuit in storage. Without
  it the event of a commit may announce another size.
* `genesis <= latestBlock`: needed for `RangesTile` when a range is added.

The heart of the argument: a relayed proof is accepted only for the input that
the contract computes from its *current* latest block, so the new range starts
where the tiling ends (`RangesTile`), its commitments are of exactly its key
(`RangeCommitmentsCanonical`), and the set that signed its last block, being at
least `latestAuthoritySetId`, becomes the new one (`AuthorityWindow`). The
lemmas about `get_block_range_data` and `WriteAll` show the same for a call
that adds several chunks: the chunks follow each other and cover the range.
`NeverStranded` follows from `IInv` because consecutive set ids differ by one.
`AnnouncedTreeSize` is proved relative to `IInv` and kept out of it, because
`FillBlockRange` keeps `IInv` and violates `AnnouncedTreeSize` (section 4).
From it follow `TypeCorrect`, `HeaderHashesCanonical`, `SetHashesCanonical`,
`CommitmentsCanonical`, `Tiling`, `TreeSizeAnnounced`, `WindowKept`, `Unstranded` and, as an action
property, `OnlyForward` (a canonical hash can only be overwritten by itself).

**`LastJustifiedBlockProofs`** (from `ChainAssumption` and `WidthAssumption`:
the sum of two block numbers fits in a u32). The invariant says that the epoch
end block of the target set, if the chain up to `head_block` has one, lies in
`low .. high` while the loop runs, and that both bounds stay within the chain.
`SearchCorrect`, `ZeroOnlyIfCurrent` and `BoundsNeverWrap` follow.

The same module proves the walk over the eras, `find_justifications_in_range`,
which calls the search once per era: `ListingJustified`, `ListingAscends` and
`NothingMissed`, for every chain and range, while the chain grows and the
indexer stops between its writes. Its invariant `FInv` joins that of the search
with:

* `RedisOK`: what is indexed is stored, and neither holds an epoch end block.
  Without the second a block could be listed twice, by Redis and by the walk.
* `EpochEndsOK`: the epoch ends found so far are, in ascending order, those of
  the range whose era is before the current one, and the current block is the
  start of the range or the epoch end after which the current era begins.
* `SearchOK`: the search under way is for the current era and sees at least the
  blocks that were final at the call, because it reads the head anew.

The last step of the code sorts both lists together. `Rank` numbers the elements
of a sequence without repetition; it is a bijection, so the sorted sequence has
the same elements and ascends.

`Refinement` in `VectorXProofs` shows that `VectorX` implements
`AttestedChain`. The refinement mapping takes as known the headers and sets
whose stored hash is Avail's, and as attested the ranges of the current lineage
whose commitments are right; `genesis` and `latestBlock` are origin and tip.
`IInv` makes the mapping simple: nothing wrong is ever stored, so the known
headers and sets are the entries that are not zero, and the attested ranges are
the whole lineage. Then `commitHeaderRange` is `Attest`, because the proof it
accepts is for the current latest block, by a set whose hash is stored;
`rotate` is `LearnSet`; `initialize` and `updateGenesisState` are `Trust`;
`updateBlockRangeData` is `Fill`, where the new ranges tile the blocks between
the old tip and the new one because the whole lineage is a tiling before and
after; everything else stutters.

**`OperatorProofs`** (from the assumptions above and `OperatorAssumption`: a
positive interval, a gateway that exists). The operator acts on values that it
read some steps ago, so its properties are not inductive by themselves. `OInv`
adds to the contract's `IInv` what these values still mean at each point of the
loop (`LocalOK`):

* `WasLatest(b)`: a block that was once `latestBlock` is finalized, the contract
  has its header, and the hash of the set that signed it or of the set after it.
  A new genesis state may move `latestBlock` back, and this still holds.
* At `rotate_submit` the next hash was missing, so the hash of the current set
  is there (the two ids differ by at most one), and its epoch is over.
* From `range_find` on, the chosen set is the one that signs the blocks after
  the block that was read, and its hash is known (`ChosenSet`).
* During the search the set signs the candidate block. `SearchLocal` is the
  step that matters: the search passes over a block only if it has no
  justification, and an epoch end block that is finalized always has one, so
  the next candidate is signed by the same set. `ProposedBlock` shows it for
  the first candidate.

`LocalKept` shows once that all of this survives any step of anybody else. It
needs only that the chain grows, that Redis grows and that the contract forgets
no hash, which is `NoRollback`, step by step (`StepForward` in `VectorXProofs`).
The consequences are `OperatorTypes`, `RotatesProvable`, and `RangesJustified`.
The last has the hypothesis `~ IsDummyOperator`: a dummy operator does not look
for a justification, and its proofs do not need one.

`RangesFit` is about circuit upgrades. The function id and the tree size are
read in two steps, so an upgrade *and its reversal* around the second read give
a circuit the tree size of another one. The theorem therefore takes any ranking
of the circuits and assumes that the guardian only replaces a circuit by one of
a higher rank (`Upgrades`); then the circuit that was read is still in storage,
and the tree size is its own, or it was replaced for good (`Fits`). With a
single upgrade, as in the run `operator_upgrade`, there always is such a
ranking. A guardian who goes back can make the operator ask for a range that no
proof exists for; the platform rejects the request and the next round reads
again.

The other program that calls the contract is `fill_block_range`; the same
module proves `StaleCallsHarmless` about it. `IInv` holds for the composition too,
and `ToolOK` says where the calldata comes from: the tree size of *some*
circuit and a range up to a finalized block. `OnlyCurrentCallTaken` shows that
the contract's check of the first start block refuses all calldata except that
computed for the current latest block, the empty calldata included; what then
is stored is right for the tree size it was computed with (`FillDataIInv`).

**`JustificationProofs`** (for every number of slots and every set that fits).
`ThresholdsAgree` shows that the indexer's, the circuit's and GRANDPA's threshold
are the same number, although each rounds differently, and that the fetcher's
is weaker. The invariant says that whatever the fetcher hands over are the votes
for the block itself, more than two thirds of them: on the Redis path because
the indexer counts the signatures for one message, and enough signatures for
a descendant would have finalized the descendant (`NotAllDescendants`), on the
finality proof path because every vote is checked against the block. From it
follow `ProvedHasVotes` (a proof of the repository's prover means more than two
thirds of the votes) and `FetchedAlwaysProvable` (what the fetcher accepts can be
proved). `CircuitSound` is the circuit's part of the first and is not about
the fetcher: for every witness whose slots past `num_authorities` are unsigned
(`UnsignedPadding`), the assertions imply more than two thirds of the votes for
the block. `CommittedKeys` shows that equal commitments mean the same number of
authorities and the same keys in their slots, so the slots that count have the
keys of different authorities. Without the hypothesis the assertions do
not imply it. `PaddedIsUnsigned` shows that the fetcher's witness satisfies it.

**`EventsProofs`**: `CursorBehindRanges` under the hypothesis that the contract
emits the event the service filters for, and `OtherEventNeverStored` for any
other signature, this repository's included (section 4). `NothingSkipped` says
nothing of the round under way; the invariant adds that at the head of the
loop every event before the next batch is stored, and that after a batch was
read its events are stored or pending.

**`HeaderRangeProofs`** (from `SubchainAssumption`: hashes identify headers, the
finalized headers are a chain from block 0, a batch is a power of two). For every
number of levels, every batch size and any order of the jobs, and whatever
headers each map job is given:

* `SubchainSound` (`OutputIsAChain`): the output is a chain of parents from the
  trusted header to the target, with commitments to exactly its headers.
* `HeaderRangeSound` (`ProofIsCanonical`): with a justification that has the
  votes of the set, the chain is the finalized one, and the output is what the
  fetcher and the dummy circuit compute. That the fetcher's justification has
  these votes is `ProvedHasVotes`.

The invariant `IInv` has one statement per job (`NodeOK`): a job that is done
saw a chain of `Covered` headers, one per block number up to the target in the
part of the range that it covers, and its roots are those of a tree with these
leaves, padded with zeros. A map job establishes it: numbers ascend by one from
the first block of the batch, so the slots after the target are exactly the
skipped ones (`EnabledPrefix`, `MapChain`). A reduce job joins two such chains
(`ReduceChain`); a right half without blocks is one that lies beyond the target,
and a left half that ends early has no right half. `MerkleSplit` is the lemma
behind the roots: the root of a tree of 2^(d+1) leaves is the hash of the roots of
its halves, so the circuit's tree of batch roots is the fetcher's single tree.
`HeadersRangeIs` shows that the fetcher's batches, which have another size,
join to the same headers.

**`RotateProofs`** (from `LengthsAssumption`, `FieldsAssumption`,
`HeadersAssumption` and `PaddingAssumption`, for any number of logs and
authorities and any set of paddings):

* `EveryHeaderDecoded` (`HeaderDecoded`): the decoder reads the four fields back
  from the encoding of every header, whatever follows it.
* `RotationSound` (`RotatedIsNextSet`): the repository's witness gives the
  commitment to the next set, and so does any other that satisfies the assertions
  of the circuit, under the hypotheses `by_set` and `GrandpaLogsOnly`.

Both work with one predicate, `At(bytes, from, part)`: the part is found in the
bytes at that offset. Lemmas follow it through concatenation, padding and
`Subarray`; `HeaderParts`, `LogParts` and `AnnouncementParts` say where the
encoder puts each part, and `CompactMode`, `CompactLength` and `CompactValue`
that the mode of a compact integer gives its length and its value back, on
both sides of 2^6, 2^14 and 2^30. `LogIsAt` finds each log of a header.
`AssertionsSound` has the argument: the precommit by the votes of the set names
the hash, so the header is one that the current set signed; if the log that the
circuit reads starts where the header has its announcement, `PrefixRead` and
`KeysRead` show that the circuit reads the number of authorities and the keys of
the announcement and nothing else, so the keys of the witness are those of the
next set, and its commitment is the one the fetcher computes. It does not depend
on how number and keys were chosen. The position is that of the announcement for
two reasons: for the repository's prover because `start_position` is one byte
before the first announcement, or further away and then rejected
(`RepositoryPosition`, for any number of logs), and for another prover because
of `GrandpaLogsOnly` (`OnlyAnnouncements`).
The invariant `RInv` carries justification, bytes and position from the hint to
the assertions.

**`AvailChainProofs`** holds the lemmas on set ids and epoch ends that the others
use. The inductive invariants were checked by TLC on the instances of the runs
too, `Fits` with two guardian transactions and both rankings; all but that of
`HeaderRangeProofs`, which quantifies over sequences of headers that TLC cannot
enumerate.

Induction over data has no theorem that the provers can instantiate. Where a
definition is recursive (`Pow2`, the levels of a Merkle tree, the fetcher's
batches, little-endian numbers, the joining of encoded logs), the proofs name a
function that solves the recursion, show that it exists and is unique by taking
the least number where it would fail (`LeastNumber`, from the library's
well-foundedness of the natural numbers), and go on from its equations.

Only model-checked:

* Liveness: `FollowsAvail`, `Terminates`, `FindTerminates`,
  `HonestProverSucceeds`, `HonestRotateProved`, `SimpleGoesThrough`,
  `EveryEventStored`. It is out of the prover's reach.
* That the repository's witness is accepted is part of the liveness properties
  `HonestProverSucceeds` and `HonestRotateProved`.

Every safety invariant and action property of the passing runs is a theorem.

## 6. Not modelled

* The circuit entry points, the ABI and configuration: no logic of their own.
* The debugging helpers of the fetcher and the decoding of storage values by
  avail-subxt; connections to nodes are reopened by `refresh_ws_connection`
  before each read, which is I/O.
* Reorganisations of the Ethereum chain, against which the events service has
  no defence (`events.rs:156`); the operator before `initialize`
  (`vectorx.rs:359`); an interval larger than the commitment tree
  (`vectorx.rs:421`).
* Witnesses that the repository's hints do not make and that mark slots past the
  last authority as signed, or have the start of a log past the end of the
  header: no property is claimed of them (section 2).
* Elliptic curve signatures and hash functions are taken to be ideal. The
  timelocked upgrade of the contract's code is library code.

## 7. Plan

All steps are done.

1. `AvailChain`, `VectorX`: the contract with late, repeated and lost proofs.
2. `VectorXProofs`: its inductive invariant.
3. `LastJustifiedBlock` with its proof.
4. `Operator`: the composition, its safety and liveness.
5. `FillBlockRange`, `Events`: the other processes that race the contract.
6. `SubchainVerification`, `Justification`: the circuits.
7. `HeaderCodec`, `Rotate`: the rotate circuit over the bytes of a header.
8. `Merkle`, `HeaderRange`: the header range circuit against the contract's
   view of it and against the fetcher's Merkle roots.
9. `AttestedChain`: the abstract light client and the refinement, by TLC and
   by proof (in `VectorXProofs`).
10. `FindJustifications`: the two writes of the indexer and their reader.
11. Proofs of the components around the contract: `OperatorProofs`,
    `JustificationProofs`, `EventsProofs`.
12. Proofs of the circuits and of the listing: `HeaderRangeProofs`,
    `RotateProofs`, and the walk over the eras in `LastJustifiedBlockProofs`.
