------------------------------ MODULE VectorX ------------------------------
(***************************************************************************)
(* The light client contract, contracts/src/VectorX.sol, with the Succinct *)
(* gateway that calls it back with verified proofs.  Each action is one    *)
(* transaction; a revert is a transaction that is not enabled.             *)
(*                                                                         *)
(* The two circuits are represented by what a verified proof establishes   *)
(* about the Avail chain (HeaderRangeAccepts, RotateAccepts).  Guardian    *)
(* transactions carry the parameters that the repository's own tools       *)
(* compute (bin/genesis.rs, bin/fill_block_range.rs, the deploy scripts).  *)
(***************************************************************************)
EXTENDS AvailChain, FiniteSets, Sequences

CONSTANTS
    HeaderRangeFunctions,   \* ids of the deployed header range circuits
    TreeSizeOf,             \* MAX_NUM_HEADERS of each of them
    RotateFunctions,        \* ids of the deployed rotate circuits
    Gateways,               \* gateway addresses
    MaxRequests,            \* bound: proof requests outstanding at a time
    MaxGuardianCalls        \* bound: guardian transactions after initialize

ASSUME ContractAssumption ==
    /\ TreeSizeOf \in [HeaderRangeFunctions -> Nat \ {0}]
    /\ Zero \notin HeaderRangeFunctions \cup RotateFunctions \cup Gateways
    /\ MaxRequests \in Nat
    /\ MaxGuardianCalls \in Nat

TreeSizes == {TreeSizeOf[f] : f \in HeaderRangeFunctions}

\* keccak256(abi.encode(startBlock, endBlock))
RangeKeys == Heights \X Heights

VARIABLES
    initialized,                    \* the initializer has run
    frozen,
    gateway,
    latestBlock,
    latestAuthoritySetId,
    headerRangeFunctionId,
    rotateFunctionId,
    headerRangeCommitmentTreeSize,
    blockHeightToHeaderHash,
    authoritySetIdToHash,
    dataRootCommitments,
    stateRootCommitments,
    rangeStartBlocks,
    headerRangeRequests,            \* requests for commitHeaderRange
    rotateRequests,                 \* requests for rotate
    stored,         \* HeaderRangeCommitmentStored events emitted so far
    genesis,        \* history: height of the last trusted genesis state
    lineage,        \* history: ranges stored since that genesis state
    guardianCalls   \* counts guardian transactions, for MaxGuardianCalls

pointerVars == <<latestBlock, latestAuthoritySetId>>
configVars == <<gateway, headerRangeFunctionId, rotateFunctionId,
                headerRangeCommitmentTreeSize>>
hashVars == <<blockHeightToHeaderHash, authoritySetIdToHash>>
rangeVars == <<dataRootCommitments, stateRootCommitments, rangeStartBlocks,
               stored, lineage>>
requestVars == <<headerRangeRequests, rotateRequests>>
contractVars == <<initialized, frozen, pointerVars, configVars, hashVars,
                  rangeVars, genesis, guardianCalls>>
vars == <<head, contractVars, requestVars>>

-----------------------------------------------------------------------------
(* What a verified proof says of the chain.                                *)

HeaderRangeInputs ==
    [trustedBlock : Heights, trustedHeader : {HeaderHash(b) : b \in Heights},
     authoritySetId : AuthoritySetIds,
     authoritySetHash : {AuthoritySetHash(id) : id \in AuthoritySetIds},
     targetBlock : Heights]

RotateInputs ==
    [currentAuthoritySetId : AuthoritySetIds,
     currentAuthoritySetHash : {AuthoritySetHash(id) : id \in AuthoritySetIds}]

\* Mutant of HeaderRangeAccepts: any known set will do.
HeaderRangeAcceptsAnySet(fn, in) ==
    /\ in.trustedBlock < in.targetBlock
    /\ in.targetBlock <= in.trustedBlock + TreeSizeOf[fn]
    /\ in.targetBlock <= head
    /\ in.trustedHeader = HeaderHash(in.trustedBlock)
    /\ in.authoritySetHash = AuthoritySetHash(in.authoritySetId)

\* The header range circuit of function fn has a proof for input in: the
\* range fits the circuit, starts at the trusted header, ends at a finalized
\* block, and that block has a justification of the given authority set.
HeaderRangeAccepts(fn, in) ==
    /\ in.trustedBlock < in.targetBlock
    /\ in.targetBlock <= in.trustedBlock + TreeSizeOf[fn]
    /\ in.targetBlock <= head
    /\ in.trustedHeader = HeaderHash(in.trustedBlock)
    /\ in.authoritySetHash = AuthoritySetHash(in.authoritySetId)
    /\ SignerOf(in.targetBlock) = in.authoritySetId

\* Its three outputs, in the order the circuit writes them.
HeaderRangeOutput(fn, in) ==
    << HeaderHash(in.targetBlock),
       StateRootCommitment(in.trustedBlock, in.targetBlock, TreeSizeOf[fn]),
       DataRootCommitment(in.trustedBlock, in.targetBlock, TreeSizeOf[fn]) >>

\* Mutant of RotateAccepts: no epoch end header is demanded.
RotateAcceptsAnyTime(in) ==
    in.currentAuthoritySetHash = AuthoritySetHash(in.currentAuthoritySetId)

\* The rotate circuit has a proof: the given set is the real one and its
\* epoch is over, so an epoch end header announcing the next set exists.
RotateAccepts(in) ==
    /\ in.currentAuthoritySetHash = AuthoritySetHash(in.currentAuthoritySetId)
    /\ last_justified_block(in.currentAuthoritySetId, head) # 0

RotateOutput(in) == AuthoritySetHash(in.currentAuthoritySetId + 1)

\* Mutants of verifiedCall: the input, or the function, is not compared.
verifiedCallAnyInput(r, functionId, input) ==
    r.gateway = gateway /\ r.functionId = functionId
verifiedCallAnyFunction(r, functionId, input) ==
    r.gateway = gateway /\ r.input = input

\* While gateway r.gateway fulfils request r it answers verifiedCall for
\* exactly the function and the input it has just verified.
verifiedCall(r, functionId, input) ==
    /\ r.gateway = gateway
    /\ r.functionId = functionId
    /\ r.input = input

-----------------------------------------------------------------------------
(* Parameters that the off-chain tools compute from the chain.             *)

\* Mutant of GenesisParameters: the hash of the parent block.
GenesisOfParent(b) ==
    [height |-> b, header |-> HeaderHash(b - 1),
     authoritySetId |-> SetId[b], authoritySetHash |-> AuthoritySetHash(SetId[b])]

\* bin/genesis.rs: the genesis state at block b.
GenesisParameters(b) ==
    [height |-> b, header |-> HeaderHash(b),
     authoritySetId |-> SetId[b], authoritySetHash |-> AuthoritySetHash(SetId[b])]

\* Mutant of get_block_range_data: the authority set before the start block.
get_block_range_data_old_set(tree, start, end) ==
    LET n == (end - start + tree - 1) \div tree
        from(i) == start + (i - 1) * tree
        to(i) == IF from(i) + tree <= end THEN from(i) + tree ELSE end
    IN [startBlocks |-> [i \in 1 .. n |-> from(i)],
        endBlocks |-> [i \in 1 .. n |-> to(i)],
        headerHashes |-> [i \in 1 .. n |-> HeaderHash(to(i))],
        dataRootCommitments |->
            [i \in 1 .. n |-> DataRootCommitment(from(i), to(i), tree)],
        stateRootCommitments |->
            [i \in 1 .. n |-> StateRootCommitment(from(i), to(i), tree)],
        endAuthoritySetId |-> SetId[start - 1],
        endAuthoritySetHash |-> AuthoritySetHash(SetId[start - 1])]

\* bin/fill_block_range.rs: (start, end] cut into chunks of `tree` blocks,
\* the last one possibly shorter.
get_block_range_data(tree, start, end) ==
    LET n == (end - start + tree - 1) \div tree
        from(i) == start + (i - 1) * tree
        to(i) == IF from(i) + tree <= end THEN from(i) + tree ELSE end
    IN [startBlocks |-> [i \in 1 .. n |-> from(i)],
        endBlocks |-> [i \in 1 .. n |-> to(i)],
        headerHashes |-> [i \in 1 .. n |-> HeaderHash(to(i))],
        dataRootCommitments |->
            [i \in 1 .. n |-> DataRootCommitment(from(i), to(i), tree)],
        stateRootCommitments |->
            [i \in 1 .. n |-> StateRootCommitment(from(i), to(i), tree)],
        endAuthoritySetId |-> SetId[end],
        endAuthoritySetHash |-> AuthoritySetHash(SetId[end])]

-----------------------------------------------------------------------------
(* Deployment and guardian transactions.                                   *)

\* The proxy is deployed with all storage zero.
Init ==
    /\ head = 1
    /\ initialized = FALSE
    /\ frozen = FALSE
    /\ gateway = Zero
    /\ latestBlock = 0
    /\ latestAuthoritySetId = 0
    /\ headerRangeFunctionId = Zero
    /\ rotateFunctionId = Zero
    /\ headerRangeCommitmentTreeSize = 0
    /\ blockHeightToHeaderHash = [b \in Heights |-> Zero]
    /\ authoritySetIdToHash = [id \in AuthoritySetIds |-> Zero]
    /\ dataRootCommitments = [k \in RangeKeys |-> Zero]
    /\ stateRootCommitments = [k \in RangeKeys |-> Zero]
    /\ rangeStartBlocks = [k \in RangeKeys |-> 0]
    /\ headerRangeRequests = {}
    /\ rotateRequests = {}
    /\ stored = {}
    /\ genesis = 0
    /\ lineage = {}
    /\ guardianCalls = 0

\* initialize(params), run once: the initializer modifier.
initialize(p, gw, hr, rot, tree) ==
    /\ ~ initialized
    /\ initialized' = TRUE
    /\ gateway' = gw
    /\ blockHeightToHeaderHash' =
           [blockHeightToHeaderHash EXCEPT ![p.height] = p.header]
    /\ authoritySetIdToHash' =
           [authoritySetIdToHash EXCEPT ![p.authoritySetId] = p.authoritySetHash]
    /\ latestAuthoritySetId' = p.authoritySetId
    /\ latestBlock' = p.height
    /\ rotateFunctionId' = rot
    /\ headerRangeFunctionId' = hr
    /\ headerRangeCommitmentTreeSize' = tree
    /\ genesis' = p.height
    /\ UNCHANGED <<head, frozen, rangeVars, requestVars, guardianCalls>>

\* onlyGuardian; the guardian role is granted by initialize.
onlyGuardian ==
    /\ initialized
    /\ guardianCalls < MaxGuardianCalls
    /\ guardianCalls' = guardianCalls + 1

updateFreeze(freeze) ==
    /\ onlyGuardian
    /\ frozen' = freeze
    /\ UNCHANGED <<head, initialized, pointerVars, configVars, hashVars,
                   rangeVars, requestVars, genesis>>

\* Mutant of updateFunctionIds: the tree size of the old circuit stays.
updateFunctionIdsOnly(hr, rot, tree) ==
    /\ onlyGuardian
    /\ headerRangeFunctionId' = hr
    /\ rotateFunctionId' = rot
    /\ UNCHANGED <<head, initialized, frozen, gateway, pointerVars, hashVars,
                   rangeVars, requestVars, genesis,
                   headerRangeCommitmentTreeSize>>

updateFunctionIds(hr, rot, tree) ==
    /\ onlyGuardian
    /\ headerRangeFunctionId' = hr
    /\ rotateFunctionId' = rot
    /\ headerRangeCommitmentTreeSize' = tree
    /\ UNCHANGED <<head, initialized, frozen, gateway, pointerVars, hashVars,
                   rangeVars, requestVars, genesis>>

updateGateway(gw) ==
    /\ onlyGuardian
    /\ gateway' = gw
    /\ UNCHANGED <<head, initialized, frozen, pointerVars,
                   headerRangeFunctionId, rotateFunctionId,
                   headerRangeCommitmentTreeSize, hashVars, rangeVars,
                   requestVars, genesis>>

\* Mutant of updateGenesisState: latestAuthoritySetId is not set.
updateGenesisHeader(p) ==
    /\ onlyGuardian
    /\ blockHeightToHeaderHash' =
           [blockHeightToHeaderHash EXCEPT ![p.height] = p.header]
    /\ latestBlock' = p.height
    /\ authoritySetIdToHash' =
           [authoritySetIdToHash EXCEPT ![p.authoritySetId] = p.authoritySetHash]
    /\ genesis' = p.height
    /\ lineage' = {}
    /\ UNCHANGED <<head, initialized, frozen, configVars, dataRootCommitments,
                   stateRootCommitments, rangeStartBlocks, stored, requestVars,
                   latestAuthoritySetId>>

\* A new genesis state may be ahead of or behind latestBlock; the entries
\* of the mappings that are already written stay.
updateGenesisState(p) ==
    /\ onlyGuardian
    /\ blockHeightToHeaderHash' =
           [blockHeightToHeaderHash EXCEPT ![p.height] = p.header]
    /\ latestBlock' = p.height
    /\ authoritySetIdToHash' =
           [authoritySetIdToHash EXCEPT ![p.authoritySetId] = p.authoritySetHash]
    /\ latestAuthoritySetId' = p.authoritySetId
    /\ genesis' = p.height
    /\ lineage' = {}
    /\ UNCHANGED <<head, initialized, frozen, configVars, dataRootCommitments,
                   stateRootCommitments, rangeStartBlocks, stored, requestVars>>

\* Mutant of WriteAll: the loop stops one short.
WriteAllButLast(m, keys, values) ==
    [k \in DOMAIN m |->
        IF \E i \in DOMAIN keys : keys[i] = k /\ i < Len(keys)
        THEN values[CHOOSE i \in DOMAIN keys : keys[i] = k]
        ELSE m[k]]

\* The mapping m after the assignments m[keys[i]] = values[i], in order.
WriteAll(m, keys, values) ==
    [k \in DOMAIN m |->
        IF \E i \in DOMAIN keys : keys[i] = k
        THEN values[CHOOSE i \in DOMAIN keys :
                        /\ keys[i] = k
                        /\ \A j \in DOMAIN keys : keys[j] = k => j <= i]
        ELSE m[k]]

\* Mutant of ChunksFollowLatest: the first chunk may start anywhere.
ChunksFollowEachOther(c) ==
    /\ Len(c.startBlocks) > 0
    /\ \A i \in 1 .. Len(c.startBlocks) - 1 :
           c.endBlocks[i] = c.startBlocks[i + 1]

\* The chunks of the call follow each other, starting at the latest block.
ChunksFollowLatest(c) ==
    /\ Len(c.startBlocks) > 0
    /\ Len(c.startBlocks) = Len(c.endBlocks)
    /\ Len(c.endBlocks) = Len(c.headerHashes)
    /\ Len(c.headerHashes) = Len(c.dataRootCommitments)
    /\ Len(c.dataRootCommitments) = Len(c.stateRootCommitments)
    /\ c.startBlocks[1] = latestBlock
    /\ \A i \in 1 .. Len(c.startBlocks) - 1 :
           c.endBlocks[i] = c.startBlocks[i + 1]

updateBlockRangeData(c) ==
    LET chunks == DOMAIN c.startBlocks
        keys == [i \in chunks |-> <<c.startBlocks[i], c.endBlocks[i]>>]
    IN
    /\ onlyGuardian
    /\ ChunksFollowLatest(c)
    /\ dataRootCommitments' =
           WriteAll(dataRootCommitments, keys, c.dataRootCommitments)
    /\ stateRootCommitments' =
           WriteAll(stateRootCommitments, keys, c.stateRootCommitments)
    /\ rangeStartBlocks' = WriteAll(rangeStartBlocks, keys, c.startBlocks)
    /\ blockHeightToHeaderHash' =
           WriteAll(blockHeightToHeaderHash, c.endBlocks, c.headerHashes)
    /\ stored' = stored \cup
           {[startBlock |-> c.startBlocks[i], endBlock |-> c.endBlocks[i],
             dataCommitment |-> c.dataRootCommitments[i],
             stateCommitment |-> c.stateRootCommitments[i],
             treeSize |-> headerRangeCommitmentTreeSize] : i \in chunks}
    /\ lineage' = lineage \cup {keys[i] : i \in chunks}
    /\ latestBlock' = c.endBlocks[Len(c.endBlocks)]
    /\ authoritySetIdToHash' =
           [authoritySetIdToHash EXCEPT ![c.endAuthoritySetId] = c.endAuthoritySetHash]
    /\ latestAuthoritySetId' = c.endAuthoritySetId
    /\ UNCHANGED <<head, initialized, frozen, configVars, requestVars, genesis>>

-----------------------------------------------------------------------------
(* Requests and their fulfilment.                                          *)

CanRequest == Cardinality(headerRangeRequests) + Cardinality(rotateRequests) < MaxRequests

\* The input bytes of a header range proof from the current latest block.
HeaderRangeInput(id, target) ==
    [trustedBlock |-> latestBlock,
     trustedHeader |-> blockHeightToHeaderHash[latestBlock],
     authoritySetId |-> id,
     authoritySetHash |-> authoritySetIdToHash[id],
     targetBlock |-> target]

RotateInput(id) ==
    [currentAuthoritySetId |-> id,
     currentAuthoritySetHash |-> authoritySetIdToHash[id]]

requestHeaderRange(id, requestedBlock) ==
    /\ blockHeightToHeaderHash[latestBlock] # Zero
    /\ authoritySetIdToHash[id] # Zero
    /\ requestedBlock > latestBlock
    /\ CanRequest
    /\ headerRangeRequests' = headerRangeRequests \cup
           {[gateway |-> gateway, functionId |-> headerRangeFunctionId,
             input |-> HeaderRangeInput(id, requestedBlock)]}
    /\ UNCHANGED <<head, contractVars, rotateRequests>>

\* Mutant of requestRotate: an unknown authority set is not refused.
requestRotateUnchecked(id) ==
    /\ authoritySetIdToHash[id + 1] = Zero
    /\ CanRequest
    /\ rotateRequests' = rotateRequests \cup
           {[gateway |-> gateway, functionId |-> rotateFunctionId,
             input |-> RotateInput(id)]}
    /\ UNCHANGED <<head, contractVars, headerRangeRequests>>

requestRotate(id) ==
    /\ authoritySetIdToHash[id] # Zero
    /\ authoritySetIdToHash[id + 1] = Zero
    /\ CanRequest
    /\ rotateRequests' = rotateRequests \cup
           {[gateway |-> gateway, functionId |-> rotateFunctionId,
             input |-> RotateInput(id)]}
    /\ UNCHANGED <<head, contractVars, headerRangeRequests>>

\* A set that committed a header range does not come back.
NotOldAuthoritySet(id) == id >= latestAuthoritySetId

\* A commit moves the head of the light client forward.
AheadOfLatest(target) == target > latestBlock

\* The gateway fulfils header range request r with a proof and calls
\* commitHeaderRange(id, target).  The request stays: nothing stops the
\* same proof from being relayed again.
commitHeaderRange(r) ==
    LET id == r.input.authoritySetId
        target == r.input.targetBlock
        output == HeaderRangeOutput(r.functionId, r.input)
        key == <<latestBlock, target>>
    IN
    /\ HeaderRangeAccepts(r.functionId, r.input)
    /\ ~ frozen
    /\ blockHeightToHeaderHash[latestBlock] # Zero
    /\ authoritySetIdToHash[id] # Zero
    /\ NotOldAuthoritySet(id)
    /\ latestAuthoritySetId' =
           IF id > latestAuthoritySetId THEN id ELSE latestAuthoritySetId
    /\ AheadOfLatest(target)
    /\ verifiedCall(r, headerRangeFunctionId, HeaderRangeInput(id, target))
    /\ blockHeightToHeaderHash' =
           [blockHeightToHeaderHash EXCEPT ![target] = output[1]]
    /\ dataRootCommitments' = [dataRootCommitments EXCEPT ![key] = output[3]]
    /\ stateRootCommitments' = [stateRootCommitments EXCEPT ![key] = output[2]]
    /\ rangeStartBlocks' = [rangeStartBlocks EXCEPT ![key] = latestBlock]
    /\ stored' = stored \cup
           {[startBlock |-> latestBlock, endBlock |-> target,
             dataCommitment |-> output[3], stateCommitment |-> output[2],
             treeSize |-> headerRangeCommitmentTreeSize]}
    /\ lineage' = lineage \cup {key}
    /\ latestBlock' = target
    /\ UNCHANGED <<head, initialized, frozen, configVars, authoritySetIdToHash,
                   requestVars, genesis, guardianCalls>>

\* The gateway fulfils rotate request r and calls rotate(id).
rotate(r) ==
    LET id == r.input.currentAuthoritySetId
    IN
    /\ RotateAccepts(r.input)
    /\ ~ frozen
    /\ authoritySetIdToHash[id] # Zero
    /\ authoritySetIdToHash[id + 1] = Zero
    /\ verifiedCall(r, rotateFunctionId, RotateInput(id))
    /\ authoritySetIdToHash' =
           [authoritySetIdToHash EXCEPT ![id + 1] = RotateOutput(r.input)]
    /\ UNCHANGED <<head, initialized, frozen, pointerVars, configVars,
                   blockHeightToHeaderHash, rangeVars, requestVars, genesis,
                   guardianCalls>>

\* A request is abandoned: no proof can be made, or the prover gives up.
Abandon ==
    /\ \/ /\ \E r \in headerRangeRequests :
                 headerRangeRequests' = headerRangeRequests \ {r}
          /\ UNCHANGED rotateRequests
       \/ /\ \E r \in rotateRequests : rotateRequests' = rotateRequests \ {r}
          /\ UNCHANGED headerRangeRequests
    /\ UNCHANGED <<head, contractVars>>

-----------------------------------------------------------------------------
FinalizedHeights == 1 .. head

AvailStep == Finalize /\ UNCHANGED <<contractVars, requestVars>>

InitializeStep ==
    \E b \in FinalizedHeights, gw \in Gateways, hr \in HeaderRangeFunctions,
       rot \in RotateFunctions :
        initialize(GenesisParameters(b), gw, hr, rot, TreeSizeOf[hr])

ConfigurationStep ==
    \/ \E freeze \in BOOLEAN : updateFreeze(freeze)
    \/ \E hr \in HeaderRangeFunctions, rot \in RotateFunctions :
           updateFunctionIds(hr, rot, TreeSizeOf[hr])
    \/ \E gw \in Gateways : updateGateway(gw)

GenesisStep ==
    \E b \in FinalizedHeights : updateGenesisState(GenesisParameters(b))

\* fill_block_range run and posted without anything in between.
FillStep ==
    \E end \in latestBlock + 1 .. head :
        updateBlockRangeData(
            get_block_range_data(headerRangeCommitmentTreeSize, latestBlock, end))

RequestStep ==
    \/ \E id \in AuthoritySetIds, target \in Heights : requestHeaderRange(id, target)
    \/ \E id \in 0 .. SetId[MaxBlock] : requestRotate(id)

FulfilStep ==
    \/ \E r \in headerRangeRequests : commitHeaderRange(r)
    \/ \E r \in rotateRequests : rotate(r)

Next ==
    \/ AvailStep
    \/ InitializeStep
    \/ ConfigurationStep
    \/ GenesisStep
    \/ FillStep
    \/ RequestStep
    \/ FulfilStep
    \/ Abandon

Spec == Init /\ [][Next]_vars

-----------------------------------------------------------------------------
(* Correctness.                                                            *)

HeaderHashes == {HeaderHash(b) : b \in Heights}
AuthoritySetHashes == {AuthoritySetHash(id) : id \in AuthoritySetIds}
DataCommitments ==
    {DataRootCommitment(s, e, t) : s \in Heights, e \in Heights, t \in TreeSizes}
StateCommitments ==
    {StateRootCommitment(s, e, t) : s \in Heights, e \in Heights, t \in TreeSizes}

HeaderRangeRequestType ==
    [gateway : Gateways, functionId : HeaderRangeFunctions,
     input : HeaderRangeInputs]
RotateRequestType ==
    [gateway : Gateways, functionId : RotateFunctions, input : RotateInputs]
EventType ==
    [startBlock : Heights, endBlock : Heights, dataCommitment : DataCommitments,
     stateCommitment : StateCommitments, treeSize : TreeSizes]

ConfigurationOK ==
    IF initialized
    THEN /\ gateway \in Gateways
         /\ headerRangeFunctionId \in HeaderRangeFunctions
         /\ rotateFunctionId \in RotateFunctions
         /\ headerRangeCommitmentTreeSize \in TreeSizes
    ELSE /\ gateway = Zero
         /\ headerRangeFunctionId = Zero
         /\ rotateFunctionId = Zero
         /\ headerRangeCommitmentTreeSize = 0

\* Types of the contract's storage, of the outstanding requests and of the
\* events.  A request never carries bytes32(0) for a hash: both request
\* functions revert on it.
TypeOK ==
    /\ head \in Heights \ {0}
    /\ initialized \in BOOLEAN
    /\ frozen \in BOOLEAN
    /\ ConfigurationOK
    /\ latestBlock \in Heights
    /\ latestAuthoritySetId \in AuthoritySetIds
    /\ blockHeightToHeaderHash \in [Heights -> HeaderHashes \cup {Zero}]
    /\ authoritySetIdToHash \in [AuthoritySetIds -> AuthoritySetHashes \cup {Zero}]
    /\ dataRootCommitments \in [RangeKeys -> DataCommitments \cup {Zero}]
    /\ stateRootCommitments \in [RangeKeys -> StateCommitments \cup {Zero}]
    /\ rangeStartBlocks \in [RangeKeys -> Heights]
    /\ headerRangeRequests \subseteq HeaderRangeRequestType
    /\ rotateRequests \subseteq RotateRequestType
    /\ stored \subseteq EventType
    /\ genesis \in Heights
    /\ lineage \subseteq RangeKeys
    /\ guardianCalls \in Nat

\* Every header hash the contract stores, whether from a proof, a genesis
\* state or a filled range, is the hash of the finalized Avail block at that
\* height.
HeadersCanonical ==
    \A b \in Heights :
        blockHeightToHeaderHash[b] # Zero =>
            b <= head /\ blockHeightToHeaderHash[b] = HeaderHash(b)

\* Every authority set hash the contract stores is that of the set with that
\* id, and the block announcing that set is finalized: rotate never runs
\* ahead of Avail or writes under the wrong id.
AuthoritySetsCanonical ==
    \A id \in AuthoritySetIds :
        authoritySetIdToHash[id] # Zero =>
            id <= SetId[head] /\ authoritySetIdToHash[id] = AuthoritySetHash(id)

\* The data and the state commitment under key (start, end) are those of
\* exactly the blocks start+1 .. end, the start block is recorded, and the
\* headers at both ends are known.
RangeCommitmentsCanonical ==
    \A k \in RangeKeys :
        dataRootCommitments[k] # Zero =>
            /\ k[1] < k[2]
            /\ \E t \in TreeSizes :
                   /\ dataRootCommitments[k] = DataRootCommitment(k[1], k[2], t)
                   /\ stateRootCommitments[k] = StateRootCommitment(k[1], k[2], t)
                   /\ k[2] <= k[1] + t
            /\ rangeStartBlocks[k] = k[1]
            /\ blockHeightToHeaderHash[k[1]] # Zero
            /\ blockHeightToHeaderHash[k[2]] # Zero

\* latestAuthoritySetId, which OldAuthoritySetId compares with, is the set
\* that justified latestBlock or the one that takes over after it; its hash
\* and the trusted header are known.
AuthorityWindow ==
    initialized =>
        /\ latestBlock > 0
        /\ latestAuthoritySetId \in {SignerOf(latestBlock), SetId[latestBlock]}
        /\ authoritySetIdToHash[latestAuthoritySetId] # Zero
        /\ blockHeightToHeaderHash[latestBlock] # Zero

\* The light client is never stranded: the hash of the set that signs the
\* block after latestBlock is known, or a rotate request for it can be made,
\* and once that block is finalized the circuit has a proof for the rotate.
NeverStranded ==
    initialized /\ latestBlock < head =>
        LET id == SignerOf(latestBlock + 1)
        IN \/ authoritySetIdToHash[id] # Zero
           \/ /\ id > 0
              /\ authoritySetIdToHash[id - 1] # Zero
              /\ RotateAccepts(RotateInput(id - 1))

Covers(k, b) == k[1] < b /\ b <= k[2]

\* The ranges stored since the last genesis state tile (genesis,
\* latestBlock]: every block since genesis is in exactly one of them, and no
\* range reaches outside.  A verifier can therefore find the one attestation
\* of a block, as the services built on the events assume.
RangesTile ==
    /\ \A k \in lineage :
           /\ genesis <= k[1]
           /\ k[2] <= latestBlock
           /\ dataRootCommitments[k] # Zero
    /\ \A b \in genesis + 1 .. latestBlock :
           \E k \in lineage :
               /\ Covers(k, b)
               /\ \A l \in lineage : Covers(l, b) => l = k

\* The tree size announced by HeaderRangeCommitmentStored is the one both
\* commitments of the event were computed with, so that a Merkle proof of
\* that depth verifies.
AnnouncedTreeSize ==
    \A ev \in stored :
        /\ ev.dataCommitment.tree = ev.treeSize
        /\ ev.stateCommitment.tree = ev.treeSize

\* The light client that the contract stands for: the hashes and ranges that
\* it stores and that are those of the Avail chain.
KnownHeaders == {b \in Heights : blockHeightToHeaderHash[b] = HeaderHash(b)}
KnownSets == {id \in AuthoritySetIds : authoritySetIdToHash[id] = AuthoritySetHash(id)}
AttestedRanges ==
    {k \in lineage : \E t \in TreeSizes :
         /\ dataRootCommitments[k] = DataRootCommitment(k[1], k[2], t)
         /\ stateRootCommitments[k] = StateRootCommitment(k[1], k[2], t)}

Attested == INSTANCE AttestedChain WITH
    origin <- genesis, tip <- latestBlock, ranges <- AttestedRanges,
    headers <- KnownHeaders, sets <- KnownSets

\* The contract implements AttestedChain: whatever is relayed, repeated or
\* reconfigured, a transaction leaves the attested chain alone, trusts a
\* finalized block, learns the next authority set when its time has come, or
\* attests blocks that follow the tip and that a known set has signed.
ImplementsAttestedChain == Attested!AttestedSpec

\* A stored hash stays as it is.
HashesKept ==
    /\ \A b \in Heights : blockHeightToHeaderHash[b] # Zero =>
           blockHeightToHeaderHash'[b] = blockHeightToHeaderHash[b]
    /\ \A id \in AuthoritySetIds : authoritySetIdToHash[id] # Zero =>
           authoritySetIdToHash'[id] = authoritySetIdToHash[id]

\* The head and the authority set of the light client do not move back.
MovesForward ==
    /\ latestBlock' >= latestBlock
    /\ latestAuthoritySetId' >= latestAuthoritySetId

\* Only a new genesis state moves latestBlock or latestAuthoritySetId back,
\* and no transaction at all, not even that one, erases or rewrites a stored
\* hash.
NoRollback == [][HashesKept /\ (GenesisStep \/ MovesForward)]_vars
=============================================================================
