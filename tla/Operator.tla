------------------------------ MODULE Operator ------------------------------
(***************************************************************************)
(* The operator bin/vectorx.rs together with everything it works with: the *)
(* contract (VectorX), the finalized chain (AvailChain), the justification *)
(* indexer bin/indexer.rs with its Redis store, and the Succinct platform  *)
(* that proves the operator's requests and relays them to the contract.    *)
(*                                                                         *)
(* Every read of the contract and of the chain's head is a step of its     *)
(* own: other transactions and new blocks come in between.                 *)
(***************************************************************************)
EXTENDS VectorX

CONSTANTS
    Interval,           \* UPDATE_DELAY_BLOCKS
    IsDummyOperator,    \* is_dummy_operator
    Justified,          \* blocks whose justification reaches the indexer
    PlatformGateway,    \* the gateway the Succinct platform relays through
    MaxLost             \* bound: requests the platform loses

ASSUME OperatorAssumption ==
    /\ Interval \in Nat \ {0}
    /\ IsDummyOperator \in BOOLEAN
    /\ Justified \subseteq Heights \ {0}
    /\ PlatformGateway \in Gateways
    /\ MaxLost \in Nat

VARIABLES
    op,         \* the operator: program counter and local values
    redis,      \* blocks whose justification is stored in Redis
    lost        \* counts lost requests, for MaxLost

operatorVars == <<op, redis, lost>>
allVars == <<vars, operatorVars>>

\* Local values of one round of the loop: the contract data it has read
\* (function id, latest block, tree size, next hash exists), the Avail head,
\* the authority set of the request and the block to step to.
Asleep(pc) ==
    [pc |-> pc, functionId |-> Zero, block |-> 0, treeSize |-> 0,
     availHead |-> 0, nextExists |-> FALSE, id |-> 0, target |-> 0]

OperatorInit ==
    /\ Init
    /\ op = Asleep("sleep")
    /\ redis = {}
    /\ lost = 0

-----------------------------------------------------------------------------
(* The justification indexer and Redis.                                    *)

\* Only the write of the justification itself matters to the operator (module
\* FindJustifications has both writes of the indexer).
listen_for_justifications(b) ==
    /\ b <= head
    /\ b \notin redis
    /\ VerifiesAt(b)
    /\ redis' = redis \cup {b}
    /\ UNCHANGED <<vars, op, lost>>

\* get_justification_from_block(b) is Ok: from grandpa_proveFinality for an
\* epoch end block, from Redis for any other block.
HasJustification(b) ==
    /\ b <= head
    /\ EpochEnd(b) \/ b \in redis

-----------------------------------------------------------------------------
(* find_and_request_rotate.                                                *)

At(pc) == op.pc = pc

\* Mutant of current_authority_set_id: the set stored at the block itself.
authority_set_id_at_block == SetId[op.block]

\* The authority set that justified the contract's latest block.
current_authority_set_id == SignerOf(op.block)

StayOutside == UNCHANGED <<vars, redis, lost>>

read_rotate_function_id ==
    /\ At("sleep")
    /\ initialized
    /\ op' = [Asleep("rotate_block") EXCEPT !.functionId = rotateFunctionId]
    /\ StayOutside

read_rotate_block ==
    /\ At("rotate_block")
    /\ op' = [op EXCEPT !.pc = "rotate_next", !.block = latestBlock]
    /\ StayOutside

\* Mutant of NextHashExists: the hash of the current set is looked up.
CurrentHashExists == authoritySetIdToHash[current_authority_set_id] # Zero

NextHashExists == authoritySetIdToHash[current_authority_set_id + 1] # Zero

read_rotate_next ==
    /\ At("rotate_next")
    /\ op' = [op EXCEPT !.pc = "rotate_head", !.nextExists = NextHashExists]
    /\ StayOutside

\* Mutant of EpochIsOver: a head of the same epoch is enough.
EpochMayBeOver == current_authority_set_id <= SignerOf(head)

\* A rotate is requested when the head is justified by a later set.
EpochIsOver == current_authority_set_id < SignerOf(head)

find_and_request_rotate ==
    /\ At("rotate_head")
    /\ op' = IF EpochIsOver /\ ~ op.nextExists
             THEN [op EXCEPT !.pc = "rotate_submit"]
             ELSE Asleep("range_function")
    /\ StayOutside

request_rotate ==
    /\ At("rotate_submit")
    /\ op' = Asleep("range_function")
    /\ rotateRequests' = rotateRequests \cup
           {[gateway |-> PlatformGateway, functionId |-> op.functionId,
             input |-> RotateInput(current_authority_set_id)]}
    /\ UNCHANGED <<head, contractVars, headerRangeRequests, redis, lost>>

-----------------------------------------------------------------------------
(* find_and_request_header_range.                                          *)

\* Mutant of read_range_function_id: the other circuit's id is read.
read_wrong_function_id ==
    /\ At("range_function")
    /\ op' = [op EXCEPT !.pc = "range_block", !.functionId = rotateFunctionId]
    /\ StayOutside

read_range_function_id ==
    /\ At("range_function")
    /\ op' = [op EXCEPT !.pc = "range_block", !.functionId = headerRangeFunctionId]
    /\ StayOutside

read_range_block ==
    /\ At("range_block")
    /\ op' = [op EXCEPT !.pc = "range_tree", !.block = latestBlock]
    /\ StayOutside

read_range_tree ==
    /\ At("range_tree")
    /\ op' = [op EXCEPT !.pc = "range_head",
                        !.treeSize = headerRangeCommitmentTreeSize]
    /\ StayOutside

read_range_head ==
    /\ At("range_head")
    /\ op' = [op EXCEPT !.pc = "range_next", !.availHead = head]
    /\ StayOutside

read_range_next ==
    /\ At("range_next")
    /\ op' = [op EXCEPT !.pc = "range_epoch", !.nextExists = NextHashExists]
    /\ StayOutside

AtEpochEnd == op.block = last_justified_block(current_authority_set_id, head)

\* At the end of its epoch the contract needs the next set, or a rotate.
find_and_request_header_range ==
    /\ At("range_epoch")
    /\ op' = IF AtEpochEnd /\ ~ op.nextExists
             THEN Asleep("sleep")
             ELSE [op EXCEPT !.pc = "range_find",
                             !.id = IF AtEpochEnd
                                    THEN current_authority_set_id + 1
                                    ELSE current_authority_set_id]
    /\ StayOutside

\* Mutant of Reach: off by one.
ReachPlusOne == op.block + op.treeSize + 1

\* The furthest block the circuit can reach.
Reach == op.block + op.treeSize

max_valid_block_to_step_to == IF Reach <= op.availHead THEN Reach ELSE op.availHead

\* The largest multiple of the interval that is not beyond it.
ideal_block_to_step_to ==
    max_valid_block_to_step_to - (max_valid_block_to_step_to % Interval)

\* The head of find_block_to_step_to, up to the search for a justification.
find_block_to_step_to ==
    /\ At("range_find")
    /\ LET epoch_end == last_justified_block(op.id, head)
       IN op' = IF epoch_end # 0 /\ epoch_end <= Reach
                THEN [op EXCEPT !.pc = "range_submit", !.target = epoch_end]
                ELSE IF ideal_block_to_step_to <= op.block
                THEN Asleep("sleep")
                ELSE [op EXCEPT !.pc = IF IsDummyOperator
                                       THEN "range_submit" ELSE "range_search",
                                !.target = ideal_block_to_step_to]
    /\ StayOutside

\* One round of its loop: the block has a justification, or the next one is
\* tried.  A block that is not finalized may exist on the best chain, with
\* no justification yet.
search_justification ==
    /\ At("range_search")
    /\ \/ op.target > Reach
       \/ op.target <= head
       \/ op.target <= MaxBlock /\ ~ EpochEnd(op.target)
    /\ op' = IF op.target > Reach
             THEN Asleep("sleep")
             ELSE IF HasJustification(op.target)
             THEN [op EXCEPT !.pc = "range_submit"]
             ELSE [op EXCEPT !.target = op.target + 1]
    /\ StayOutside

\* Otherwise an RPC about it fails and the operator panics: the block does
\* not exist, or is an epoch end block that is not finalized.
panic ==
    /\ At("range_search")
    /\ op.target <= Reach
    /\ op.target > head
    /\ op' = Asleep("panicked")
    /\ StayOutside

restart ==
    /\ At("panicked")
    /\ op' = Asleep("sleep")
    /\ StayOutside

request_header_range ==
    /\ At("range_submit")
    /\ op' = Asleep("sleep")
    /\ headerRangeRequests' = headerRangeRequests \cup
           {[gateway |-> PlatformGateway, functionId |-> op.functionId,
             input |-> [trustedBlock |-> op.block,
                        trustedHeader |-> blockHeightToHeaderHash[op.block],
                        authoritySetId |-> op.id,
                        authoritySetHash |-> authoritySetIdToHash[op.id],
                        targetBlock |-> op.target]]}
    /\ UNCHANGED <<head, contractVars, rotateRequests, redis, lost>>

OperatorStep ==
    \/ read_rotate_function_id \/ read_rotate_block \/ read_rotate_next
    \/ find_and_request_rotate \/ request_rotate
    \/ read_range_function_id \/ read_range_block \/ read_range_tree
    \/ read_range_head \/ read_range_next \/ find_and_request_header_range
    \/ find_block_to_step_to \/ search_justification \/ request_header_range

-----------------------------------------------------------------------------
(* The platform.                                                           *)

\* A proof is relayed and the contract accepts it.
RelayRange(r) == commitHeaderRange(r) /\ UNCHANGED operatorVars
RelayRotate(r) == rotate(r) /\ UNCHANGED operatorVars

\* The contract's checks when r is relayed now.
RangeRelayable(r) ==
    /\ HeaderRangeAccepts(r.functionId, r.input)
    /\ ~ frozen
    /\ authoritySetIdToHash[r.input.authoritySetId] # Zero
    /\ NotOldAuthoritySet(r.input.authoritySetId)
    /\ AheadOfLatest(r.input.targetBlock)
    /\ verifiedCall(r, headerRangeFunctionId,
                    HeaderRangeInput(r.input.authoritySetId, r.input.targetBlock))

RotateRelayable(r) ==
    /\ RotateAccepts(r.input)
    /\ ~ frozen
    /\ authoritySetIdToHash[r.input.currentAuthoritySetId + 1] = Zero
    /\ verifiedCall(r, rotateFunctionId, RotateInput(r.input.currentAuthoritySetId))

Discard(r) ==
    /\ \/ /\ r \in headerRangeRequests
          /\ headerRangeRequests' = headerRangeRequests \ {r}
          /\ UNCHANGED rotateRequests
       \/ /\ r \in rotateRequests
          /\ rotateRequests' = rotateRequests \ {r}
          /\ UNCHANGED headerRangeRequests
    /\ UNCHANGED <<head, contractVars, op, redis>>

\* No proof can be made, or the relayed transaction reverts: the request is
\* over.
Reject ==
    /\ \/ \E r \in headerRangeRequests : ~ RangeRelayable(r) /\ Discard(r)
       \/ \E r \in rotateRequests : ~ RotateRelayable(r) /\ Discard(r)
    /\ UNCHANGED lost

\* The platform drops a request.
Lose ==
    /\ lost < MaxLost
    /\ lost' = lost + 1
    /\ \E r \in headerRangeRequests \cup rotateRequests : Discard(r)

PlatformStep ==
    \/ \E r \in headerRangeRequests : RelayRange(r)
    \/ \E r \in rotateRequests : RelayRotate(r)
    \/ Reject

\* Deployment, the guardian and the chain.
EnvironmentStep ==
    /\ AvailStep \/ InitializeStep \/ ConfigurationStep \/ GenesisStep
    /\ UNCHANGED operatorVars

IndexerStep == \E b \in Justified : listen_for_justifications(b)

OperatorNext ==
    \/ EnvironmentStep
    \/ IndexerStep
    \/ OperatorStep
    \/ panic
    \/ restart
    \/ PlatformStep
    \/ Lose

OperatorSpec == OperatorInit /\ [][OperatorNext]_allVars

-----------------------------------------------------------------------------
(* Correctness.                                                            *)

\* Types of the operator's local values, and of the requests it adds to the
\* contract's: a request names a circuit of its own kind.
OperatorTypeOK ==
    /\ TypeOK
    /\ redis \subseteq Justified
    /\ lost \in 0 .. MaxLost
    /\ op.functionId \in HeaderRangeFunctions \cup RotateFunctions \cup {Zero}
    /\ op.block \in Heights /\ op.availHead \in Heights
    /\ op.treeSize \in TreeSizes \cup {0}
    /\ op.nextExists \in BOOLEAN
    /\ op.id \in AuthoritySetIds
    /\ op.target \in 0 .. 2 * MaxBlock

\* Every header range the operator asks for can be proved as far as the
\* chain is concerned: it starts at a header the contract trusts and its
\* last block is finalized and has a stored justification by exactly the
\* authority set named in the request.  The search for a justification must
\* therefore stop at the end of the epoch it started in, although the head
\* moves while it runs.
RangeRequestsJustified ==
    \A r \in headerRangeRequests :
        /\ r.input.trustedHeader = HeaderHash(r.input.trustedBlock)
        /\ r.input.authoritySetHash = AuthoritySetHash(r.input.authoritySetId)
        /\ r.input.trustedBlock < r.input.targetBlock
        /\ SignerOf(r.input.targetBlock) = r.input.authoritySetId
        /\ HasJustification(r.input.targetBlock)

\* A request for the circuit that is in the contract fits that circuit,
\* although the function id and the tree size are read at different times.
RangeRequestsFit ==
    \A r \in headerRangeRequests :
        r.functionId = headerRangeFunctionId =>
            r.input.targetBlock <= r.input.trustedBlock + TreeSizeOf[r.functionId]

\* A rotate is asked for only when the rotate circuit can prove it.
RotateRequestsProvable ==
    \A r \in rotateRequests : RotateAccepts(r.input)

\* The platform, the operator's process supervisor, the indexer and the
\* chain keep working; nothing is assumed of the guardian.
Fairness ==
    /\ WF_allVars(AvailStep /\ UNCHANGED operatorVars)
    /\ WF_allVars(InitializeStep /\ UNCHANGED operatorVars)
    /\ WF_allVars(IndexerStep)
    /\ WF_allVars(OperatorStep)
    /\ WF_allVars(restart)
    /\ WF_allVars(PlatformStep)

FairOperatorSpec == OperatorSpec /\ Fairness

\* The light client follows Avail: unless the contract stays frozen, it gets
\* past every epoch end block, through lost requests, late relays, circuit
\* upgrades, new genesis states and panics of the operator.
FollowsAvail ==
    \A b \in Heights :
        EpochEnd(b) => []<>(latestBlock >= b \/ frozen)
=============================================================================
