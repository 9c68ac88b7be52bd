--------------------------- MODULE OperatorProofs ---------------------------
(***************************************************************************)
(* Proofs about the two programs that call the contract, the operator and  *)
(* the guardian's fill_block_range, for every Avail chain, every interval, *)
(* any number of circuits, lost requests and guardian transactions.        *)
(*                                                                         *)
(* The operator works with values it read some steps ago.  LocalOK says,   *)
(* for each point of its loop, what these values still mean now; all of it *)
(* survives new blocks, stored justifications and transactions, because    *)
(* the chain only grows and the contract forgets no hash (StepForward).    *)
(***************************************************************************)
EXTENDS Operator, FillBlockRange, VectorXProofs

RotatePoints == {"rotate_block", "rotate_next", "rotate_head", "rotate_submit"}

\* The points of find_and_request_header_range from which on the function
\* id, the latest block, the tree size and the authority set are known.
RangePoints == {"range_block", "range_tree", "range_head", "range_next",
                "range_epoch", "range_find", "range_search", "range_submit"}
BlockPoints == RangePoints \ {"range_block"}
TreePoints == BlockPoints \ {"range_tree"}
IdPoints == {"range_find", "range_search", "range_submit"}

Points == {"sleep", "panicked", "range_function"} \cup RotatePoints \cup RangePoints

LocalType ==
    [pc : Points, functionId : HeaderRangeFunctions \cup RotateFunctions \cup {Zero},
     block : Heights, treeSize : TreeSizes \cup {0}, availHead : Heights,
     nextExists : BOOLEAN, id : AuthoritySetIds, target : 0 .. 2 * MaxBlock]

HashKnown(id) == authoritySetIdToHash[id] # Zero

\* A block that was latestBlock once: it is finalized, the contract has its
\* header, and the hash of the set that signed it or of the one after it.
WasLatest(b) ==
    /\ b \in Heights \ {0}
    /\ b <= head
    /\ blockHeightToHeaderHash[b] # Zero
    /\ HashKnown(SignerOf(b)) \/ HashKnown(SetId[b])

\* The local values o before a rotate is submitted: if the next hash was not
\* there, that of the current set was.
RotateLocal(o) ==
    /\ o.pc \in RotatePoints => o.functionId \in RotateFunctions
    /\ o.pc \in RotatePoints \ {"rotate_block"} => WasLatest(o.block)
    /\ o.pc \in {"rotate_head", "rotate_submit"} =>
           o.nextExists \/ HashKnown(SignerOf(o.block))
    /\ o.pc = "rotate_submit" =>
           ~ o.nextExists /\ last_justified_block(SignerOf(o.block), head) # 0

\* ... and before a header range is: the authority set is the one that signs
\* the blocks after the latest block, and the search has not left its epoch.
RangeLocal(o) ==
    /\ o.pc \in RangePoints => o.functionId \in HeaderRangeFunctions
    /\ o.pc \in BlockPoints => WasLatest(o.block)
    /\ o.pc \in TreePoints => o.treeSize \in TreeSizes
    /\ o.pc = "range_epoch" => (o.nextExists => HashKnown(SignerOf(o.block) + 1))
    /\ o.pc \in IdPoints => o.id = SetId[o.block] /\ HashKnown(o.id)
    /\ o.pc = "range_search" =>
           o.block < o.target /\ o.target <= MaxBlock + 1 /\ SignerOf(o.target) = o.id
    /\ o.pc = "range_submit" =>
           /\ o.block < o.target
           /\ o.target <= head
           /\ o.target <= o.block + o.treeSize
           /\ SignerOf(o.target) = o.id
           /\ IsDummyOperator \/ HasJustification(o.target)

LocalOK(o) ==
    /\ o \in LocalType
    /\ o.availHead <= head
    /\ o.pc \notin {"sleep", "panicked"} => initialized
    /\ RotateLocal(o)
    /\ RangeLocal(o)

\* The requests that wait for a proof.  A dummy operator does not look for
\* a justification.
RangeRequestOK(r) ==
    /\ r.input.trustedHeader = HeaderHash(r.input.trustedBlock)
    /\ r.input.authoritySetHash = AuthoritySetHash(r.input.authoritySetId)
    /\ r.input.trustedBlock < r.input.targetBlock
    /\ SignerOf(r.input.targetBlock) = r.input.authoritySetId
    /\ r.input.targetBlock <= head
    /\ IsDummyOperator \/ HasJustification(r.input.targetBlock)

RequestsOK ==
    /\ \A r \in headerRangeRequests : RangeRequestOK(r)
    /\ \A r \in rotateRequests : RotateAccepts(r.input)

OInv ==
    /\ IInv
    /\ redis \subseteq Justified
    /\ lost \in 0 .. MaxLost
    /\ LocalOK(op)
    /\ RequestsOK

-----------------------------------------------------------------------------
(* The chain.                                                              *)

\* The types of the local values.
LEMMA LocalTyped ==
    ASSUME NEW o \in LocalType
    PROVE  /\ o.functionId \in HeaderRangeFunctions \cup RotateFunctions \cup {Zero}
           /\ o.block \in Heights /\ o.block \in Nat
           /\ o.availHead \in Heights /\ o.availHead \in Nat
           /\ o.treeSize \in TreeSizes \cup {0} /\ o.treeSize \in Nat
           /\ o.nextExists \in BOOLEAN
           /\ o.id \in AuthoritySetIds /\ o.id \in Nat
           /\ o.target \in 0 .. 2 * MaxBlock /\ o.target \in Nat
PROOF
<1>1. /\ o.functionId \in HeaderRangeFunctions \cup RotateFunctions \cup {Zero}
      /\ o.block \in Heights
      /\ o.availHead \in Heights
      /\ o.treeSize \in TreeSizes \cup {0}
      /\ o.nextExists \in BOOLEAN
      /\ o.id \in AuthoritySetIds
      /\ o.target \in 0 .. 2 * MaxBlock
  BY DEF LocalType
<1>2. TreeSizes \subseteq Nat
  BY ContractAssumption DEF TreeSizes
<1>3. /\ o.block \in Nat /\ o.availHead \in Nat /\ o.treeSize \in Nat
      /\ o.id \in Nat
  <2>1. /\ Heights \subseteq Nat /\ AuthoritySetIds \subseteq Nat
        /\ TreeSizes \cup {0} \subseteq Nat
    BY <1>2, SetIdFacts
  <2>2. /\ o.block \in Heights /\ o.availHead \in Heights
        /\ o.treeSize \in TreeSizes \cup {0} /\ o.id \in AuthoritySetIds
    BY <1>1
  <2> QED BY <2>1, <2>2, Zenon
<1>4. o.target \in Nat
  BY <1>1, ChainAssumption
<1> QED BY <1>1, <1>3, <1>4, Zenon

\* The set after block b signs the next block.
LEMMA NextSigner ==
    ASSUME NEW b \in Nat
    PROVE  SignerOf(b + 1) = SetId[b]
PROOF
<1>1. b + 1 - 1 = b
  OBVIOUS
<1> QED BY <1>1 DEF SignerOf

\* What last_justified_block returns, when it returns a block.
LEMMA LastJustifiedBlockReturns ==
    ASSUME NEW id, NEW h \in Heights, last_justified_block(id, h) # 0
    PROVE  /\ last_justified_block(id, h) \in 1 .. h
           /\ IsLastBlockOf(last_justified_block(id, h), id)
PROOF
<1>1. \E b \in 1 .. h : IsLastBlockOf(b, id)
  BY DEF last_justified_block
<1> QED BY <1>1 DEF last_justified_block

\* An epoch that is over stays over.
LEMMA StaysOver ==
    ASSUME NEW id, NEW g \in Heights, NEW h \in Heights, g <= h,
           last_justified_block(id, g) # 0
    PROVE  last_justified_block(id, h) # 0
PROOF
<1>1. PICK b \in 1 .. g : IsLastBlockOf(b, id)
  BY LastJustifiedBlockReturns
<1>2. g \in Nat /\ h \in Nat
  BY SetIdFacts
<1>3. b \in 1 .. h
  BY <1>2
<1>4. last_justified_block(id, h) \in 1 .. h
  BY <1>1, <1>3 DEF last_justified_block
<1> QED BY <1>2, <1>4

\* The set that signs the blocks after b signs all of them up to its epoch
\* end block, which lies beyond b.
LEMMA SignedBySameSet ==
    ASSUME NEW b \in Heights, NEW e \in Heights \ {0}, IsLastBlockOf(e, SetId[b])
    PROVE  /\ b < e
           /\ \A c \in Heights : b < c /\ c <= e => SignerOf(c) = SetId[b]
PROOF
<1>1. /\ SetId[e] = SetId[b] + 1 /\ SetId[e - 1] = SetId[b]
      /\ e - 1 \in Heights /\ SetId[b] \in Nat
      /\ b \in Nat /\ e \in Nat
  BY SetIdFacts DEF IsLastBlockOf, EpochEnd, SignerOf
<1>2. b < e
  <2> SUFFICES ASSUME e <= b PROVE FALSE
    BY <1>1
  <2>1. SetId[e] <= SetId[b]
    BY SetIdFacts
  <2> QED BY <1>1, <2>1
<1>3. ASSUME NEW c \in Heights, b < c, c <= e PROVE SignerOf(c) = SetId[b]
  <2>1. c \in Nat /\ c # 0
    BY <1>1, <1>3, SetIdFacts
  <2>2. c - 1 \in Heights /\ SetId[c - 1] \in Nat
    BY <2>1, SetIdFacts
  <2>3. b <= c - 1 /\ c - 1 <= e - 1
    BY <1>1, <1>3, <2>1
  <2>4. SetId[b] <= SetId[c - 1] /\ SetId[c - 1] <= SetId[e - 1]
    BY <1>1, <2>2, <2>3, SetIdFacts
  <2> QED BY <1>1, <2>2, <2>4 DEF SignerOf
<1> QED BY <1>2, <1>3

\* While the epoch after b is not over, its set signs every finalized block
\* after b.
LEMMA SignedWhileCurrent ==
    ASSUME NEW b \in Heights, NEW h \in Heights,
           last_justified_block(SetId[b], h) = 0
    PROVE  \A c \in Heights : b < c /\ c <= h => SignerOf(c) = SetId[b]
PROOF
<1> SUFFICES ASSUME NEW c \in Heights, b < c, c <= h PROVE SignerOf(c) = SetId[b]
  OBVIOUS
<1>1. b \in Nat /\ c \in Nat /\ h \in Nat /\ c # 0 /\ SetId[b] \in Nat
      /\ SetId[h] \in Nat
  BY SetIdFacts
<1>2. ~ (SetId[h] > SetId[b])
  <2> SUFFICES ASSUME SetId[h] > SetId[b] PROVE FALSE
    OBVIOUS
  <2>1. \E x \in 1 .. h : IsLastBlockOf(x, SetId[b])
    BY <1>1, EpochHasEnd
  <2>2. last_justified_block(SetId[b], h) \in 1 .. h
    BY <2>1 DEF last_justified_block
  <2> QED BY <2>2, <1>1
<1>3. c - 1 \in Heights /\ SetId[c - 1] \in Nat /\ b <= c - 1 /\ c - 1 <= h
  BY <1>1, SetIdFacts
<1>4. SetId[b] <= SetId[c - 1] /\ SetId[c - 1] <= SetId[h]
  BY <1>3, SetIdFacts
<1> QED BY <1>1, <1>2, <1>3, <1>4 DEF SignerOf

-----------------------------------------------------------------------------
(* What was read stays true.                                               *)

\* A step of anyone, as far as the operator's values depend on it: the chain
\* and the stored justifications grow, and no hash is forgotten.
Grows ==
    /\ head' >= head
    /\ initialized => initialized'
    /\ redis \subseteq redis'
    /\ HashesKept

\* What WasLatest says of a block stays true.
LEMMA WasLatestKept ==
    ASSUME IInv, IInv', Grows, NEW b, WasLatest(b)
    PROVE  WasLatest(b)'
PROOF
<1>1. b \in Heights \ {0} /\ SignerOf(b) \in AuthoritySetIds /\ SetId[b] \in AuthoritySetIds
  BY SetIdFacts DEF WasLatest
<1>2. b \in Nat /\ head \in Nat /\ head' \in Nat
  BY <1>1, SetIdFacts DEF IInv, TypeOK
<1> QED BY <1>1, <1>2 DEF Grows, HashesKept, WasLatest, HashKnown

\* A justification that is there stays there.
LEMMA JustificationKept ==
    ASSUME IInv, IInv', Grows, NEW b \in Nat, HasJustification(b)
    PROVE  HasJustification(b)'
PROOF
<1>1. head \in Nat /\ head' \in Nat
  BY SetIdFacts DEF IInv, TypeOK
<1> QED BY <1>1 DEF Grows, HasJustification

\* The operator's local values keep their meaning.
LEMMA LocalKept ==
    ASSUME IInv, IInv', Grows, NEW o, LocalOK(o)
    PROVE  LocalOK(o)'
PROOF
<1>1. /\ head \in Heights /\ head' \in Heights /\ head \in Nat /\ head' \in Nat
      /\ head <= head'
  BY SetIdFacts DEF IInv, TypeOK, Grows
<1>2. /\ o \in LocalType
      /\ o.block \in Heights /\ o.block \in Nat /\ o.id \in AuthoritySetIds
      /\ o.availHead \in Nat /\ o.target \in Nat
  <2>1. o \in LocalType
    BY DEF LocalOK
  <2> QED BY <2>1, LocalTyped
<1>3. \A i \in AuthoritySetIds : HashKnown(i) => HashKnown(i)'
  BY DEF Grows, HashesKept, HashKnown
<1>4. ASSUME WasLatest(o.block)
      PROVE  /\ WasLatest(o.block)'
             /\ SignerOf(o.block) \in AuthoritySetIds
             /\ SetId[o.block] \in AuthoritySetIds
             /\ SignerOf(o.block) + 1 \in AuthoritySetIds
  <2>1. o.block \in Heights \ {0}
    BY <1>4 DEF WasLatest
  <2>2. o.block - 1 \in Heights /\ SignerOf(o.block) = SetId[o.block - 1]
    BY <2>1, SetIdFacts
  <2> QED BY <1>4, <2>1, <2>2, WasLatestKept, SetIdFacts
<1>5. RotateLocal(o)'
  <2>1. o.pc \in RotatePoints => o.functionId \in RotateFunctions
    BY DEF LocalOK, RotateLocal
  <2>2. o.pc \in RotatePoints \ {"rotate_block"} => WasLatest(o.block)
    BY DEF LocalOK, RotateLocal
  <2>3. o.pc \in {"rotate_head", "rotate_submit"} =>
            (o.nextExists \/ HashKnown(SignerOf(o.block)))'
    <3>1. o.pc \in {"rotate_head", "rotate_submit"} =>
              WasLatest(o.block) /\ (o.nextExists \/ HashKnown(SignerOf(o.block)))
      BY DEF LocalOK, RotateLocal, RotatePoints
    <3> QED BY <1>3, <1>4, <3>1
  <2>4. o.pc = "rotate_submit" =>
            /\ ~ o.nextExists
            /\ (last_justified_block(SignerOf(o.block), head) # 0)'
    <3>1. o.pc = "rotate_submit" =>
              ~ o.nextExists /\ last_justified_block(SignerOf(o.block), head) # 0
      BY DEF LocalOK, RotateLocal
    <3> QED BY <1>1, <3>1, StaysOver
  <2> QED BY <1>4, <2>1, <2>2, <2>3, <2>4 DEF RotateLocal
<1>6. RangeLocal(o)'
  <2>1. /\ o.pc \in RangePoints => o.functionId \in HeaderRangeFunctions
        /\ o.pc \in BlockPoints => WasLatest(o.block)
        /\ o.pc \in TreePoints => o.treeSize \in TreeSizes
        /\ o.pc = "range_search" =>
               o.block < o.target /\ o.target <= MaxBlock + 1 /\ SignerOf(o.target) = o.id
    BY DEF LocalOK, RangeLocal
  <2>2. o.pc = "range_epoch" => (o.nextExists => HashKnown(SignerOf(o.block) + 1)')
    <3>1. o.pc = "range_epoch" =>
              WasLatest(o.block) /\ (o.nextExists => HashKnown(SignerOf(o.block) + 1))
      BY DEF LocalOK, RangeLocal, BlockPoints, RangePoints
    <3> QED BY <1>3, <1>4, <3>1
  <2>3. o.pc \in IdPoints => o.id = SetId[o.block] /\ HashKnown(o.id)'
    BY <1>2, <1>3 DEF LocalOK, RangeLocal
  <2>4. o.pc = "range_submit" =>
            /\ o.block < o.target
            /\ o.target <= head'
            /\ o.target <= o.block + o.treeSize
            /\ SignerOf(o.target) = o.id
            /\ IsDummyOperator \/ HasJustification(o.target)'
    <3>1. o.pc = "range_submit" =>
              /\ o.block < o.target
              /\ o.target <= head
              /\ o.target <= o.block + o.treeSize
              /\ SignerOf(o.target) = o.id
              /\ IsDummyOperator \/ HasJustification(o.target)
      BY DEF LocalOK, RangeLocal
    <3> QED BY <1>1, <1>2, <3>1, JustificationKept
  <2> QED BY <1>4, <2>1, <2>2, <2>3, <2>4 DEF RangeLocal
<1>7. (o.availHead <= head)' /\ (o.pc \notin {"sleep", "panicked"} => initialized)'
  BY <1>1, <1>2 DEF LocalOK, Grows
<1> QED BY <1>2, <1>5, <1>6, <1>7 DEF LocalOK

\* Requests that can be proved can still be proved after a step.
LEMMA RequestsKept ==
    ASSUME IInv, IInv', Grows,
           \A r \in headerRangeRequests' : RangeRequestOK(r),
           \A r \in rotateRequests' : RotateAccepts(r.input)
    PROVE  RequestsOK'
PROOF
<1>1. /\ head \in Heights /\ head' \in Heights /\ head \in Nat /\ head' \in Nat
      /\ head <= head'
  BY SetIdFacts DEF IInv, TypeOK, Grows
<1>2. ASSUME NEW r \in headerRangeRequests' PROVE RangeRequestOK(r)'
  <2>1. RangeRequestOK(r) /\ r.input.targetBlock \in Nat
    BY SetIdFacts DEF IInv, TypeOK, HeaderRangeRequestType, HeaderRangeInputs
  <2>2. HasJustification(r.input.targetBlock) => HasJustification(r.input.targetBlock)'
    BY <2>1, JustificationKept
  <2> QED BY <1>1, <2>1, <2>2 DEF RangeRequestOK
<1>3. ASSUME NEW r \in rotateRequests' PROVE RotateAccepts(r.input)'
  <2>1. RotateAccepts(r.input)
    OBVIOUS
  <2> QED BY <1>1, <2>1, StaysOver DEF RotateAccepts
<1> QED BY <1>2, <1>3 DEF RequestsOK

-----------------------------------------------------------------------------
(* The steps of the operator establish what LocalOK says of their point.   *)

\* A new round of the loop starts without local values.
LEMMA AsleepOK ==
    ASSUME IInv, NEW p \in {"sleep", "panicked", "range_function"},
           p = "range_function" => initialized
    PROVE  LocalOK(Asleep(p))
PROOF
<1>1. 0 \in Heights /\ 0 \in AuthoritySetIds /\ 0 \in 0 .. 2 * MaxBlock
  BY ChainAssumption, SetIdFacts DEF Heights, AuthoritySetIds
<1>2. p \in Points
  BY DEF Points
<1>3. Asleep(p) \in LocalType
  BY <1>1, <1>2 DEF Asleep, LocalType
<1>4. Asleep(p).pc = p /\ Asleep(p).availHead = 0
  BY DEF Asleep
<1>5. head \in Nat
  BY SetIdFacts DEF IInv, TypeOK
<1>6. RotateLocal(Asleep(p))
  BY <1>4 DEF RotateLocal, RotatePoints
<1>7. RangeLocal(Asleep(p))
  BY <1>4 DEF RangeLocal, RangePoints, BlockPoints, TreePoints, IdPoints
<1> QED BY <1>3, <1>4, <1>5, <1>6, <1>7 DEF LocalOK

\* The contract's latest block is what WasLatest says.
LEMMA LatestIsLatest == IInv /\ initialized => WasLatest(latestBlock)
PROOF
<1> SUFFICES ASSUME IInv, initialized PROVE WasLatest(latestBlock)
  OBVIOUS
<1>1. /\ latestBlock \in Heights /\ latestBlock > 0
      /\ latestAuthoritySetId \in {SignerOf(latestBlock), SetId[latestBlock]}
      /\ authoritySetIdToHash[latestAuthoritySetId] # Zero
      /\ blockHeightToHeaderHash[latestBlock] # Zero
  BY DEF IInv, TypeOK, AuthorityWindow
<1>2. latestBlock <= head
  BY <1>1 DEF IInv, HeadersCanonical
<1> QED BY <1>1, <1>2 DEF WasLatest, HashKnown

\* If the hash of the set after the one that signed the block is missing,
\* the hash of the one that signed it is there.
LEMMA SignerKnown ==
    ASSUME NEW b, WasLatest(b), ~ HashKnown(SignerOf(b) + 1)
    PROVE  HashKnown(SignerOf(b))
PROOF
<1>1. SetId[b] \in {SignerOf(b), SignerOf(b) + 1}
  BY SetIdFacts DEF WasLatest
<1> QED BY <1>1 DEF WasLatest

\* The steps of find_and_request_rotate up to the submission.
LEMMA RotateStepLocal ==
    ASSUME OInv, NEW o, o = op',
           \/ read_rotate_function_id \/ read_rotate_block \/ read_rotate_next
           \/ find_and_request_rotate
    PROVE  LocalOK(o)
PROOF
<1>1. /\ IInv /\ LocalOK(op) /\ op \in LocalType /\ op.availHead <= head
      /\ head \in Heights \ {0} /\ head \in Nat
  BY SetIdFacts DEF OInv, LocalOK, IInv, TypeOK
<1> USE DEF RotatePoints, RangePoints, BlockPoints, TreePoints, IdPoints
<1>2. CASE read_rotate_function_id
  <2>1. initialized /\ o = [Asleep("rotate_block") EXCEPT !.functionId = rotateFunctionId]
    BY <1>2 DEF read_rotate_function_id
  <2>2. rotateFunctionId \in RotateFunctions
    BY <1>1, <2>1 DEF IInv, TypeOK, ConfigurationOK
  <2>3. 0 \in Heights /\ 0 \in AuthoritySetIds /\ 0 \in 0 .. 2 * MaxBlock
    BY ChainAssumption, SetIdFacts DEF Heights, AuthoritySetIds
  <2>4. /\ o \in LocalType /\ o.pc = "rotate_block" /\ o.availHead = 0
        /\ o.functionId = rotateFunctionId
    BY <2>1, <2>2, <2>3 DEF Asleep, LocalType, Points
  <2>5. RotateLocal(o) /\ RangeLocal(o)
    BY <2>2, <2>4 DEF RotateLocal, RangeLocal
  <2> QED BY <1>1, <2>1, <2>4, <2>5 DEF LocalOK
<1>3. CASE read_rotate_block
  <2>1. op.pc = "rotate_block" /\ o = [op EXCEPT !.pc = "rotate_next", !.block = latestBlock]
    BY <1>3 DEF read_rotate_block, At
  <2>2. initialized /\ op.functionId \in RotateFunctions
    BY <1>1, <2>1 DEF LocalOK, RotateLocal
  <2>3. latestBlock \in Heights
    BY <1>1 DEF IInv, TypeOK
  <2>4. /\ o \in LocalType /\ o.pc = "rotate_next" /\ o.availHead = op.availHead
        /\ o.functionId = op.functionId /\ o.block = latestBlock
    BY <1>1, <2>1, <2>3 DEF LocalType, Points
  <2>5. RotateLocal(o) /\ RangeLocal(o)
    BY <1>1, <2>2, <2>4, LatestIsLatest DEF RotateLocal, RangeLocal
  <2> QED BY <1>1, <2>2, <2>4, <2>5 DEF LocalOK
<1>4. CASE read_rotate_next
  <2>1. op.pc = "rotate_next" /\ o = [op EXCEPT !.pc = "rotate_head", !.nextExists = NextHashExists]
    BY <1>4 DEF read_rotate_next, At
  <2>2. initialized /\ op.functionId \in RotateFunctions /\ WasLatest(op.block)
    BY <1>1, <2>1 DEF LocalOK, RotateLocal
  <2>3. NextHashExists \in BOOLEAN /\ (NextHashExists <=> HashKnown(SignerOf(op.block) + 1))
    BY DEF NextHashExists, HashKnown, current_authority_set_id
  <2>4. /\ o \in LocalType /\ o.pc = "rotate_head" /\ o.availHead = op.availHead
        /\ o.functionId = op.functionId /\ o.block = op.block
        /\ o.nextExists = NextHashExists
    BY <1>1, <2>1, <2>3 DEF LocalType, Points
  <2>5. o.nextExists \/ HashKnown(SignerOf(o.block))
    BY <2>2, <2>3, <2>4, SignerKnown
  <2>6. RotateLocal(o) /\ RangeLocal(o)
    BY <2>2, <2>4, <2>5 DEF RotateLocal, RangeLocal
  <2> QED BY <1>1, <2>2, <2>4, <2>6 DEF LocalOK
<1>5. CASE find_and_request_rotate
  <2>1. op.pc = "rotate_head"
    BY <1>5 DEF find_and_request_rotate, At
  <2>2. /\ initialized /\ op.functionId \in RotateFunctions /\ WasLatest(op.block)
        /\ op.nextExists \/ HashKnown(SignerOf(op.block))
    BY <1>1, <2>1 DEF LocalOK, RotateLocal
  <2>3. CASE EpochIsOver /\ ~ op.nextExists
    <3>1. o = [op EXCEPT !.pc = "rotate_submit"]
      BY <1>5, <2>3 DEF find_and_request_rotate
    <3>2. /\ o \in LocalType /\ o.pc = "rotate_submit" /\ o.availHead = op.availHead
          /\ o.functionId = op.functionId /\ o.block = op.block
          /\ o.nextExists = op.nextExists
      BY <1>1, <3>1 DEF LocalType, Points
    <3>3. last_justified_block(SignerOf(op.block), head) # 0
      <4>1. /\ SignerOf(op.block) \in Nat /\ SetId[head] \in Nat
            /\ SignerOf(head) \in Nat /\ SignerOf(head) <= SetId[head]
        <5>1. op.block \in Heights \ {0}
          BY <2>2 DEF WasLatest
        <5>2. /\ SignerOf(op.block) \in AuthoritySetIds
              /\ SignerOf(head) \in AuthoritySetIds /\ SetId[head] \in AuthoritySetIds
              /\ SetId[head] \in {SignerOf(head), SignerOf(head) + 1}
              /\ AuthoritySetIds \subseteq Nat
          BY <1>1, <5>1, SetIdFacts
        <5>3. SignerOf(op.block) \in Nat /\ SignerOf(head) \in Nat /\ SetId[head] \in Nat
          BY <5>2, Zenon
        <5> QED BY <5>2, <5>3
      <4>2. SetId[head] > SignerOf(op.block)
        BY <2>3, <4>1 DEF EpochIsOver, current_authority_set_id
      <4>3. \E b \in 1 .. head : IsLastBlockOf(b, SignerOf(op.block))
        BY <1>1, <4>1, <4>2, EpochHasEnd
      <4>4. last_justified_block(SignerOf(op.block), head) \in 1 .. head
        BY <4>3 DEF last_justified_block
      <4> QED BY <1>1, <4>4
    <3>4. RotateLocal(o) /\ RangeLocal(o)
      BY <2>2, <2>3, <3>2, <3>3 DEF RotateLocal, RangeLocal
    <3> QED BY <1>1, <2>2, <3>2, <3>4 DEF LocalOK
  <2>4. CASE ~ (EpochIsOver /\ ~ op.nextExists)
    <3>1. o = Asleep("range_function")
      BY <1>5, <2>4 DEF find_and_request_rotate
    <3> QED BY <1>1, <2>2, <3>1, AsleepOK
  <2> QED BY <2>3, <2>4
<1> QED BY <1>2, <1>3, <1>4, <1>5

\* The largest multiple of the interval that is not beyond m.
LEMMA MultipleBelow ==
    ASSUME NEW m \in Nat, NEW i \in Nat \ {0}
    PROVE  m - (m % i) \in Nat /\ m - (m % i) <= m
PROOF
<1>1. m % i \in 0 .. i - 1 /\ m = i * (m \div i) + (m % i) /\ m \div i \in Nat
  OBVIOUS
<1>2. i * (m \div i) \in Nat
  BY <1>1
<1> QED BY <1>1, <1>2

\* The steps that read the contract and the chain's head.
LEMMA RangeReadLocal ==
    ASSUME OInv, NEW o, o = op',
           \/ read_range_function_id \/ read_range_block \/ read_range_tree
           \/ read_range_head \/ read_range_next
    PROVE  LocalOK(o)
PROOF
<1>1. /\ IInv /\ LocalOK(op) /\ op \in LocalType /\ op.availHead <= head
      /\ head \in Heights \ {0} /\ head \in Nat
  BY SetIdFacts DEF OInv, LocalOK, IInv, TypeOK
<1>2. initialized
  BY <1>1 DEF LocalOK, read_range_function_id, read_range_block, read_range_tree,
              read_range_head, read_range_next, At
<1>3. /\ headerRangeFunctionId \in HeaderRangeFunctions
      /\ headerRangeCommitmentTreeSize \in TreeSizes
      /\ latestBlock \in Heights
      /\ WasLatest(latestBlock)
  BY <1>1, <1>2, LatestIsLatest DEF IInv, TypeOK, ConfigurationOK
<1> USE DEF RotatePoints, RangePoints, BlockPoints, TreePoints, IdPoints
<1>4. CASE read_range_function_id
  <2>1. o = [op EXCEPT !.pc = "range_block", !.functionId = headerRangeFunctionId]
    BY <1>4 DEF read_range_function_id
  <2>2. /\ o \in LocalType /\ o.pc = "range_block" /\ o.availHead = op.availHead
        /\ o.functionId = headerRangeFunctionId
    BY <1>1, <1>3, <2>1 DEF LocalType, Points
  <2>3. RotateLocal(o) /\ RangeLocal(o)
    BY <1>3, <2>2 DEF RotateLocal, RangeLocal
  <2> QED BY <1>1, <1>2, <2>2, <2>3 DEF LocalOK
<1>5. CASE read_range_block
  <2>1. op.pc = "range_block" /\ o = [op EXCEPT !.pc = "range_tree", !.block = latestBlock]
    BY <1>5 DEF read_range_block, At
  <2>2. op.functionId \in HeaderRangeFunctions
    BY <1>1, <2>1 DEF LocalOK, RangeLocal
  <2>3. /\ o \in LocalType /\ o.pc = "range_tree" /\ o.availHead = op.availHead
        /\ o.functionId = op.functionId /\ o.block = latestBlock
    BY <1>1, <1>3, <2>1 DEF LocalType, Points
  <2>4. RotateLocal(o) /\ RangeLocal(o)
    BY <1>3, <2>2, <2>3 DEF RotateLocal, RangeLocal
  <2> QED BY <1>1, <1>2, <2>3, <2>4 DEF LocalOK
<1>6. CASE read_range_tree
  <2>1. /\ op.pc = "range_tree"
        /\ o = [op EXCEPT !.pc = "range_head", !.treeSize = headerRangeCommitmentTreeSize]
    BY <1>6 DEF read_range_tree, At
  <2>2. op.functionId \in HeaderRangeFunctions /\ WasLatest(op.block)
    BY <1>1, <2>1 DEF LocalOK, RangeLocal
  <2>3. /\ o \in LocalType /\ o.pc = "range_head" /\ o.availHead = op.availHead
        /\ o.functionId = op.functionId /\ o.block = op.block
        /\ o.treeSize = headerRangeCommitmentTreeSize
    BY <1>1, <1>3, <2>1 DEF LocalType, Points
  <2>4. RotateLocal(o) /\ RangeLocal(o)
    BY <1>3, <2>2, <2>3 DEF RotateLocal, RangeLocal
  <2> QED BY <1>1, <1>2, <2>3, <2>4 DEF LocalOK
<1>7. CASE read_range_head
  <2>1. op.pc = "range_head" /\ o = [op EXCEPT !.pc = "range_next", !.availHead = head]
    BY <1>7 DEF read_range_head, At
  <2>2. op.functionId \in HeaderRangeFunctions /\ WasLatest(op.block) /\ op.treeSize \in TreeSizes
    BY <1>1, <2>1 DEF LocalOK, RangeLocal
  <2>3. /\ o \in LocalType /\ o.pc = "range_next" /\ o.availHead = head
        /\ o.functionId = op.functionId /\ o.block = op.block
        /\ o.treeSize = op.treeSize
    BY <1>1, <2>1 DEF LocalType, Points
  <2>4. RotateLocal(o) /\ RangeLocal(o)
    BY <2>2, <2>3 DEF RotateLocal, RangeLocal
  <2> QED BY <1>1, <1>2, <2>3, <2>4 DEF LocalOK
<1>8. CASE read_range_next
  <2>1. op.pc = "range_next" /\ o = [op EXCEPT !.pc = "range_epoch", !.nextExists = NextHashExists]
    BY <1>8 DEF read_range_next, At
  <2>2. op.functionId \in HeaderRangeFunctions /\ WasLatest(op.block) /\ op.treeSize \in TreeSizes
    BY <1>1, <2>1 DEF LocalOK, RangeLocal
  <2>3. NextHashExists \in BOOLEAN /\ (NextHashExists <=> HashKnown(SignerOf(op.block) + 1))
    BY DEF NextHashExists, HashKnown, current_authority_set_id
  <2>4. /\ o \in LocalType /\ o.pc = "range_epoch" /\ o.availHead = op.availHead
        /\ o.functionId = op.functionId /\ o.block = op.block
        /\ o.treeSize = op.treeSize /\ o.nextExists = NextHashExists
    BY <1>1, <2>1, <2>3 DEF LocalType, Points
  <2>5. RotateLocal(o) /\ RangeLocal(o)
    BY <2>2, <2>3, <2>4 DEF RotateLocal, RangeLocal
  <2> QED BY <1>1, <1>2, <2>4, <2>5 DEF LocalOK
<1> QED BY <1>4, <1>5, <1>6, <1>7, <1>8

\* The authority set chosen in find_and_request_header_range is the one that
\* signs the blocks after the latest block, and its hash is known.
LEMMA ChosenSet ==
    ASSUME NEW b, WasLatest(b), head \in Heights
    PROVE  LET end == b = last_justified_block(SignerOf(b), head)
               id == IF end THEN SignerOf(b) + 1 ELSE SignerOf(b)
           IN (end => HashKnown(SignerOf(b) + 1)) => id = SetId[b] /\ HashKnown(id)
PROOF
<1>1. /\ b \in Heights \ {0} /\ b \in Nat /\ b <= head /\ head \in Nat
      /\ SignerOf(b) \in Nat /\ SignerOf(b) \in AuthoritySetIds
      /\ SetId[b] \in {SignerOf(b), SignerOf(b) + 1}
      /\ SignerOf(b) = SetId[b - 1]
      /\ HashKnown(SignerOf(b)) \/ HashKnown(SetId[b])
  <2>1. b \in Heights \ {0} /\ b <= head /\ (HashKnown(SignerOf(b)) \/ HashKnown(SetId[b]))
    BY DEF WasLatest
  <2> QED BY <2>1, SetIdFacts
<1>2. CASE b = last_justified_block(SignerOf(b), head)
  <2>1. IsLastBlockOf(b, SignerOf(b))
    BY <1>1, <1>2, LastJustifiedBlockReturns
  <2>2. SetId[b] = SignerOf(b) + 1
    BY <1>1, <2>1 DEF IsLastBlockOf, EpochEnd
  <2> QED BY <1>2, <2>2
<1>3. CASE b # last_justified_block(SignerOf(b), head)
  <2>1. ~ EpochEnd(b)
    <3> SUFFICES ASSUME EpochEnd(b) PROVE FALSE
      OBVIOUS
    <3>1. b \in 1 .. head /\ IsLastBlockOf(b, SignerOf(b))
      BY <1>1 DEF IsLastBlockOf
    <3> QED BY <1>1, <1>3, <3>1, LastJustifiedBlockIs
  <2>2. SetId[b] = SignerOf(b)
    BY <1>1, <2>1 DEF EpochEnd
  <2> QED BY <1>1, <1>3, <2>2
<1> QED BY <1>2, <1>3

\* The choice of the authority set.
LEMMA FindRangeLocal ==
    ASSUME OInv, NEW o, o = op', find_and_request_header_range
    PROVE  LocalOK(o)
PROOF
<1>1. /\ IInv /\ LocalOK(op) /\ op \in LocalType /\ op.availHead <= head
      /\ head \in Heights
      /\ op.pc = "range_epoch"
  BY DEF OInv, LocalOK, IInv, TypeOK, find_and_request_header_range, At
<1> USE DEF RotatePoints, RangePoints, BlockPoints, TreePoints, IdPoints
<1>2. /\ initialized /\ op.functionId \in HeaderRangeFunctions /\ WasLatest(op.block)
      /\ op.treeSize \in TreeSizes
      /\ op.nextExists => HashKnown(SignerOf(op.block) + 1)
  BY <1>1 DEF LocalOK, RangeLocal
<1>3. CASE AtEpochEnd /\ ~ op.nextExists
  <2>1. o = Asleep("sleep")
    BY <1>3 DEF find_and_request_header_range
  <2> QED BY <1>1, <2>1, AsleepOK
<1>4. CASE ~ (AtEpochEnd /\ ~ op.nextExists)
  <2> DEFINE id == IF AtEpochEnd THEN SignerOf(op.block) + 1 ELSE SignerOf(op.block)
  <2>1. o = [op EXCEPT !.pc = "range_find", !.id = id]
    BY <1>4 DEF find_and_request_header_range, current_authority_set_id
  <2>2. id = SetId[op.block] /\ HashKnown(id)
    <3>1. AtEpochEnd <=> op.block = last_justified_block(SignerOf(op.block), head)
      BY DEF AtEpochEnd, current_authority_set_id
    <3> QED BY <1>1, <1>2, <1>4, <3>1, ChosenSet
  <2> HIDE DEF id
  <2>3. id \in AuthoritySetIds
    BY <1>2, <2>2, SetIdFacts DEF WasLatest
  <2>4. /\ o \in LocalType /\ o.pc = "range_find" /\ o.availHead = op.availHead
        /\ o.functionId = op.functionId /\ o.block = op.block
        /\ o.treeSize = op.treeSize /\ o.id = id
    BY <1>1, <2>1, <2>3 DEF LocalType, Points
  <2>5. RotateLocal(o) /\ RangeLocal(o)
    BY <1>2, <2>2, <2>4 DEF RotateLocal, RangeLocal
  <2> QED BY <1>1, <1>2, <2>4, <2>5 DEF LocalOK
<1> QED BY <1>3, <1>4

\* The block find_block_to_step_to proposes lies after the latest block, is
\* within the circuit's reach, and is signed by the chosen set: it does not
\* lie beyond the epoch end block.
LEMMA ProposedBlock ==
    ASSUME NEW b \in Heights, NEW h \in Heights, NEW reach \in Nat, NEW m \in Heights,
           b < m, m <= h, m <= reach,
           LET e == last_justified_block(SetId[b], h) IN ~ (e # 0 /\ e <= reach)
    PROVE  SignerOf(m) = SetId[b]
PROOF
<1>1. b \in Nat /\ h \in Nat /\ m \in Nat
  BY SetIdFacts
<1>2. CASE last_justified_block(SetId[b], h) = 0
  BY <1>2, SignedWhileCurrent
<1>3. CASE last_justified_block(SetId[b], h) # 0
  <2> DEFINE e == last_justified_block(SetId[b], h)
  <2>1. e \in 1 .. h /\ IsLastBlockOf(e, SetId[b])
    BY <1>3, LastJustifiedBlockReturns
  <2> HIDE DEF e
  <2>2. e \in Heights \ {0}
    BY <1>1, <2>1, ChainAssumption DEF Heights
  <2>3. e > reach
    BY <1>1, <2>1 DEF e
  <2>4. m <= e
    BY <1>1, <2>1, <2>3
  <2> QED BY <2>1, <2>2, <2>4, SignedBySameSet
<1> QED BY <1>2, <1>3

\* The choice of the block to step to.
LEMMA FindBlockLocal ==
    ASSUME OInv, NEW o, o = op', find_block_to_step_to
    PROVE  LocalOK(o)
PROOF
<1>1. /\ IInv /\ LocalOK(op) /\ op \in LocalType /\ op.availHead <= head
      /\ head \in Heights
      /\ op.pc = "range_find"
  BY DEF OInv, LocalOK, IInv, TypeOK, find_block_to_step_to, At
<1> USE DEF RotatePoints, RangePoints, BlockPoints, TreePoints, IdPoints
<1>2. /\ initialized /\ op.functionId \in HeaderRangeFunctions /\ WasLatest(op.block)
      /\ op.treeSize \in TreeSizes
      /\ op.id = SetId[op.block] /\ HashKnown(op.id)
  BY <1>1 DEF LocalOK, RangeLocal
<1>3. /\ op.block \in Heights /\ op.block \in Nat /\ op.treeSize \in Nat
      /\ op.availHead \in Nat
  BY <1>1, LocalTyped
<1>4. head \in Nat /\ head <= MaxBlock /\ MaxBlock \in Nat
  BY <1>1, ChainAssumption DEF Heights
<1> DEFINE e == last_justified_block(op.id, head)
<1>5. ASSUME NEW p \in {"range_search", "range_submit"}, NEW t \in Heights,
             o = [op EXCEPT !.pc = p, !.target = t],
             op.block < t, t <= head, t <= op.block + op.treeSize,
             SignerOf(t) = op.id,
             p = "range_submit" => IsDummyOperator \/ HasJustification(t)
      PROVE  LocalOK(o)
  <2>1. t \in 0 .. 2 * MaxBlock /\ t <= MaxBlock + 1
    BY <1>4 DEF Heights
  <2>2. /\ o \in LocalType /\ o.pc = p /\ o.availHead = op.availHead
        /\ o.functionId = op.functionId /\ o.block = op.block
        /\ o.treeSize = op.treeSize /\ o.id = op.id /\ o.target = t
    BY <1>1, <1>5, <2>1 DEF LocalType, Points
  <2>3. RotateLocal(o)
    BY <1>5, <2>2 DEF RotateLocal
  <2>4. RangeLocal(o)
    BY <1>2, <1>5, <2>1, <2>2 DEF RangeLocal
  <2> QED BY <1>1, <1>2, <2>2, <2>3, <2>4 DEF LocalOK
<1>6. CASE e # 0 /\ e <= Reach
  <2>1. o = [op EXCEPT !.pc = "range_submit", !.target = e]
    BY <1>6 DEF find_block_to_step_to
  <2>2. e \in 1 .. head /\ IsLastBlockOf(e, op.id)
    BY <1>1, <1>6, LastJustifiedBlockReturns
  <2>3. e <= op.block + op.treeSize
    BY <1>6 DEF Reach
  <2> HIDE DEF e
  <2>4. e \in Heights \ {0} /\ e <= head /\ e \in Nat
    BY <1>4, <2>2 DEF Heights
  <2>5. op.block < e /\ SignerOf(e) = op.id
    BY <1>2, <1>3, <2>2, <2>4, SignedBySameSet
  <2>6. HasJustification(e)
    BY <2>2, <2>4 DEF HasJustification, IsLastBlockOf
  <2> QED BY <1>5, <2>1, <2>3, <2>4, <2>5, <2>6
<1>7. CASE ~ (e # 0 /\ e <= Reach)
  <2>1. CASE ideal_block_to_step_to <= op.block
    <3>1. o = Asleep("sleep")
      BY <1>7, <2>1 DEF find_block_to_step_to
    <3> QED BY <1>1, <3>1, AsleepOK
  <2>2. CASE ~ (ideal_block_to_step_to <= op.block)
    <3> DEFINE t == ideal_block_to_step_to
               p == IF IsDummyOperator THEN "range_submit" ELSE "range_search"
    <3>1. o = [op EXCEPT !.pc = p, !.target = t]
      BY <1>7, <2>2 DEF find_block_to_step_to
    <3>2. /\ max_valid_block_to_step_to \in Nat
          /\ max_valid_block_to_step_to <= op.block + op.treeSize
          /\ max_valid_block_to_step_to <= op.availHead
      BY <1>3 DEF max_valid_block_to_step_to, Reach
    <3>3. t \in Nat /\ t <= max_valid_block_to_step_to
      BY <3>2, OperatorAssumption, MultipleBelow DEF ideal_block_to_step_to
    <3>4. op.block < t
      BY <1>3, <2>2, <3>3
    <3> HIDE DEF t
    <3>5. t <= head /\ t <= op.block + op.treeSize /\ op.block + op.treeSize \in Nat
      BY <1>1, <1>3, <1>4, <3>2, <3>3
    <3>6. t \in Heights
      BY <1>4, <3>3, <3>5 DEF Heights
    <3>7. ~ (e # 0 /\ e <= op.block + op.treeSize)
      BY <1>7 DEF Reach
    <3>8. SignerOf(t) = op.id
      BY <1>1, <1>2, <1>3, <3>4, <3>5, <3>6, <3>7, ProposedBlock
    <3>9. p \in {"range_search", "range_submit"} /\ (p = "range_submit" => IsDummyOperator)
      OBVIOUS
    <3> HIDE DEF p
    <3> QED BY <1>5, <3>1, <3>4, <3>5, <3>6, <3>8, <3>9
  <2> QED BY <2>1, <2>2
<1> QED BY <1>6, <1>7

\* The search for a justification stays in the epoch: it passes over no
\* epoch end block, since that has a justification once it is finalized.
LEMMA SearchLocal ==
    ASSUME OInv, NEW o, o = op', search_justification
    PROVE  LocalOK(o)
PROOF
<1>1. /\ IInv /\ LocalOK(op) /\ op \in LocalType /\ op.availHead <= head
      /\ head \in Heights
      /\ op.pc = "range_search"
  BY DEF OInv, LocalOK, IInv, TypeOK, search_justification, At
<1> USE DEF RotatePoints, RangePoints, BlockPoints, TreePoints, IdPoints
<1>2. /\ initialized /\ op.functionId \in HeaderRangeFunctions /\ WasLatest(op.block)
      /\ op.treeSize \in TreeSizes
      /\ op.id = SetId[op.block] /\ HashKnown(op.id)
      /\ op.block < op.target /\ op.target <= MaxBlock + 1 /\ SignerOf(op.target) = op.id
  BY <1>1 DEF LocalOK, RangeLocal
<1>3. op.block \in Nat /\ op.treeSize \in Nat /\ op.target \in Nat
  BY <1>1, LocalTyped
<1>4. head \in Nat /\ head <= MaxBlock /\ MaxBlock \in Nat \ {0}
  BY <1>1, ChainAssumption DEF Heights
<1>5. CASE op.target > Reach
  <2>1. o = Asleep("sleep")
    BY <1>5 DEF search_justification
  <2> QED BY <1>1, <2>1, AsleepOK
<1>6. CASE ~ (op.target > Reach) /\ HasJustification(op.target)
  <2>1. o = [op EXCEPT !.pc = "range_submit"]
    BY <1>6 DEF search_justification
  <2>2. op.target <= op.block + op.treeSize /\ op.target <= head
    BY <1>3, <1>6 DEF Reach, HasJustification
  <2>3. /\ o \in LocalType /\ o.pc = "range_submit" /\ o.availHead = op.availHead
        /\ o.functionId = op.functionId /\ o.block = op.block
        /\ o.treeSize = op.treeSize /\ o.id = op.id /\ o.target = op.target
    BY <1>1, <2>1 DEF LocalType, Points
  <2>4. RotateLocal(o)
    BY <2>3 DEF RotateLocal
  <2>5. RangeLocal(o)
    BY <1>2, <1>6, <2>2, <2>3 DEF RangeLocal
  <2> QED BY <1>1, <1>2, <2>3, <2>4, <2>5 DEF LocalOK
<1>7. CASE ~ (op.target > Reach) /\ ~ HasJustification(op.target)
  <2>1. o = [op EXCEPT !.target = op.target + 1]
    BY <1>7 DEF search_justification
  <2>2. op.target <= MaxBlock /\ ~ EpochEnd(op.target)
    <3>1. op.target <= head \/ (op.target <= MaxBlock /\ ~ EpochEnd(op.target))
      BY <1>7 DEF search_justification
    <3> QED BY <1>3, <1>4, <1>7, <3>1 DEF HasJustification
  <2>3. op.target \in Heights \ {0} /\ op.target > 0
    BY <1>2, <1>3, <2>2 DEF Heights
  <2>4. SetId[op.target] = op.id
    <3>1. SetId[op.target] \in {SignerOf(op.target), SignerOf(op.target) + 1}
          /\ SignerOf(op.target) = SetId[op.target - 1]
      BY <2>3, SetIdFacts
    <3> QED BY <1>2, <2>2, <2>3, <3>1 DEF EpochEnd
  <2>5. SignerOf(op.target + 1) = op.id
    <3>1. SignerOf(op.target + 1) = SetId[op.target]
      BY <1>3, NextSigner
    <3> QED BY <2>4, <3>1
  <2>6. /\ op.block < op.target + 1 /\ op.target + 1 <= MaxBlock + 1
        /\ op.target + 1 \in 0 .. 2 * MaxBlock
    BY <1>2, <1>3, <1>4, <2>2
  <2>7. /\ o \in LocalType /\ o.pc = "range_search" /\ o.availHead = op.availHead
        /\ o.functionId = op.functionId /\ o.block = op.block
        /\ o.treeSize = op.treeSize /\ o.id = op.id /\ o.target = op.target + 1
    BY <1>1, <2>1, <2>6 DEF LocalType, Points
  <2>8. RotateLocal(o)
    BY <2>7 DEF RotateLocal
  <2>9. RangeLocal(o)
    BY <1>2, <2>5, <2>6, <2>7 DEF RangeLocal
  <2> QED BY <1>1, <1>2, <2>7, <2>8, <2>9 DEF LocalOK
<1> QED BY <1>5, <1>6, <1>7

-----------------------------------------------------------------------------
(* The requests.                                                           *)

\* A rotate request names the set that signed a block of the contract, with
\* its hash, and the epoch of that set is over.
LEMMA RotateRequested ==
    ASSUME OInv, request_rotate
    PROVE  /\ IInv'
           /\ \A r \in rotateRequests' : RotateAccepts(r.input)
PROOF
<1>1. /\ IInv /\ LocalOK(op) /\ op.pc = "rotate_submit"
  BY DEF OInv, request_rotate, At
<1>2. /\ op.functionId \in RotateFunctions /\ WasLatest(op.block)
      /\ HashKnown(SignerOf(op.block))
      /\ last_justified_block(SignerOf(op.block), head) # 0
  BY <1>1 DEF LocalOK, RotateLocal, RotatePoints
<1> DEFINE id == SignerOf(op.block)
           r == [gateway |-> PlatformGateway, functionId |-> op.functionId,
                 input |-> RotateInput(id)]
<1>3. id \in AuthoritySetIds
  BY <1>2, SetIdFacts DEF WasLatest
<1>4. authoritySetIdToHash[id] = AuthoritySetHash(id)
  BY <1>1, <1>2, <1>3 DEF HashKnown, IInv, AuthoritySetsCanonical
<1>5. /\ rotateRequests' = rotateRequests \cup {r}
      /\ UNCHANGED <<head, contractVars, headerRangeRequests>>
  BY DEF request_rotate, current_authority_set_id
<1>6. /\ RotateInput(id).currentAuthoritySetId = id
      /\ RotateInput(id).currentAuthoritySetHash = AuthoritySetHash(id)
      /\ RotateInput(id) \in RotateInputs
  BY <1>3, <1>4 DEF RotateInput, RotateInputs
<1>7. RotateAccepts(RotateInput(id))
  BY <1>2, <1>6 DEF RotateAccepts
<1> HIDE DEF id
<1>8. r \in RotateRequestType /\ r.input = RotateInput(id)
  BY <1>2, <1>6, OperatorAssumption DEF RotateRequestType
<1> HIDE DEF r
<1>9. TypeOK'
  <2>1. rotateRequests' \subseteq RotateRequestType
    BY <1>1, <1>5, <1>8 DEF IInv, TypeOK
  <2> QED BY <1>1, <1>5, <2>1 DEF IInv, TypeOK, ConfigurationOK, contractVars,
                                  pointerVars, configVars, hashVars, rangeVars
<1>10. IInv'
  BY <1>1, <1>5, <1>9, RequestIInv
<1> QED BY <1>5, <1>7, <1>8, <1>10 DEF OInv, RequestsOK

\* A header range request starts at a header of the contract and ends at a
\* block that its authority set has justified.
LEMMA RangeRequested ==
    ASSUME OInv, request_header_range
    PROVE  /\ IInv'
           /\ \A r \in headerRangeRequests' : RangeRequestOK(r)
PROOF
<1>1. /\ IInv /\ LocalOK(op) /\ op.pc = "range_submit" /\ op \in LocalType
  BY DEF OInv, LocalOK, request_header_range, At
<1>2. /\ op.functionId \in HeaderRangeFunctions /\ WasLatest(op.block)
      /\ HashKnown(op.id)
      /\ op.block < op.target
      /\ op.target <= head
      /\ SignerOf(op.target) = op.id
      /\ IsDummyOperator \/ HasJustification(op.target)
  BY <1>1 DEF LocalOK, RangeLocal, RangePoints, BlockPoints, TreePoints, IdPoints
<1>3. op.id \in AuthoritySetIds /\ op.block \in Heights /\ op.target \in Nat
  BY <1>1, LocalTyped
<1>4. /\ authoritySetIdToHash[op.id] = AuthoritySetHash(op.id)
      /\ blockHeightToHeaderHash[op.block] = HeaderHash(op.block)
  BY <1>1, <1>2, <1>3 DEF HashKnown, WasLatest, IInv, AuthoritySetsCanonical,
                          HeadersCanonical
<1>5. op.target \in Heights
  BY <1>1, <1>2, <1>3, ChainAssumption DEF IInv, TypeOK, Heights
<1> DEFINE in == [trustedBlock |-> op.block,
                  trustedHeader |-> blockHeightToHeaderHash[op.block],
                  authoritySetId |-> op.id,
                  authoritySetHash |-> authoritySetIdToHash[op.id],
                  targetBlock |-> op.target]
           r == [gateway |-> PlatformGateway, functionId |-> op.functionId,
                 input |-> in]
<1>6. /\ headerRangeRequests' = headerRangeRequests \cup {r}
      /\ UNCHANGED <<head, contractVars, rotateRequests, redis>>
  BY DEF request_header_range
<1>7. /\ in \in HeaderRangeInputs
      /\ in.trustedBlock = op.block /\ in.trustedHeader = HeaderHash(op.block)
      /\ in.authoritySetId = op.id /\ in.authoritySetHash = AuthoritySetHash(op.id)
      /\ in.targetBlock = op.target
  BY <1>3, <1>4, <1>5 DEF HeaderRangeInputs
<1> HIDE DEF in
<1>8. r \in HeaderRangeRequestType /\ r.input = in
  BY <1>2, <1>7, OperatorAssumption DEF HeaderRangeRequestType
<1>9. RangeRequestOK(r)
  BY <1>2, <1>7, <1>8 DEF RangeRequestOK
<1> HIDE DEF r
<1>10. TypeOK'
  <2>1. headerRangeRequests' \subseteq HeaderRangeRequestType
    BY <1>1, <1>6, <1>8 DEF IInv, TypeOK
  <2> QED BY <1>1, <1>6, <2>1 DEF IInv, TypeOK, ConfigurationOK, contractVars,
                                  pointerVars, configVars, hashVars, rangeVars
<1>11. IInv'
  BY <1>1, <1>6, <1>10, RequestIInv
<1> QED BY <1>6, <1>9, <1>11 DEF OInv, RequestsOK

-----------------------------------------------------------------------------
(* The inductive invariant.                                                *)

\* What a step has to establish.
LEMMA StepKeeps ==
    ASSUME OInv, IInv', Grows, redis' \subseteq Justified, lost' \in 0 .. MaxLost,
           NEW o, o = op', LocalOK(o),
           \A r \in headerRangeRequests' : RangeRequestOK(r),
           \A r \in rotateRequests' : RotateAccepts(r.input)
    PROVE  OInv'
PROOF
<1>1. IInv
  BY DEF OInv
<1>2. LocalOK(o)'
  BY <1>1, LocalKept
<1>3. LocalOK(op)'
  BY <1>2
<1>4. RequestsOK'
  BY <1>1, RequestsKept
<1> QED BY <1>3, <1>4 DEF OInv

\* A step that leaves the chain and the contract alone forgets nothing.
LEMMA StillGrows ==
    ASSUME IInv, UNCHANGED <<head, contractVars>>, redis \subseteq redis'
    PROVE  Grows
PROOF
<1>1. head \in Nat
  BY SetIdFacts DEF IInv, TypeOK
<1> QED BY <1>1 DEF contractVars, hashVars, Grows, HashesKept

\* The operator's own steps that make no request.
LEMMA LocalStepKeeps ==
    ASSUME OInv, StayOutside, NEW o, o = op', LocalOK(o)
    PROVE  OInv'
PROOF
<1>1. /\ IInv /\ redis \subseteq Justified /\ lost \in 0 .. MaxLost /\ RequestsOK
      /\ UNCHANGED vars /\ redis' = redis /\ lost' = lost
  BY DEF OInv, StayOutside
<1>2. IInv'
  BY <1>1, StutterIInv
<1>3. UNCHANGED <<head, contractVars>> /\ UNCHANGED <<headerRangeRequests, rotateRequests>>
  BY <1>1 DEF vars, requestVars
<1>4. Grows
  BY <1>1, <1>3, StillGrows
<1>5. /\ \A r \in headerRangeRequests' : RangeRequestOK(r)
      /\ \A r \in rotateRequests' : RotateAccepts(r.input)
  BY <1>1, <1>3 DEF RequestsOK
<1> QED BY <1>1, <1>2, <1>4, <1>5, StepKeeps

\* Every step of the operator.
LEMMA OperatorKeeps == OInv /\ (OperatorStep \/ panic \/ restart) => OInv'
PROOF
<1> SUFFICES ASSUME OInv, OperatorStep \/ panic \/ restart PROVE OInv'
  OBVIOUS
<1>1. PICK o : o = op'
  OBVIOUS
<1>2. /\ IInv /\ redis \subseteq Justified /\ lost \in 0 .. MaxLost /\ RequestsOK
      /\ LocalOK(op)
  BY DEF OInv
<1>3. CASE read_rotate_function_id \/ read_rotate_block \/ read_rotate_next
           \/ find_and_request_rotate
  <2>1. StayOutside
    BY <1>3 DEF read_rotate_function_id, read_rotate_block, read_rotate_next,
                find_and_request_rotate
  <2> QED BY <1>1, <1>3, <2>1, RotateStepLocal, LocalStepKeeps
<1>4. CASE read_range_function_id \/ read_range_block \/ read_range_tree
           \/ read_range_head \/ read_range_next
  <2>1. StayOutside
    BY <1>4 DEF read_range_function_id, read_range_block, read_range_tree,
                read_range_head, read_range_next
  <2> QED BY <1>1, <1>4, <2>1, RangeReadLocal, LocalStepKeeps
<1>5. CASE find_and_request_header_range
  BY <1>1, <1>5, FindRangeLocal, LocalStepKeeps DEF find_and_request_header_range
<1>6. CASE find_block_to_step_to
  BY <1>1, <1>6, FindBlockLocal, LocalStepKeeps DEF find_block_to_step_to
<1>7. CASE search_justification
  BY <1>1, <1>7, SearchLocal, LocalStepKeeps DEF search_justification
<1>8. CASE panic
  BY <1>1, <1>2, <1>8, AsleepOK, LocalStepKeeps DEF panic
<1>9. CASE restart
  BY <1>1, <1>2, <1>9, AsleepOK, LocalStepKeeps DEF restart
<1>10. CASE request_rotate
  <2>1. IInv' /\ \A r \in rotateRequests' : RotateAccepts(r.input)
    BY <1>10, RotateRequested
  <2>2. /\ op.pc = "rotate_submit" /\ o = Asleep("range_function")
        /\ UNCHANGED <<head, contractVars, headerRangeRequests, redis, lost>>
    BY <1>1, <1>10 DEF request_rotate, At
  <2>3. LocalOK(o)
    BY <1>2, <2>2, AsleepOK DEF LocalOK
  <2>4. Grows
    BY <1>2, <2>2, StillGrows
  <2>5. \A r \in headerRangeRequests' : RangeRequestOK(r)
    BY <1>2, <2>2 DEF RequestsOK
  <2> QED BY <1>1, <1>2, <2>1, <2>2, <2>3, <2>4, <2>5, StepKeeps
<1>11. CASE request_header_range
  <2>1. IInv' /\ \A r \in headerRangeRequests' : RangeRequestOK(r)
    BY <1>11, RangeRequested
  <2>2. /\ o = Asleep("sleep")
        /\ UNCHANGED <<head, contractVars, rotateRequests, redis, lost>>
    BY <1>1, <1>11 DEF request_header_range
  <2>3. LocalOK(o)
    BY <1>2, <2>2, AsleepOK
  <2>4. Grows
    BY <1>2, <2>2, StillGrows
  <2>5. \A r \in rotateRequests' : RotateAccepts(r.input)
    BY <1>2, <2>2 DEF RequestsOK
  <2> QED BY <1>1, <1>2, <2>1, <2>2, <2>3, <2>4, <2>5, StepKeeps
<1> QED BY <1>3, <1>4, <1>5, <1>6, <1>7, <1>8, <1>9, <1>10, <1>11 DEF OperatorStep

\* A transaction of someone else or a new block: the operator's values are
\* read again only later.
LEMMA ContractStepKeeps ==
    ASSUME OInv, IInv', Next, UNCHANGED operatorVars, UNCHANGED requestVars
    PROVE  OInv'
PROOF
<1>1. PICK o : o = op'
  OBVIOUS
<1>2. /\ IInv /\ redis \subseteq Justified /\ lost \in 0 .. MaxLost /\ RequestsOK
      /\ LocalOK(op)
  BY DEF OInv
<1>3. /\ op' = op /\ redis' = redis /\ lost' = lost
      /\ headerRangeRequests' = headerRangeRequests /\ rotateRequests' = rotateRequests
  BY DEF operatorVars, requestVars
<1>4. HashesKept /\ head' >= head /\ (initialized => initialized')
  BY <1>2, StepForward, ChainGrows
<1>5. Grows
  BY <1>3, <1>4 DEF Grows
<1>6. /\ \A r \in headerRangeRequests' : RangeRequestOK(r)
      /\ \A r \in rotateRequests' : RotateAccepts(r.input)
  BY <1>2, <1>3 DEF RequestsOK
<1> QED BY <1>1, <1>2, <1>3, <1>5, <1>6, StepKeeps

\* A request that is over.
LEMMA DiscardKeeps ==
    ASSUME OInv, NEW r, Discard(r), lost' \in 0 .. MaxLost
    PROVE  OInv'
PROOF
<1>1. PICK o : o = op'
  OBVIOUS
<1>2. /\ IInv /\ redis \subseteq Justified /\ RequestsOK /\ LocalOK(op)
  BY DEF OInv
<1>3. /\ UNCHANGED <<head, contractVars>> /\ op' = op /\ redis' = redis
      /\ headerRangeRequests' \subseteq headerRangeRequests
      /\ rotateRequests' \subseteq rotateRequests
  BY DEF Discard
<1>4. TypeOK'
  BY <1>2, <1>3 DEF IInv, TypeOK, ConfigurationOK, contractVars, pointerVars,
                    configVars, hashVars, rangeVars
<1>5. IInv'
  BY <1>2, <1>3, <1>4, RequestIInv
<1>6. Grows
  BY <1>2, <1>3, StillGrows
<1>7. /\ \A q \in headerRangeRequests' : RangeRequestOK(q)
      /\ \A q \in rotateRequests' : RotateAccepts(q.input)
  BY <1>2, <1>3 DEF RequestsOK
<1> QED BY <1>1, <1>2, <1>3, <1>5, <1>6, <1>7, StepKeeps

\* The indexer stores a justification.
LEMMA IndexerKeeps == OInv /\ IndexerStep => OInv'
PROOF
<1> SUFFICES ASSUME OInv, NEW b \in Justified, listen_for_justifications(b) PROVE OInv'
  BY DEF IndexerStep
<1>1. PICK o : o = op'
  OBVIOUS
<1>2. /\ IInv /\ redis \subseteq Justified /\ lost \in 0 .. MaxLost /\ RequestsOK
      /\ LocalOK(op)
  BY DEF OInv
<1>3. UNCHANGED vars /\ op' = op /\ lost' = lost /\ redis' = redis \cup {b}
  BY DEF listen_for_justifications
<1>4. IInv'
  BY <1>2, <1>3, StutterIInv
<1>5. UNCHANGED <<head, contractVars>> /\ UNCHANGED <<headerRangeRequests, rotateRequests>>
  BY <1>3 DEF vars, requestVars
<1>6. Grows
  BY <1>2, <1>3, <1>5, StillGrows
<1>7. /\ \A r \in headerRangeRequests' : RangeRequestOK(r)
      /\ \A r \in rotateRequests' : RotateAccepts(r.input)
  BY <1>2, <1>5 DEF RequestsOK
<1>8. redis' \subseteq Justified
  BY <1>2, <1>3
<1> QED BY <1>1, <1>2, <1>3, <1>4, <1>6, <1>7, <1>8, StepKeeps

\* The platform relays a proof, rejects a request or loses one.
LEMMA PlatformKeeps == OInv /\ (PlatformStep \/ Lose) => OInv'
PROOF
<1> SUFFICES ASSUME OInv, PlatformStep \/ Lose PROVE OInv'
  OBVIOUS
<1>1. IInv /\ lost \in 0 .. MaxLost
  BY DEF OInv
<1>2. ASSUME NEW r \in headerRangeRequests, RelayRange(r) PROVE OInv'
  <2>1. commitHeaderRange(r) /\ UNCHANGED operatorVars
    BY <1>2 DEF RelayRange
  <2>2. IInv' /\ Next
    BY <1>1, <2>1, CommitIInv DEF Next, FulfilStep
  <2>3. UNCHANGED requestVars
    BY <2>1 DEF commitHeaderRange
  <2> QED BY <2>1, <2>2, <2>3, ContractStepKeeps
<1>3. ASSUME NEW r \in rotateRequests, RelayRotate(r) PROVE OInv'
  <2>1. rotate(r) /\ UNCHANGED operatorVars
    BY <1>3 DEF RelayRotate
  <2>2. IInv' /\ Next
    BY <1>1, <2>1, RotateIInv DEF Next, FulfilStep
  <2>3. UNCHANGED requestVars
    BY <2>1 DEF rotate
  <2> QED BY <2>1, <2>2, <2>3, ContractStepKeeps
<1>4. CASE Reject
  <2>1. PICK r : Discard(r)
    BY <1>4 DEF Reject
  <2>2. lost' = lost
    BY <1>4 DEF Reject
  <2> QED BY <1>1, <2>1, <2>2, DiscardKeeps
<1>5. CASE Lose
  <2>1. PICK r : Discard(r)
    BY <1>5 DEF Lose
  <2>2. lost' \in 0 .. MaxLost
    BY <1>1, <1>5, OperatorAssumption DEF Lose
  <2> QED BY <2>1, <2>2, DiscardKeeps
<1> QED BY <1>2, <1>3, <1>4, <1>5 DEF PlatformStep

\* Deployment, the guardian and the chain.
LEMMA EnvironmentKeeps == OInv /\ EnvironmentStep => OInv'
PROOF
<1> SUFFICES ASSUME OInv, EnvironmentStep PROVE OInv'
  OBVIOUS
<1>1. IInv /\ UNCHANGED operatorVars
  BY DEF OInv, EnvironmentStep
<1>2. IInv'
  BY <1>1, AvailStepIInv, InitializeIInv, ConfigurationIInv, GenesisIInv
     DEF EnvironmentStep
<1>3. Next
  BY DEF EnvironmentStep, Next
<1>4. UNCHANGED requestVars
  <2>1. CASE AvailStep
    BY <2>1 DEF AvailStep
  <2>2. CASE InitializeStep
    BY <2>2 DEF InitializeStep, initialize
  <2>3. CASE ConfigurationStep
    BY <2>3 DEF ConfigurationStep, updateFreeze, updateFunctionIds, updateGateway
  <2>4. CASE GenesisStep
    BY <2>4 DEF GenesisStep, updateGenesisState
  <2> QED BY <2>1, <2>2, <2>3, <2>4 DEF EnvironmentStep
<1> QED BY <1>1, <1>2, <1>3, <1>4, ContractStepKeeps

\* The operator's view of contract and chain is right in every reachable
\* state: what it read in earlier steps still means what LocalOK says.
THEOREM OperatorInvariance == OperatorSpec => []OInv
PROOF
<1>1. OperatorInit => OInv
  <2> SUFFICES ASSUME OperatorInit PROVE OInv
    OBVIOUS
  <2>1. IInv
    BY InitIInv DEF OperatorInit
  <2>2. LocalOK(op)
    BY <2>1, AsleepOK DEF OperatorInit
  <2>3. headerRangeRequests = {} /\ rotateRequests = {} /\ redis = {} /\ lost = 0
    BY DEF OperatorInit, Init
  <2> QED BY <2>1, <2>2, <2>3, OperatorAssumption DEF OInv, RequestsOK
<1>2. OInv /\ [OperatorNext]_allVars => OInv'
  <2> SUFFICES ASSUME OInv, [OperatorNext]_allVars PROVE OInv'
    OBVIOUS
  <2>1. CASE OperatorNext
    BY <2>1, EnvironmentKeeps, IndexerKeeps, OperatorKeeps, PlatformKeeps DEF OperatorNext
  <2>2. CASE UNCHANGED allVars
    <3>1. StayOutside /\ op' = op
      BY <2>2 DEF allVars, operatorVars, StayOutside
    <3>2. PICK o : o = op'
      OBVIOUS
    <3> QED BY <3>1, <3>2, LocalStepKeeps DEF OInv
  <2> QED BY <2>1, <2>2
<1> QED BY <1>1, <1>2, PTL DEF OperatorSpec

\* The operator's local values and the requests have their types.
THEOREM OperatorTypes == OperatorSpec => []OperatorTypeOK
PROOF
<1>1. OInv => OperatorTypeOK
  <2> SUFFICES ASSUME OInv PROVE OperatorTypeOK
    OBVIOUS
  <2>1. TypeOK /\ redis \subseteq Justified /\ lost \in 0 .. MaxLost /\ op \in LocalType
    BY DEF OInv, IInv, LocalOK
  <2> QED BY <2>1, LocalTyped DEF OperatorTypeOK
<1> QED BY <1>1, OperatorInvariance, PTL

\* Whatever happens between the operator's reads and its request, a rotate
\* is requested only for a set whose epoch is over, with the set's hash.
THEOREM RotatesProvable == OperatorSpec => []RotateRequestsProvable
PROOF
<1>1. OInv => RotateRequestsProvable
  BY DEF OInv, RequestsOK, RotateRequestsProvable
<1> QED BY <1>1, OperatorInvariance, PTL

\* A header range that an operator with real circuits requests starts at a
\* header of the contract and ends at a finalized block that the named set
\* has justified.  (A dummy operator looks for no justification.)
THEOREM RangesJustified ==
    ~ IsDummyOperator /\ OperatorSpec => []RangeRequestsJustified
PROOF
<1> SUFFICES ASSUME ~ IsDummyOperator
             PROVE  OperatorSpec => []RangeRequestsJustified
  OBVIOUS
<1>1. OInv => RangeRequestsJustified
  BY DEF OInv, RequestsOK, RangeRequestOK, RangeRequestsJustified
<1> QED BY <1>1, OperatorInvariance, PTL

-----------------------------------------------------------------------------
(* Circuit upgrades.  The operator reads the function id before the tree   *)
(* size.  If the guardian could go back to an earlier circuit, an upgrade  *)
(* and its reversal around the second read would give the circuit the      *)
(* other one's tree size.                                                  *)

\* The guardian only replaces a circuit by a newer one, in the order rank.
Upgrades(rank) ==
    \/ headerRangeFunctionId' = headerRangeFunctionId
    \/ ~ initialized
    \/ rank[headerRangeFunctionId'] > rank[headerRangeFunctionId]

\* A newer circuit than f is in the contract.
Replaced(rank, f) == initialized /\ rank[f] < rank[headerRangeFunctionId]

\* The circuit in the operator's local values o fits the tree size, or is out
\* of use; so are those of the requests.
FitsLocal(rank, o) ==
    /\ o.pc \in {"range_block", "range_tree"} =>
           \/ o.functionId = headerRangeFunctionId
           \/ Replaced(rank, o.functionId)
    /\ o.pc \in TreePoints =>
           \/ o.treeSize = TreeSizeOf[o.functionId]
           \/ Replaced(rank, o.functionId)

Fits(rank) ==
    /\ FitsLocal(rank, op)
    /\ \A r \in headerRangeRequests :
           \/ r.input.targetBlock <= r.input.trustedBlock + TreeSizeOf[r.functionId]
           \/ Replaced(rank, r.functionId)

\* The contract stays initialized.
LEMMA StaysInitialized == OInv /\ OperatorNext /\ initialized => initialized'
PROOF
<1> SUFFICES ASSUME OInv, OperatorNext, initialized PROVE initialized'
  OBVIOUS
<1>1. CASE Next
  BY <1>1, ChainGrows DEF OInv
<1>2. CASE UNCHANGED contractVars
  BY <1>2 DEF contractVars
<1>3. CASE EnvironmentStep
  BY <1>1, <1>3 DEF EnvironmentStep, Next
<1>4. CASE IndexerStep
  BY <1>2, <1>4 DEF IndexerStep, listen_for_justifications, vars
<1>5. CASE OperatorStep \/ panic \/ restart
  BY <1>2, <1>5
     DEF OperatorStep, StayOutside, vars, read_rotate_function_id, read_rotate_block,
         read_rotate_next, find_and_request_rotate, request_rotate,
         read_range_function_id, read_range_block, read_range_tree, read_range_head,
         read_range_next, find_and_request_header_range, find_block_to_step_to,
         search_justification, request_header_range, panic, restart
<1>6. CASE PlatformStep \/ Lose
  BY <1>1, <1>2, <1>6
     DEF PlatformStep, RelayRange, RelayRotate, Next, FulfilStep, Reject, Lose, Discard
<1> QED BY <1>3, <1>4, <1>5, <1>6 DEF OperatorNext

\* A circuit that was replaced stays out of use, and the current circuit
\* stays or is replaced.
LEMMA ReplacedKept ==
    ASSUME NEW rank \in [HeaderRangeFunctions -> Nat], OInv, OInv',
           initialized => initialized', Upgrades(rank),
           NEW f \in HeaderRangeFunctions
    PROVE  /\ Replaced(rank, f) => Replaced(rank, f)'
           /\ initialized /\ f = headerRangeFunctionId =>
                  f = headerRangeFunctionId' \/ Replaced(rank, f)'
PROOF
<1> SUFFICES ASSUME initialized
             PROVE  /\ Replaced(rank, f) => Replaced(rank, f)'
                    /\ f = headerRangeFunctionId =>
                           f = headerRangeFunctionId' \/ Replaced(rank, f)'
  BY DEF Replaced
<1>1. /\ headerRangeFunctionId \in HeaderRangeFunctions
      /\ headerRangeFunctionId' \in HeaderRangeFunctions
      /\ initialized'
  BY DEF OInv, IInv, TypeOK, ConfigurationOK
<1>2. /\ rank[f] \in Nat /\ rank[headerRangeFunctionId] \in Nat
      /\ rank[headerRangeFunctionId'] \in Nat
  BY <1>1
<1>3. rank[headerRangeFunctionId] <= rank[headerRangeFunctionId']
  BY <1>2 DEF Upgrades
<1> QED BY <1>1, <1>2, <1>3 DEF Replaced, Upgrades

\* Requests that fit a circuit, or name one that is out of use, still do.
LEMMA RequestsFitKept ==
    ASSUME NEW rank \in [HeaderRangeFunctions -> Nat], OInv, OInv', Fits(rank),
           initialized => initialized', Upgrades(rank),
           headerRangeRequests' \subseteq headerRangeRequests
    PROVE  \A r \in headerRangeRequests' :
               \/ r.input.targetBlock <= r.input.trustedBlock + TreeSizeOf[r.functionId]
               \/ Replaced(rank, r.functionId)'
PROOF
<1> SUFFICES ASSUME NEW r \in headerRangeRequests
             PROVE  \/ r.input.targetBlock <= r.input.trustedBlock + TreeSizeOf[r.functionId]
                    \/ Replaced(rank, r.functionId)'
  OBVIOUS
<1>1. r.functionId \in HeaderRangeFunctions
  BY DEF OInv, IInv, TypeOK, HeaderRangeRequestType
<1>2. Replaced(rank, r.functionId) => Replaced(rank, r.functionId)'
  BY <1>1, ReplacedKept
<1> QED BY <1>2 DEF Fits

\* A step that is not the operator's keeps its values and adds no request.
LEMMA OthersKeepFit ==
    ASSUME NEW rank \in [HeaderRangeFunctions -> Nat], OInv, OInv', Fits(rank),
           initialized => initialized', Upgrades(rank), op' = op,
           headerRangeRequests' \subseteq headerRangeRequests
    PROVE  Fits(rank)'
PROOF
<1> DEFINE f == op.functionId
<1>1. op.pc \in RangePoints => initialized /\ f \in HeaderRangeFunctions
  BY DEF OInv, LocalOK, RangeLocal, RangePoints
<1>2. ASSUME op.pc \in {"range_block", "range_tree"}
      PROVE  f = headerRangeFunctionId' \/ Replaced(rank, f)'
  <2>1. initialized /\ f \in HeaderRangeFunctions
        /\ (f = headerRangeFunctionId \/ Replaced(rank, f))
    BY <1>1, <1>2 DEF RangePoints, Fits, FitsLocal
  <2> QED BY <2>1, ReplacedKept
<1>3. ASSUME op.pc \in TreePoints
      PROVE  op.treeSize = TreeSizeOf[f] \/ Replaced(rank, f)'
  <2>1. f \in HeaderRangeFunctions /\ (op.treeSize = TreeSizeOf[f] \/ Replaced(rank, f))
    BY <1>1, <1>3 DEF TreePoints, BlockPoints, Fits, FitsLocal
  <2> QED BY <2>1, ReplacedKept
<1>4. \A r \in headerRangeRequests' :
          \/ r.input.targetBlock <= r.input.trustedBlock + TreeSizeOf[r.functionId]
          \/ Replaced(rank, r.functionId)'
  BY RequestsFitKept
<1> HIDE DEF f
<1>5. (op.pc \in {"range_block", "range_tree"} =>
          op.functionId = headerRangeFunctionId \/ Replaced(rank, op.functionId))'
  BY <1>2 DEF f
<1>6. (op.pc \in TreePoints =>
          op.treeSize = TreeSizeOf[op.functionId] \/ Replaced(rank, op.functionId))'
  BY <1>3 DEF f
<1> QED BY <1>4, <1>5, <1>6 DEF Fits, FitsLocal

\* The operator's steps: the tree size it reads is that of the circuit in the
\* contract, which is the one it has read or a newer one.
LEMMA StepFitsLocal ==
    ASSUME NEW rank \in [HeaderRangeFunctions -> Nat], OInv, Fits(rank),
           OperatorStep \/ panic \/ restart, NEW o, o = op'
    PROVE  FitsLocal(rank, o)
PROOF
<1> USE DEF RangePoints, BlockPoints, TreePoints
<1>1. op \in LocalType /\ IInv /\ LocalOK(op)
  BY DEF OInv, LocalOK
<1>2. ASSUME o.pc \notin RangePoints PROVE FitsLocal(rank, o)
  BY <1>2 DEF FitsLocal
<1>3. ASSUME NEW p, o = Asleep(p), p \in {"sleep", "panicked", "range_function"}
      PROVE  FitsLocal(rank, o)
  BY <1>2, <1>3 DEF Asleep
<1>4. CASE read_rotate_function_id \/ read_rotate_block \/ read_rotate_next
  <2>1. o.pc \in {"rotate_block", "rotate_next", "rotate_head"}
    BY <1>1, <1>4 DEF read_rotate_function_id, read_rotate_block, read_rotate_next,
                      Asleep, LocalType
  <2> QED BY <1>2, <2>1
<1>5. CASE find_and_request_rotate
  <2>1. o.pc = "rotate_submit" \/ o = Asleep("range_function")
    BY <1>1, <1>5 DEF find_and_request_rotate, LocalType
  <2> QED BY <1>2, <1>3, <2>1
<1>6. CASE request_rotate \/ request_header_range \/ panic \/ restart
  BY <1>3, <1>6 DEF request_rotate, request_header_range, panic, restart
<1>7. CASE read_range_function_id
  <2>1. o.pc = "range_block" /\ o.functionId = headerRangeFunctionId
    BY <1>1, <1>7 DEF read_range_function_id, LocalType
  <2> QED BY <2>1 DEF FitsLocal
<1>8. CASE read_range_block
  <2>1. op.pc = "range_block" /\ o.pc = "range_tree" /\ o.functionId = op.functionId
    BY <1>1, <1>8 DEF read_range_block, At, LocalType
  <2> QED BY <2>1 DEF Fits, FitsLocal
<1>9. CASE read_range_tree
  <2>1. /\ op.pc = "range_tree" /\ o.pc = "range_head" /\ o.functionId = op.functionId
        /\ o.treeSize = headerRangeCommitmentTreeSize
    BY <1>1, <1>9 DEF read_range_tree, At, LocalType
  <2>2. headerRangeCommitmentTreeSize = TreeSizeOf[headerRangeFunctionId]
    BY <1>1, <2>1 DEF LocalOK, IInv, TreeSizeMatches
  <2> QED BY <2>1, <2>2 DEF Fits, FitsLocal
<1>10. ASSUME op.pc \in TreePoints, o.pc \in TreePoints,
              o.functionId = op.functionId, o.treeSize = op.treeSize
       PROVE  FitsLocal(rank, o)
  BY <1>10 DEF Fits, FitsLocal
<1>11. CASE read_range_head \/ read_range_next
  <2>1. /\ op.pc \in TreePoints /\ o.pc \in TreePoints
        /\ o.functionId = op.functionId /\ o.treeSize = op.treeSize
    BY <1>1, <1>11 DEF read_range_head, read_range_next, At, LocalType
  <2> QED BY <1>10, <2>1
<1>12. CASE find_and_request_header_range
  <2>1. \/ o = Asleep("sleep")
        \/ /\ op.pc \in TreePoints /\ o.pc \in TreePoints
           /\ o.functionId = op.functionId /\ o.treeSize = op.treeSize
    BY <1>1, <1>12 DEF find_and_request_header_range, At, LocalType
  <2> QED BY <1>3, <1>10, <2>1
<1>13. CASE find_block_to_step_to
  <2>1. \/ o = Asleep("sleep")
        \/ /\ op.pc \in TreePoints /\ o.pc \in TreePoints
           /\ o.functionId = op.functionId /\ o.treeSize = op.treeSize
    BY <1>1, <1>13 DEF find_block_to_step_to, At, LocalType
  <2> QED BY <1>3, <1>10, <2>1
<1>14. CASE search_justification
  <2>1. \/ o = Asleep("sleep")
        \/ /\ op.pc \in TreePoints /\ o.pc \in TreePoints
           /\ o.functionId = op.functionId /\ o.treeSize = op.treeSize
    BY <1>1, <1>14 DEF search_justification, At, LocalType
  <2> QED BY <1>3, <1>10, <2>1
<1> QED BY <1>4, <1>5, <1>6, <1>7, <1>8, <1>9, <1>11, <1>12, <1>13, <1>14
        DEF OperatorStep

\* ... and the request it makes goes no further than the tree size it read.
LEMMA StepFitsRequests ==
    ASSUME NEW rank \in [HeaderRangeFunctions -> Nat], OInv, Fits(rank),
           OperatorStep \/ panic \/ restart
    PROVE  /\ UNCHANGED contractVars
           /\ \A r \in headerRangeRequests' :
                  \/ r.input.targetBlock <= r.input.trustedBlock + TreeSizeOf[r.functionId]
                  \/ Replaced(rank, r.functionId)
PROOF
<1>1. CASE UNCHANGED contractVars /\ UNCHANGED headerRangeRequests
  BY <1>1 DEF Fits
<1>2. CASE request_header_range
  <2>1. /\ op.pc = "range_submit" /\ LocalOK(op)
        /\ op.target <= op.block + op.treeSize
        /\ op.treeSize = TreeSizeOf[op.functionId] \/ Replaced(rank, op.functionId)
    BY <1>2 DEF request_header_range, At, OInv, LocalOK, RangeLocal, Fits,
                FitsLocal, TreePoints, BlockPoints, RangePoints
  <2> DEFINE q == [gateway |-> PlatformGateway, functionId |-> op.functionId,
                   input |-> [trustedBlock |-> op.block,
                              trustedHeader |-> blockHeightToHeaderHash[op.block],
                              authoritySetId |-> op.id,
                              authoritySetHash |-> authoritySetIdToHash[op.id],
                              targetBlock |-> op.target]]
  <2>2. /\ headerRangeRequests' = headerRangeRequests \cup {q}
        /\ q.functionId = op.functionId
        /\ q.input.targetBlock = op.target
        /\ q.input.trustedBlock = op.block
    BY <1>2 DEF request_header_range
  <2> HIDE DEF q
  <2>3. UNCHANGED contractVars
    BY <1>2 DEF request_header_range
  <2> QED BY <2>1, <2>2, <2>3 DEF Fits
<1>3. CASE request_rotate
  BY <1>1, <1>3 DEF request_rotate
<1>4. CASE StayOutside
  BY <1>1, <1>4 DEF StayOutside, vars, requestVars
<1> QED BY <1>2, <1>3, <1>4
        DEF OperatorStep, read_rotate_function_id, read_rotate_block,
            read_rotate_next, find_and_request_rotate, read_range_function_id,
            read_range_block, read_range_tree, read_range_head, read_range_next,
            find_and_request_header_range, find_block_to_step_to,
            search_justification, panic, restart

\* Every step of an upgrading system keeps Fits.
LEMMA NextKeepsFit ==
    ASSUME NEW rank \in [HeaderRangeFunctions -> Nat], OInv, OInv', Fits(rank),
           OperatorNext, Upgrades(rank)
    PROVE  Fits(rank)'
PROOF
<1>1. initialized => initialized'
  BY StaysInitialized
<1>2. CASE OperatorStep \/ panic \/ restart
  <2>1. PICK o : o = op'
    OBVIOUS
  <2>2. FitsLocal(rank, o)
    BY <1>2, <2>1, StepFitsLocal
  <2>3. /\ UNCHANGED <<initialized, headerRangeFunctionId>>
        /\ \A r \in headerRangeRequests' :
               \/ r.input.targetBlock <= r.input.trustedBlock + TreeSizeOf[r.functionId]
               \/ Replaced(rank, r.functionId)
    BY <1>2, StepFitsRequests DEF contractVars, configVars
  <2> QED BY <2>1, <2>2, <2>3 DEF FitsLocal, Fits, Replaced
<1>3. CASE op' = op /\ headerRangeRequests' \subseteq headerRangeRequests
  BY <1>1, <1>3, OthersKeepFit
<1>4. CASE IndexerStep
  BY <1>3, <1>4 DEF IndexerStep, listen_for_justifications, vars, requestVars
<1>5. CASE EnvironmentStep
  <2>1. op' = op /\ headerRangeRequests' = headerRangeRequests
    BY <1>5 DEF EnvironmentStep, operatorVars, AvailStep, requestVars, InitializeStep,
                initialize, ConfigurationStep, updateFreeze, updateFunctionIds,
                updateGateway, GenesisStep, updateGenesisState
  <2> QED BY <1>3, <2>1
<1>6. CASE PlatformStep \/ Lose
  <2>1. op' = op /\ headerRangeRequests' \subseteq headerRangeRequests
    BY <1>6 DEF PlatformStep, RelayRange, RelayRotate, commitHeaderRange, rotate,
                operatorVars, requestVars, Reject, Lose, Discard
  <2> QED BY <1>3, <2>1
<1> QED BY <1>2, <1>4, <1>5, <1>6 DEF OperatorNext

\* As long as circuits are only replaced by newer ones, in whatever order
\* they are ranked, a request for the circuit that is in the contract fits
\* it, although the function id and the tree size are read in two steps.
THEOREM RangesFit ==
    ASSUME NEW rank \in [HeaderRangeFunctions -> Nat]
    PROVE  OperatorSpec /\ [][Upgrades(rank)]_allVars => []RangeRequestsFit
PROOF
<1>1. OperatorInit => Fits(rank)
  BY DEF OperatorInit, Init, Asleep, Fits, FitsLocal, TreePoints,
         BlockPoints, RangePoints
<1>2. OInv /\ OInv' /\ Fits(rank) /\ [OperatorNext]_allVars /\ [Upgrades(rank)]_allVars
          => Fits(rank)'
  <2> SUFFICES ASSUME OInv, OInv', Fits(rank), [OperatorNext]_allVars,
                      [Upgrades(rank)]_allVars
               PROVE  Fits(rank)'
    OBVIOUS
  <2>1. CASE UNCHANGED allVars
    BY <2>1 DEF allVars, operatorVars, vars, contractVars, configVars, requestVars,
                Fits, FitsLocal, Replaced
  <2> QED BY <2>1, NextKeepsFit
<1>3. OInv /\ Fits(rank) => RangeRequestsFit
  <2> SUFFICES ASSUME OInv, Fits(rank), NEW r \in headerRangeRequests,
                      r.functionId = headerRangeFunctionId
               PROVE  r.input.targetBlock <= r.input.trustedBlock + TreeSizeOf[r.functionId]
    BY DEF RangeRequestsFit
  <2>1. rank[r.functionId] \in Nat
    BY DEF OInv, IInv, TypeOK, HeaderRangeRequestType
  <2>2. ~ Replaced(rank, r.functionId)
    BY <2>1 DEF Replaced
  <2> QED BY <2>2 DEF Fits
<1> QED BY <1>1, <1>2, <1>3, OperatorInvariance, PTL DEF OperatorSpec

-----------------------------------------------------------------------------
(* fill_block_range.  The contract keeps the invariant IInv of             *)
(* VectorXProofs.  What the tool adds to it is where its calldata comes    *)
(* from: a tree size of some circuit, not necessarily the one now in       *)
(* storage, and a range that ends at a finalized block, not necessarily    *)
(* one that starts at latestBlock.                                         *)

\* The calldata computed for (s, e] with the tree size t.
CallOf(c, t, s, e) ==
    /\ t \in TreeSizes
    /\ s \in Heights
    /\ e \in FinalizedHeights
    /\ c = get_block_range_data(t, s, e)

ToolOK ==
    /\ DOMAIN fill = {"pc", "treeSize", "call"}
    /\ fill.pc \in {"idle", "latest", "post"}
    /\ fill.pc = "latest" => fill.treeSize \in TreeSizes
    /\ fill.pc = "post" => \E t, s, e : CallOf(fill.call, t, s, e)

FillIndInv == IInv /\ ToolOK

\* The contract takes the calldata only if it was computed for its current
\* head and for a block beyond it: calldata for an older head, and the empty
\* calldata of a range that is not ahead, are refused.
LEMMA OnlyCurrentCallTaken ==
    ASSUME IInv, NEW t \in TreeSizes, NEW s \in Heights, NEW e \in FinalizedHeights,
           NEW c, c = get_block_range_data(t, s, e), ChunksFollowLatest(c)
    PROVE  s = latestBlock /\ e \in latestBlock + 1 .. head
PROOF
<1>1. /\ t \in Nat \ {0} /\ s \in Nat /\ e \in Nat /\ head \in Nat /\ e <= head
  BY ContractAssumption, ChainAssumption
     DEF TreeSizes, Heights, FinalizedHeights, IInv, TypeOK
<1>2. s < e
  <2> SUFFICES ASSUME e <= s PROVE FALSE
    BY <1>1
  <2> DEFINE n == (e - s + t - 1) \div t
             from(i) == s + (i - 1) * t
  <2>1. n \in Int /\ n <= 0
    <3>1. n \in Int /\ n * t <= e - s + t - 1
      BY <1>1
    <3>2. n * t < t
      BY <1>1, <3>1
    <3> HIDE DEF n
    <3> QED BY <1>1, <3>1, <3>2
  <2>2. c.startBlocks = [i \in 1 .. n |-> from(i)]
    BY DEF get_block_range_data
  <2> HIDE DEF n, from
  <2>3. 1 .. n = 1 .. 0
    BY <2>1
  <2>4. Len(c.startBlocks) = 0
    <3>1. [i \in 1 .. 0 |-> from(i)] = [i \in 1 .. 0 |-> 0]
      OBVIOUS
    <3>2. Len([i \in 1 .. 0 |-> 0]) = 0
      OBVIOUS
    <3>3. c.startBlocks = [i \in 1 .. 0 |-> from(i)]
      BY <2>2, <2>3
    <3> QED BY <3>1, <3>2, <3>3
  <2> QED BY <2>4 DEF ChunksFollowLatest
<1>3. PICK n : ChunksOf(c, n, t, s, e)
  BY <1>1, <1>2, BlockRangeDataFacts
<1>4. s = latestBlock
  BY <1>3 DEF ChunksOf, ChunksFollowLatest
<1> QED BY <1>1, <1>2, <1>4

\* Posting the calldata keeps the invariant of the contract.
LEMMA PostIInv == FillIndInv /\ post => IInv'
PROOF
<1> SUFFICES ASSUME FillIndInv, post PROVE IInv'
  OBVIOUS
<1> DEFINE c == fill.call
<1>1. PICK t, s, e : CallOf(c, t, s, e)
  BY DEF FillIndInv, ToolOK, post
<1>2. updateBlockRangeData(c)
  BY DEF post
<1> HIDE DEF c
<1>3. ChunksFollowLatest(c)
  BY <1>2 DEF updateBlockRangeData
<1>4. s = latestBlock /\ e \in latestBlock + 1 .. head
  BY <1>1, <1>3, OnlyCurrentCallTaken DEF CallOf, FillIndInv
<1> QED BY <1>1, <1>2, <1>4, FillDataIInv DEF CallOf, FillIndInv

\* A finalized block stays finalized, so that the calldata the tool holds
\* stays the calldata of a finalized range.
LEMMA ToolKept ==
    ASSUME FillIndInv, UNCHANGED fill, IInv', head' >= head
    PROVE  ToolOK'
PROOF
<1>1. head \in Nat /\ head' \in Nat
  BY ChainAssumption DEF FillIndInv, IInv, TypeOK, Heights
<1>2. FinalizedHeights \subseteq FinalizedHeights'
  BY <1>1 DEF FinalizedHeights
<1>3. ASSUME NEW t, NEW s, NEW e, CallOf(fill.call, t, s, e)
      PROVE  CallOf(fill.call, t, s, e)'
  BY <1>2, <1>3 DEF CallOf
<1>4. fill.pc = "post" => (\E t, s, e : CallOf(fill.call, t, s, e))'
  BY <1>3 DEF FillIndInv, ToolOK
<1> QED BY <1>4 DEF FillIndInv, ToolOK

\* The tool, the contract and a stutter keep the invariant.
LEMMA FillNextInv == FillIndInv /\ [FillNext]_fillVars => FillIndInv'
PROOF
<1> SUFFICES ASSUME FillIndInv, [FillNext]_fillVars PROVE FillIndInv'
  OBVIOUS
<1> USE DEF FillIndInv
<1>1. CASE read_tree_size
  <2>1. IInv'
    BY <1>1, StutterIInv DEF read_tree_size
  <2>2. headerRangeCommitmentTreeSize \in TreeSizes
    BY <1>1 DEF read_tree_size, IInv, TypeOK, ConfigurationOK
  <2>3. ToolOK'
    BY <1>1, <2>2 DEF read_tree_size, ToolOK
  <2> QED BY <2>1, <2>3
<1>2. ASSUME NEW end \in FinalizedHeights, read_latest_block(end)
      PROVE  FillIndInv'
  <2>1. IInv' /\ UNCHANGED vars
    BY <1>2, StutterIInv DEF read_latest_block
  <2>2. CallOf(get_block_range_data(fill.treeSize, latestBlock, end),
               fill.treeSize, latestBlock, end)
    BY <1>2 DEF read_latest_block, ToolOK, CallOf, IInv, TypeOK
  <2> DEFINE c == get_block_range_data(fill.treeSize, latestBlock, end)
  <2>3. fill' = [fill EXCEPT !.pc = "post", !.call = c]
    BY <1>2 DEF read_latest_block
  <2> HIDE DEF c
  <2>4. DOMAIN fill' = {"pc", "treeSize", "call"} /\ fill'.pc = "post" /\ fill'.call = c
    BY <2>3 DEF ToolOK
  <2>5. CallOf(fill.call, fill.treeSize, latestBlock, end)'
    BY <2>1, <2>2, <2>3, <2>4 DEF c, CallOf, vars, contractVars, pointerVars,
                                  FinalizedHeights, ToolOK
  <2> QED BY <2>1, <2>4, <2>5 DEF ToolOK
<1>3. ASSUME fill' = NotRunning, IInv' PROVE FillIndInv'
  BY <1>3 DEF ToolOK, NotRunning
<1>4. CASE post
  BY <1>3, <1>4, PostIInv DEF post
<1>5. CASE give_up
  BY <1>3, <1>5, StutterIInv DEF give_up
<1>6. CASE ContractStep
  <2>1. IInv'
    <3>1. CASE FulfilStep
      BY <3>1, CommitIInv, RotateIInv DEF FulfilStep
    <3>2. CASE AvailStep \/ InitializeStep \/ ConfigurationStep \/ GenesisStep
               \/ RequestStep \/ Abandon
      BY <3>2, AvailStepIInv, InitializeIInv, ConfigurationIInv, GenesisIInv,
         RequestStepIInv, AbandonIInv
    <3> QED BY <1>6, <3>1, <3>2 DEF ContractStep
  <2>2. head' >= head
    BY <1>6, ChainGrows DEF ContractStep, Next
  <2> QED BY <1>6, <2>1, <2>2, ToolKept DEF ContractStep
<1>7. CASE UNCHANGED fillVars
  <2>1. UNCHANGED vars /\ UNCHANGED fill
    BY <1>7 DEF fillVars
  <2>2. IInv' /\ head' >= head
    BY <2>1, StutterIInv, ChainAssumption DEF vars, IInv, TypeOK, Heights
  <2> QED BY <2>1, <2>2, ToolKept
<1> QED BY <1>1, <1>2, <1>4, <1>5, <1>6, <1>7 DEF FillNext, ToolStep

\* With calldata in the guardian's hands for any length of time, and relayed
\* proofs, upgrades and new genesis states in between, the commitments stay
\* those of their ranges, the ranges tile and the authority set stays within
\* one of the head.
THEOREM StaleCallsHarmless == FillSpec => []StaleCallHarmless
PROOF
<1>1. FillInit => FillIndInv
  <2>1. FillInit => IInv
    BY InitIInv DEF FillInit
  <2>2. FillInit => ToolOK
    BY DEF FillInit, ToolOK, NotRunning
  <2> QED BY <2>1, <2>2 DEF FillIndInv
<1>2. FillIndInv => StaleCallHarmless
  BY DEF FillIndInv, IInv, StaleCallHarmless
<1> QED BY <1>1, <1>2, FillNextInv, PTL DEF FillSpec
=============================================================================
