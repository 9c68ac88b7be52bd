--------------------------- MODULE VectorXProofs ---------------------------
(***************************************************************************)
(* Proofs that the contract keeps its invariants for every Avail chain,    *)
(* every set of circuits and gateways and any number of guardian calls.    *)
(*                                                                         *)
(* The inductive invariant IInv adds to the invariants of VectorX that an  *)
(* uninitialized contract has stored nothing and that the tree size in     *)
(* storage is the one of the circuit in storage.  It leaves out            *)
(* AnnouncedTreeSize, which is shown relative to it: FillBlockRange keeps  *)
(* IInv and not that.  The refinement of AttestedChain comes last.         *)
(***************************************************************************)
EXTENDS VectorX, AvailChainProofs

\* Before initialize no hash is stored and latestBlock and
\* latestAuthoritySetId are 0.
Uninitialized ==
    ~ initialized =>
        /\ \A b \in Heights : blockHeightToHeaderHash[b] = Zero
        /\ \A id \in AuthoritySetIds : authoritySetIdToHash[id] = Zero
        /\ latestBlock = 0
        /\ latestAuthoritySetId = 0
        /\ genesis = 0
        /\ lineage = {}

\* The circuit and its tree size are replaced together.
TreeSizeMatches ==
    initialized =>
        headerRangeCommitmentTreeSize = TreeSizeOf[headerRangeFunctionId]

IInv ==
    /\ TypeOK
    /\ Uninitialized
    /\ TreeSizeMatches
    /\ HeadersCanonical
    /\ AuthoritySetsCanonical
    /\ RangeCommitmentsCanonical
    /\ AuthorityWindow
    /\ RangesTile
    /\ genesis <= latestBlock

-----------------------------------------------------------------------------
(* Arithmetic.                                                             *)

\* A non-empty set of numbers from 1 to n has a greatest element.
LEMMA GreatestElement ==
    ASSUME NEW n \in Nat, NEW S, S \subseteq 1 .. n, S # {}
    PROVE  \E m \in S : \A x \in S : x <= m
PROOF
<1> DEFINE T == {k \in Nat : \E x \in S : k = n - x}
<1>1. T \subseteq Nat
  OBVIOUS
<1>2. T # {}
  <2>1. PICK x \in S : TRUE
    OBVIOUS
  <2>2. n - x \in T
    OBVIOUS
  <2> QED BY <2>2
<1>3. PICK k \in T : \A y \in T : k <= y
  <2> HIDE DEF T
  <2> QED BY <1>1, <1>2, LeastElement
<1>4. PICK m \in S : k = n - m
  BY <1>3
<1>5. ASSUME NEW x \in S PROVE x <= m
  <2>1. n - x \in T
    OBVIOUS
  <2> QED BY <2>1, <1>3, <1>4
<1> QED BY <1>5

\* The number of chunks of size t that cover d blocks.
LEMMA ChunkCount ==
    ASSUME NEW d \in Nat \ {0}, NEW t \in Nat \ {0}
    PROVE  LET n == (d + t - 1) \div t
           IN n \in Nat /\ n >= 1 /\ n * t >= d /\ (n - 1) * t < d
PROOF
<1> DEFINE n == (d + t - 1) \div t
<1>1. n \in Int /\ n * t <= d + t - 1 /\ d + t - 1 < n * t + t
  OBVIOUS
<1>2. n >= 1
  BY <1>1
<1> QED BY <1>1, <1>2

\* A larger number of whole chunks covers more blocks.
LEMMA TimesMonotonic ==
    ASSUME NEW i \in Nat, NEW j \in Nat, NEW t \in Nat, i <= j
    PROVE  i * t <= j * t
PROOF OBVIOUS

-----------------------------------------------------------------------------
(* updateBlockRangeData.                                                   *)

\* A written mapping holds at every key the old value, if the key is not
\* written, or one of the values written to it.
LEMMA WriteAllFacts ==
    ASSUME NEW m, NEW n \in Nat, NEW keys, DOMAIN keys = 1 .. n, NEW values,
           NEW k \in DOMAIN m
    PROVE  /\ DOMAIN WriteAll(m, keys, values) = DOMAIN m
           /\ \/ /\ \A i \in 1 .. n : keys[i] # k
                 /\ WriteAll(m, keys, values)[k] = m[k]
              \/ \E i \in 1 .. n :
                     /\ keys[i] = k
                     /\ WriteAll(m, keys, values)[k] = values[i]
PROOF
<1> DEFINE Last(i) == /\ keys[i] = k
                      /\ \A j \in 1 .. n : keys[j] = k => j <= i
<1>1. CASE \A i \in 1 .. n : keys[i] # k
  BY <1>1 DEF WriteAll
<1>2. CASE \E i \in 1 .. n : keys[i] = k
  <2> DEFINE S == {i \in 1 .. n : keys[i] = k}
  <2>1. S \subseteq 1 .. n /\ S # {}
    BY <1>2
  <2>2. \E i \in S : \A x \in S : x <= i
    <3> HIDE DEF S
    <3> QED BY <2>1, GreatestElement
  <2>3. \E i \in 1 .. n : Last(i)
    BY <2>2
  <2>4. PICK i \in 1 .. n : Last(i) /\ i = CHOOSE x \in 1 .. n : Last(x)
    BY <2>3
  <2>5. WriteAll(m, keys, values)[k] = values[i]
    BY <1>2, <2>4 DEF WriteAll
  <2> QED BY <2>4, <2>5 DEF WriteAll
<1> QED BY <1>1, <1>2

\* What the calldata c computed for (s, e] with tree size t looks like: n
\* chunks of at most t blocks that follow each other from s to e.
ChunksOf(c, n, t, s, e) ==
    /\ n \in Nat \ {0}
    /\ DOMAIN c.startBlocks = 1 .. n
    /\ DOMAIN c.endBlocks = 1 .. n
    /\ Len(c.endBlocks) = n
    /\ c.startBlocks[1] = s
    /\ c.endBlocks[n] = e
    /\ \A i \in 1 .. n :
           /\ c.startBlocks[i] \in Nat
           /\ c.endBlocks[i] \in Nat
           /\ s <= c.startBlocks[i]
           /\ c.startBlocks[i] < c.endBlocks[i]
           /\ c.endBlocks[i] <= c.startBlocks[i] + t
           /\ c.endBlocks[i] <= e
           /\ c.headerHashes[i] = HeaderHash(c.endBlocks[i])
           /\ c.dataRootCommitments[i] =
                  DataRootCommitment(c.startBlocks[i], c.endBlocks[i], t)
           /\ c.stateRootCommitments[i] =
                  StateRootCommitment(c.startBlocks[i], c.endBlocks[i], t)
    /\ \A i, j \in 1 .. n : i < j => c.endBlocks[i] <= c.startBlocks[j]
    /\ \A i \in 1 .. n : i > 1 => c.startBlocks[i] = c.endBlocks[i - 1]
    /\ c.endAuthoritySetId = SetId[e]
    /\ c.endAuthoritySetHash = AuthoritySetHash(SetId[e])

\* get_block_range_data computes such calldata.
LEMMA BlockRangeDataFacts ==
    ASSUME NEW t \in Nat \ {0}, NEW s \in Nat, NEW e \in Nat, s < e
    PROVE  \E n : ChunksOf(get_block_range_data(t, s, e), n, t, s, e)
PROOF
<1> DEFINE n == (e - s + t - 1) \div t
           from(i) == s + (i - 1) * t
           to(i) == IF from(i) + t <= e THEN from(i) + t ELSE e
           c == get_block_range_data(t, s, e)
<1>1. n \in Nat /\ n >= 1 /\ n * t >= e - s /\ (n - 1) * t < e - s
  <2>1. e - s \in Nat \ {0}
    OBVIOUS
  <2> QED BY <2>1, ChunkCount
<1> HIDE DEF n
<1>2. ASSUME NEW i \in 1 .. n
      PROVE  /\ from(i) \in Nat
             /\ s <= from(i)
             /\ from(i) < e
             /\ from(i + 1) = from(i) + t
  <2>1. i - 1 \in Nat /\ n - 1 \in Nat /\ i - 1 <= n - 1
    BY <1>1
  <2>2. (i - 1) * t <= (n - 1) * t /\ (i - 1) * t \in Nat
    BY <2>1, TimesMonotonic
  <2>3. (i + 1 - 1) * t = (i - 1) * t + t
    OBVIOUS
  <2> QED BY <1>1, <2>2, <2>3
<1>3. ASSUME NEW i \in 1 .. n
      PROVE  /\ to(i) \in Nat
             /\ from(i) < to(i)
             /\ to(i) <= from(i) + t
             /\ to(i) <= e
  BY <1>2
<1>4. ASSUME NEW i \in 1 .. n, NEW j \in 1 .. n, i < j
      PROVE  to(i) <= from(j)
  <2>1. i * t <= (j - 1) * t
    <3>1. i \in Nat /\ j - 1 \in Nat /\ i <= j - 1
      BY <1>4, <1>1
    <3> QED BY <3>1, TimesMonotonic
  <2>2. from(i) + t <= from(j)
    BY <2>1
  <2> QED BY <2>2, <1>3, <1>2
<1>5. ASSUME NEW i \in 1 .. n, i > 1
      PROVE  from(i) = to(i - 1)
  <2>1. i - 1 \in 1 .. n /\ i - 1 + 1 = i
    BY <1>5, <1>1
  <2>2. from(i) = from(i - 1) + t
    BY <1>2, <2>1
  <2>3. from(i) < e
    BY <1>2
  <2> QED BY <2>2, <2>3, <1>2, <2>1
<1>6. from(1) = s /\ to(n) = e
  <2>1. from(1) = s
    OBVIOUS
  <2>2. from(n) + t = s + n * t
    BY <1>1
  <2>3. from(n) + t >= e
    BY <2>2, <1>1
  <2>4. from(n) \in Nat
    BY <1>1, <1>2
  <2>5. to(n) = e
    <3> HIDE DEF from
    <3> QED BY <2>3, <2>4
  <2> QED BY <2>1, <2>5
<1>7. /\ c.startBlocks = [i \in 1 .. n |-> from(i)]
      /\ c.endBlocks = [i \in 1 .. n |-> to(i)]
      /\ c.headerHashes = [i \in 1 .. n |-> HeaderHash(to(i))]
      /\ c.dataRootCommitments =
             [i \in 1 .. n |-> DataRootCommitment(from(i), to(i), t)]
      /\ c.stateRootCommitments =
             [i \in 1 .. n |-> StateRootCommitment(from(i), to(i), t)]
      /\ c.endAuthoritySetId = SetId[e]
      /\ c.endAuthoritySetHash = AuthoritySetHash(SetId[e])
  BY DEF get_block_range_data, n
<1> HIDE DEF from, to, c
<1>8. c.endBlocks \in Seq(Nat) /\ Len(c.endBlocks) = n
  BY <1>7, <1>3, <1>1
<1>9. ChunksOf(c, n, t, s, e)
  <2>1. n \in Nat \ {0} /\ 1 \in 1 .. n /\ n \in 1 .. n
    BY <1>1
  <2>2. /\ DOMAIN c.startBlocks = 1 .. n
        /\ DOMAIN c.endBlocks = 1 .. n
        /\ c.startBlocks[1] = s
        /\ c.endBlocks[n] = e
    BY <2>1, <1>7, <1>6
  <2>3. \A i \in 1 .. n : i > 1 => c.startBlocks[i] = c.endBlocks[i - 1]
    <3>1. ASSUME NEW i \in 1 .. n, i > 1 PROVE i - 1 \in 1 .. n
      BY <3>1, <1>1
    <3> QED BY <3>1, <1>5, <1>7
  <2>4. \A i, j \in 1 .. n : i < j => c.endBlocks[i] <= c.startBlocks[j]
    BY <1>4, <1>7
  <2>5. ASSUME NEW i \in 1 .. n
        PROVE  /\ c.startBlocks[i] = from(i) /\ c.endBlocks[i] = to(i)
               /\ c.headerHashes[i] = HeaderHash(to(i))
               /\ c.dataRootCommitments[i] = DataRootCommitment(from(i), to(i), t)
               /\ c.stateRootCommitments[i] = StateRootCommitment(from(i), to(i), t)
    BY <1>7
  <2>6. \A i \in 1 .. n :
            /\ c.startBlocks[i] \in Nat
            /\ c.endBlocks[i] \in Nat
            /\ s <= c.startBlocks[i]
            /\ c.startBlocks[i] < c.endBlocks[i]
            /\ c.endBlocks[i] <= c.startBlocks[i] + t
            /\ c.endBlocks[i] <= e
    BY <2>5, <1>2, <1>3
  <2>7. \A i \in 1 .. n :
            /\ c.headerHashes[i] = HeaderHash(c.endBlocks[i])
            /\ c.dataRootCommitments[i] =
                   DataRootCommitment(c.startBlocks[i], c.endBlocks[i], t)
            /\ c.stateRootCommitments[i] =
                   StateRootCommitment(c.startBlocks[i], c.endBlocks[i], t)
    BY <2>5
  <2>8. /\ c.endAuthoritySetId = SetId[e]
        /\ c.endAuthoritySetHash = AuthoritySetHash(SetId[e])
    BY <1>7
  <2> QED BY <2>1, <2>2, <2>3, <2>4, <2>6, <2>7, <2>8, <1>8 DEF ChunksOf
<1> QED BY <1>9 DEF c


-----------------------------------------------------------------------------
(* The inductive invariant holds initially and is kept by every action.    *)

\* The zeroed storage of the proxy satisfies the invariant.
LEMMA InitIInv == Init => IInv
PROOF
<1> SUFFICES ASSUME Init PROVE IInv
  OBVIOUS
<1> USE DEF Init
<1>1. TypeOK
  <2>1. 0 \in Heights /\ 1 \in Heights \ {0} /\ 0 \in AuthoritySetIds
    BY ChainAssumption, SetIdFacts DEF Heights, AuthoritySetIds
  <2> QED BY <2>1 DEF TypeOK, ConfigurationOK
<1>2. Uninitialized /\ TreeSizeMatches /\ AuthorityWindow
  BY DEF Uninitialized, TreeSizeMatches, AuthorityWindow
<1>3. HeadersCanonical /\ AuthoritySetsCanonical
  BY DEF HeadersCanonical, AuthoritySetsCanonical
<1>4. RangeCommitmentsCanonical
  BY DEF RangeCommitmentsCanonical
<1>5. RangesTile
  BY DEF RangesTile
<1> QED BY <1>1, <1>2, <1>3, <1>4, <1>5 DEF IInv

\* Avail finalizes a block: the contract does not change and the chain only
\* grows.
LEMMA AvailStepIInv == IInv /\ AvailStep => IInv'
PROOF
<1> SUFFICES ASSUME IInv, AvailStep PROVE IInv'
  OBVIOUS
<1>1. /\ head \in Heights \ {0}
      /\ head' = head + 1
      /\ head' \in Heights \ {0}
      /\ SetId[head] <= SetId[head'] /\ SetId[head] \in Nat /\ SetId[head'] \in Nat
  <2>1. head \in Heights \ {0} /\ head' = head + 1 /\ head < MaxBlock
    BY DEF IInv, TypeOK, AvailStep, Finalize
  <2>2. head' \in Heights \ {0} /\ head <= head'
    BY <2>1, ChainAssumption DEF Heights
  <2> QED BY <2>1, <2>2, SetIdFacts
<1>2. UNCHANGED <<contractVars, requestVars>>
  BY DEF AvailStep
<1> USE DEF contractVars, requestVars, pointerVars, configVars, hashVars, rangeVars
<1>3. TypeOK'
  BY <1>1, <1>2 DEF IInv, TypeOK, ConfigurationOK
<1>4. Uninitialized' /\ TreeSizeMatches' /\ AuthorityWindow'
  BY <1>2 DEF IInv, Uninitialized, TreeSizeMatches, AuthorityWindow
<1>5. HeadersCanonical'
  BY <1>1, <1>2, SetIdFacts DEF IInv, HeadersCanonical
<1>6. AuthoritySetsCanonical'
  BY <1>1, <1>2, SetIdFacts DEF IInv, AuthoritySetsCanonical
<1>7. RangeCommitmentsCanonical'
  BY <1>2 DEF IInv, RangeCommitmentsCanonical
<1>8. RangesTile' /\ (genesis <= latestBlock)'
  BY <1>2 DEF IInv, RangesTile
<1> QED BY <1>3, <1>4, <1>5, <1>6, <1>7, <1>8 DEF IInv

\* Requests and abandoned requests leave the contract's storage alone.
LEMMA RequestIInv ==
    IInv /\ UNCHANGED <<head, contractVars>> /\ TypeOK' => IInv'
PROOF
<1> SUFFICES ASSUME IInv, UNCHANGED <<head, contractVars>>, TypeOK' PROVE IInv'
  OBVIOUS
<1> USE DEF contractVars, pointerVars, configVars, hashVars, rangeVars
<1>1. Uninitialized' /\ TreeSizeMatches' /\ AuthorityWindow'
  BY DEF IInv, Uninitialized, TreeSizeMatches, AuthorityWindow
<1>2. HeadersCanonical' /\ AuthoritySetsCanonical'
  BY DEF IInv, HeadersCanonical, AuthoritySetsCanonical
<1>3. RangeCommitmentsCanonical'
  BY DEF IInv, RangeCommitmentsCanonical
<1>4. RangesTile' /\ (genesis <= latestBlock)'
  BY DEF IInv, RangesTile
<1> QED BY <1>1, <1>2, <1>3, <1>4 DEF IInv

\* A request for a proof, made by anyone, changes nothing but the requests; it
\* carries hashes that are not zero.
LEMMA RequestStepIInv == IInv /\ RequestStep => IInv'
PROOF
<1> SUFFICES ASSUME IInv, RequestStep PROVE IInv'
  OBVIOUS
<1> USE DEF contractVars, pointerVars, configVars, hashVars, rangeVars
<1>1. ASSUME NEW id \in AuthoritySetIds, NEW target \in Heights,
             requestHeaderRange(id, target)
      PROVE  UNCHANGED <<head, contractVars>> /\ TypeOK'
  <2>1. initialized
    BY <1>1 DEF requestHeaderRange, IInv, TypeOK, Uninitialized
  <2>2. HeaderRangeInput(id, target) \in HeaderRangeInputs
    BY <1>1 DEF requestHeaderRange, HeaderRangeInput, HeaderRangeInputs, IInv,
                TypeOK, HeaderHashes, AuthoritySetHashes
  <2>3. [gateway |-> gateway, functionId |-> headerRangeFunctionId,
         input |-> HeaderRangeInput(id, target)] \in HeaderRangeRequestType
    BY <2>1, <2>2 DEF HeaderRangeRequestType, IInv, TypeOK, ConfigurationOK
  <2>4. headerRangeRequests' \subseteq HeaderRangeRequestType
    BY <1>1, <2>3 DEF requestHeaderRange, IInv, TypeOK
  <2> QED BY <1>1, <2>4 DEF requestHeaderRange, IInv, TypeOK, ConfigurationOK
<1>2. ASSUME NEW id \in 0 .. SetId[MaxBlock], requestRotate(id)
      PROVE  UNCHANGED <<head, contractVars>> /\ TypeOK'
  <2>1. id \in AuthoritySetIds
    BY ChainAssumption DEF AuthoritySetIds, Heights
  <2>2. initialized
    BY <1>2, <2>1 DEF requestRotate, IInv, TypeOK, Uninitialized
  <2>3. RotateInput(id) \in RotateInputs
    BY <1>2, <2>1 DEF requestRotate, RotateInput, RotateInputs, IInv, TypeOK,
                      AuthoritySetHashes
  <2>4. [gateway |-> gateway, functionId |-> rotateFunctionId,
         input |-> RotateInput(id)] \in RotateRequestType
    BY <2>2, <2>3 DEF RotateRequestType, IInv, TypeOK, ConfigurationOK
  <2>5. rotateRequests' \subseteq RotateRequestType
    BY <1>2, <2>4 DEF requestRotate, IInv, TypeOK
  <2> QED BY <1>2, <2>5 DEF requestRotate, IInv, TypeOK, ConfigurationOK
<1> QED BY <1>1, <1>2, RequestIInv DEF RequestStep

\* Dropping a request preserves the invariant.
LEMMA AbandonIInv == IInv /\ Abandon => IInv'
PROOF
<1> SUFFICES ASSUME IInv, Abandon PROVE IInv'
  OBVIOUS
<1>1. UNCHANGED <<head, contractVars>>
  BY DEF Abandon
<1>2. /\ headerRangeRequests' \subseteq headerRangeRequests
      /\ rotateRequests' \subseteq rotateRequests
  BY DEF Abandon
<1>3. TypeOK'
  BY <1>1, <1>2 DEF IInv, TypeOK, ConfigurationOK, contractVars, pointerVars,
                    configVars, hashVars, rangeVars
<1> QED BY <1>1, <1>3, RequestIInv


\* A genesis state at a finalized block b is canonical: what initialize and
\* updateGenesisState have in common.
LEMMA GenesisHashes ==
    ASSUME IInv, NEW b \in FinalizedHeights,
           blockHeightToHeaderHash' =
               [blockHeightToHeaderHash EXCEPT ![b] = HeaderHash(b)],
           authoritySetIdToHash' =
               [authoritySetIdToHash EXCEPT ![SetId[b]] = AuthoritySetHash(SetId[b])],
           latestBlock' = b,
           latestAuthoritySetId' = SetId[b],
           head' = head
    PROVE  /\ b \in Heights \ {0}
           /\ SetId[b] \in AuthoritySetIds
           /\ blockHeightToHeaderHash' \in [Heights -> HeaderHashes \cup {Zero}]
           /\ authoritySetIdToHash' \in
                  [AuthoritySetIds -> AuthoritySetHashes \cup {Zero}]
           /\ HeadersCanonical'
           /\ AuthoritySetsCanonical'
           /\ AuthorityWindow'
           /\ \A c \in Heights : blockHeightToHeaderHash[c] # Zero =>
                  blockHeightToHeaderHash'[c] # Zero
PROOF
<1>1. b \in Heights \ {0} /\ b <= head /\ head \in Heights
  BY ChainAssumption DEF IInv, TypeOK, FinalizedHeights, Heights
<1>2. SetId[b] \in AuthoritySetIds /\ SetId[b] <= SetId[head]
  BY <1>1, SetIdFacts
<1>3. HeaderHash(b) \in HeaderHashes /\ AuthoritySetHash(SetId[b]) \in AuthoritySetHashes
  BY <1>1, <1>2 DEF HeaderHashes, AuthoritySetHashes
<1>4. /\ blockHeightToHeaderHash' \in [Heights -> HeaderHashes \cup {Zero}]
      /\ authoritySetIdToHash' \in [AuthoritySetIds -> AuthoritySetHashes \cup {Zero}]
  BY <1>1, <1>2, <1>3 DEF IInv, TypeOK
<1>5. HeadersCanonical'
  BY <1>1 DEF IInv, TypeOK, HeadersCanonical
<1>6. AuthoritySetsCanonical'
  BY <1>2 DEF IInv, TypeOK, AuthoritySetsCanonical
<1>7. /\ blockHeightToHeaderHash'[b] = HeaderHash(b)
      /\ authoritySetIdToHash'[SetId[b]] = AuthoritySetHash(SetId[b])
  BY <1>1, <1>2 DEF IInv, TypeOK
<1>8. AuthorityWindow'
  <2>1. b > 0
    BY <1>1 DEF Heights
  <2> QED BY <1>7, <2>1, HashNotZero DEF AuthorityWindow
<1>9. \A c \in Heights : blockHeightToHeaderHash[c] # Zero =>
          blockHeightToHeaderHash'[c] # Zero
  BY <1>1, HashNotZero DEF IInv, TypeOK
<1> QED BY <1>1, <1>2, <1>4, <1>5, <1>6, <1>8, <1>9

\* Nothing is stored under a range whose headers disappear: the ranges stay
\* canonical while hashes are only added.
LEMMA RangesKeptCanonical ==
    ASSUME IInv,
           UNCHANGED <<dataRootCommitments, stateRootCommitments, rangeStartBlocks>>,
           \A c \in Heights : blockHeightToHeaderHash[c] # Zero =>
               blockHeightToHeaderHash'[c] # Zero
    PROVE  RangeCommitmentsCanonical'
PROOF
<1> SUFFICES ASSUME NEW k \in RangeKeys, dataRootCommitments[k] # Zero
             PROVE  /\ blockHeightToHeaderHash'[k[1]] # Zero
                    /\ blockHeightToHeaderHash'[k[2]] # Zero
  BY DEF IInv, RangeCommitmentsCanonical
<1>1. k[1] \in Heights /\ k[2] \in Heights
  BY DEF RangeKeys
<1> QED BY <1>1 DEF IInv, RangeCommitmentsCanonical

\* initialize with the parameters of bin/genesis.rs establishes what the
\* invariant says of an initialized contract.
LEMMA InitializeIInv == IInv /\ InitializeStep => IInv'
PROOF
<1> SUFFICES ASSUME IInv, InitializeStep PROVE IInv'
  OBVIOUS
<1>1. PICK b \in FinalizedHeights, gw \in Gateways, hr \in HeaderRangeFunctions,
           rot \in RotateFunctions :
           initialize(GenesisParameters(b), gw, hr, rot, TreeSizeOf[hr])
  BY DEF InitializeStep
<1>2. /\ ~ initialized /\ initialized'
      /\ gateway' = gw /\ headerRangeFunctionId' = hr /\ rotateFunctionId' = rot
      /\ headerRangeCommitmentTreeSize' = TreeSizeOf[hr]
      /\ latestBlock' = b /\ latestAuthoritySetId' = SetId[b] /\ genesis' = b
      /\ blockHeightToHeaderHash' =
             [blockHeightToHeaderHash EXCEPT ![b] = HeaderHash(b)]
      /\ authoritySetIdToHash' =
             [authoritySetIdToHash EXCEPT ![SetId[b]] = AuthoritySetHash(SetId[b])]
      /\ UNCHANGED <<head, frozen, rangeVars, requestVars, guardianCalls>>
  BY <1>1 DEF initialize, GenesisParameters
<1> USE DEF rangeVars, requestVars
<1>3. /\ b \in Heights \ {0}
      /\ SetId[b] \in AuthoritySetIds
      /\ blockHeightToHeaderHash' \in [Heights -> HeaderHashes \cup {Zero}]
      /\ authoritySetIdToHash' \in [AuthoritySetIds -> AuthoritySetHashes \cup {Zero}]
      /\ HeadersCanonical'
      /\ AuthoritySetsCanonical'
      /\ AuthorityWindow'
      /\ \A c \in Heights : blockHeightToHeaderHash[c] # Zero =>
             blockHeightToHeaderHash'[c] # Zero
  BY <1>2, GenesisHashes
<1>4. TypeOK'
  <2>1. TreeSizeOf[hr] \in TreeSizes
    BY DEF TreeSizes
  <2> QED BY <1>2, <1>3, <2>1 DEF IInv, TypeOK, ConfigurationOK
<1>5. Uninitialized' /\ TreeSizeMatches'
  BY <1>2 DEF Uninitialized, TreeSizeMatches
<1>6. RangeCommitmentsCanonical'
  BY <1>2, <1>3, RangesKeptCanonical
<1>7. RangesTile' /\ (genesis <= latestBlock)'
  <2>1. lineage' = {} /\ b \in Nat
    BY <1>2, <1>3, SetIdFacts DEF IInv, Uninitialized
  <2> QED BY <1>2, <2>1 DEF RangesTile
<1> QED BY <1>3, <1>4, <1>5, <1>6, <1>7 DEF IInv

\* updateGenesisState, ahead or behind, keeps the hashes canonical and starts a
\* new lineage.
LEMMA GenesisIInv == IInv /\ GenesisStep => IInv'
PROOF
<1> SUFFICES ASSUME IInv, GenesisStep PROVE IInv'
  OBVIOUS
<1>1. PICK b \in FinalizedHeights : updateGenesisState(GenesisParameters(b))
  BY DEF GenesisStep
<1>2. /\ initialized /\ guardianCalls' = guardianCalls + 1
      /\ latestBlock' = b /\ latestAuthoritySetId' = SetId[b]
      /\ genesis' = b /\ lineage' = {}
      /\ blockHeightToHeaderHash' =
             [blockHeightToHeaderHash EXCEPT ![b] = HeaderHash(b)]
      /\ authoritySetIdToHash' =
             [authoritySetIdToHash EXCEPT ![SetId[b]] = AuthoritySetHash(SetId[b])]
      /\ UNCHANGED <<head, initialized, frozen, configVars, dataRootCommitments,
                     stateRootCommitments, rangeStartBlocks, stored, requestVars>>
  BY <1>1 DEF updateGenesisState, GenesisParameters, onlyGuardian
<1> USE DEF configVars, requestVars
<1>3. /\ b \in Heights \ {0}
      /\ SetId[b] \in AuthoritySetIds
      /\ blockHeightToHeaderHash' \in [Heights -> HeaderHashes \cup {Zero}]
      /\ authoritySetIdToHash' \in [AuthoritySetIds -> AuthoritySetHashes \cup {Zero}]
      /\ HeadersCanonical'
      /\ AuthoritySetsCanonical'
      /\ AuthorityWindow'
      /\ \A c \in Heights : blockHeightToHeaderHash[c] # Zero =>
             blockHeightToHeaderHash'[c] # Zero
  BY <1>2, GenesisHashes
<1>4. TypeOK'
  BY <1>2, <1>3 DEF IInv, TypeOK, ConfigurationOK
<1>5. Uninitialized' /\ TreeSizeMatches'
  BY <1>2 DEF IInv, Uninitialized, TreeSizeMatches
<1>6. RangeCommitmentsCanonical'
  BY <1>2, <1>3, RangesKeptCanonical
<1>7. RangesTile' /\ (genesis <= latestBlock)'
  <2>1. b \in Nat
    BY <1>3, SetIdFacts
  <2> QED BY <1>2, <2>1 DEF RangesTile
<1> QED BY <1>3, <1>4, <1>5, <1>6, <1>7 DEF IInv

\* The guardian's configuration calls change no hash, no range and no pointer.
LEMMA ConfigurationIInv == IInv /\ ConfigurationStep => IInv'
PROOF
<1> SUFFICES ASSUME IInv, ConfigurationStep PROVE IInv'
  OBVIOUS
<1> USE DEF pointerVars, configVars, hashVars, rangeVars, requestVars
<1>1. /\ initialized /\ initialized'
      /\ guardianCalls' = guardianCalls + 1
      /\ UNCHANGED <<head, pointerVars, hashVars, rangeVars, requestVars, genesis>>
      /\ frozen' \in BOOLEAN
      /\ gateway' \in Gateways
      /\ headerRangeFunctionId' \in HeaderRangeFunctions
      /\ rotateFunctionId' \in RotateFunctions
      /\ headerRangeCommitmentTreeSize' = TreeSizeOf[headerRangeFunctionId']
  <2>1. CASE \E freeze \in BOOLEAN : updateFreeze(freeze)
    BY <2>1 DEF updateFreeze, onlyGuardian, IInv, TypeOK, ConfigurationOK, TreeSizeMatches
  <2>2. CASE \E hr \in HeaderRangeFunctions, rot \in RotateFunctions :
                 updateFunctionIds(hr, rot, TreeSizeOf[hr])
    BY <2>2 DEF updateFunctionIds, onlyGuardian, IInv, TypeOK, ConfigurationOK
  <2>3. CASE \E gw \in Gateways : updateGateway(gw)
    BY <2>3 DEF updateGateway, onlyGuardian, IInv, TypeOK, ConfigurationOK, TreeSizeMatches
  <2> QED BY <2>1, <2>2, <2>3 DEF ConfigurationStep
<1>2. headerRangeCommitmentTreeSize' \in TreeSizes
  BY <1>1 DEF TreeSizes
<1>3. TypeOK'
  BY <1>1, <1>2 DEF IInv, TypeOK, ConfigurationOK
<1>4. Uninitialized' /\ TreeSizeMatches' /\ AuthorityWindow'
  BY <1>1 DEF IInv, Uninitialized, TreeSizeMatches, AuthorityWindow
<1>5. HeadersCanonical' /\ AuthoritySetsCanonical'
  BY <1>1 DEF IInv, HeadersCanonical, AuthoritySetsCanonical
<1>6. RangeCommitmentsCanonical'
  BY <1>1 DEF IInv, RangeCommitmentsCanonical
<1>7. RangesTile' /\ (genesis <= latestBlock)'
  BY <1>1 DEF IInv, RangesTile
<1> QED BY <1>3, <1>4, <1>5, <1>6, <1>7 DEF IInv


\* A relayed rotate proof adds the hash of the next set, never over another.
LEMMA RotateIInv ==
    ASSUME IInv, NEW r \in rotateRequests, rotate(r)
    PROVE  IInv'
PROOF
<1> DEFINE id == r.input.currentAuthoritySetId
<1>1. id \in AuthoritySetIds
  BY DEF IInv, TypeOK, RotateRequestType, RotateInputs
<1>2. /\ authoritySetIdToHash[id] # Zero
      /\ last_justified_block(id, head) # 0
      /\ authoritySetIdToHash[id + 1] = Zero
      /\ authoritySetIdToHash' =
             [authoritySetIdToHash EXCEPT ![id + 1] = AuthoritySetHash(id + 1)]
      /\ UNCHANGED <<head, initialized, frozen, pointerVars, configVars,
                     blockHeightToHeaderHash, rangeVars, requestVars, genesis,
                     guardianCalls>>
  BY DEF rotate, RotateAccepts, RotateOutput
<1>3. head \in Heights
  BY DEF IInv, TypeOK
<1> HIDE DEF id
<1> USE DEF pointerVars, configVars, rangeVars, requestVars
<1>4. id + 1 \in AuthoritySetIds /\ id + 1 <= SetId[head]
  BY <1>1, <1>2, <1>3, LastJustifiedBlockFacts
<1>5. TypeOK'
  <2>1. AuthoritySetHash(id + 1) \in AuthoritySetHashes
    BY <1>4 DEF AuthoritySetHashes
  <2>2. authoritySetIdToHash' \in [AuthoritySetIds -> AuthoritySetHashes \cup {Zero}]
    BY <1>2, <1>4, <2>1 DEF IInv, TypeOK
  <2> QED BY <1>2, <2>2 DEF IInv, TypeOK, ConfigurationOK
<1>6. Uninitialized' /\ TreeSizeMatches'
  BY <1>1, <1>2 DEF IInv, Uninitialized, TreeSizeMatches
<1>7. AuthoritySetsCanonical'
  BY <1>2, <1>4 DEF IInv, TypeOK, AuthoritySetsCanonical
<1>8. AuthorityWindow'
  <2>1. \A i \in AuthoritySetIds : authoritySetIdToHash[i] # Zero =>
            authoritySetIdToHash'[i] # Zero
    BY <1>2, <1>4, HashNotZero DEF IInv, TypeOK
  <2> QED BY <1>2, <2>1 DEF IInv, TypeOK, AuthorityWindow
<1>9. HeadersCanonical' /\ RangeCommitmentsCanonical'
  BY <1>2 DEF IInv, HeadersCanonical, RangeCommitmentsCanonical
<1>10. RangesTile' /\ (genesis <= latestBlock)'
  BY <1>2 DEF IInv, RangesTile
<1> QED BY <1>5, <1>6, <1>7, <1>8, <1>9, <1>10 DEF IInv

\* A relayed header range proof extends the light client by one range.
LEMMA CommitIInv ==
    ASSUME IInv, NEW r \in headerRangeRequests, commitHeaderRange(r)
    PROVE  IInv' /\ (AnnouncedTreeSize => AnnouncedTreeSize')
PROOF
<1> DEFINE id == r.input.authoritySetId
           target == r.input.targetBlock
           t == TreeSizeOf[headerRangeFunctionId]
           key == <<latestBlock, target>>
           data == DataRootCommitment(latestBlock, target, t)
           state == StateRootCommitment(latestBlock, target, t)
<1>1. /\ id \in AuthoritySetIds
      /\ target \in Heights
      /\ latestBlock \in Heights
      /\ head \in Heights
      /\ latestAuthoritySetId \in AuthoritySetIds
  BY DEF IInv, TypeOK, HeaderRangeRequestType, HeaderRangeInputs
<1>2. /\ r.functionId = headerRangeFunctionId
      /\ r.input.trustedBlock = latestBlock
  BY DEF commitHeaderRange, verifiedCall, HeaderRangeInput
<1>3. /\ latestBlock < target
      /\ target <= latestBlock + t
      /\ target <= head
      /\ SignerOf(target) = id
      /\ blockHeightToHeaderHash[latestBlock] # Zero
      /\ authoritySetIdToHash[id] # Zero
      /\ id >= latestAuthoritySetId
      /\ latestAuthoritySetId' =
             IF id > latestAuthoritySetId THEN id ELSE latestAuthoritySetId
  BY <1>2 DEF commitHeaderRange, HeaderRangeAccepts, NotOldAuthoritySet
<1>4. /\ blockHeightToHeaderHash' =
             [blockHeightToHeaderHash EXCEPT ![target] = HeaderHash(target)]
      /\ dataRootCommitments' = [dataRootCommitments EXCEPT ![key] = data]
      /\ stateRootCommitments' = [stateRootCommitments EXCEPT ![key] = state]
      /\ rangeStartBlocks' = [rangeStartBlocks EXCEPT ![key] = latestBlock]
      /\ stored' = stored \cup
             {[startBlock |-> latestBlock, endBlock |-> target,
               dataCommitment |-> data, stateCommitment |-> state,
               treeSize |-> headerRangeCommitmentTreeSize]}
      /\ lineage' = lineage \cup {key}
      /\ latestBlock' = target
      /\ UNCHANGED <<head, initialized, frozen, configVars, authoritySetIdToHash,
                     requestVars, genesis, guardianCalls>>
  BY <1>2 DEF commitHeaderRange, HeaderRangeOutput
<1>5. latestAuthoritySetId' = id
  BY <1>1, <1>3, SetIdFacts
<1>6. initialized /\ headerRangeCommitmentTreeSize = t
      /\ headerRangeFunctionId \in HeaderRangeFunctions
      /\ t \in TreeSizes
  BY <1>1, <1>3 DEF IInv, Uninitialized, TreeSizeMatches, TypeOK, ConfigurationOK,
                    TreeSizes
<1>7. key \in RangeKeys /\ key[1] = latestBlock /\ key[2] = target
  BY <1>1 DEF RangeKeys
<1>8. /\ data \in DataCommitments /\ state \in StateCommitments
      /\ data.tree = t /\ state.tree = t
      /\ HeaderHash(target) \in HeaderHashes
  BY <1>1, <1>6 DEF DataCommitments, StateCommitments, DataRootCommitment,
                    StateRootCommitment, HeaderHashes
<1> HIDE DEF id, target, t, data, state, key
<1> USE DEF configVars, requestVars
<1>9. TypeOK'
  <2>1. [startBlock |-> latestBlock, endBlock |-> target,
         dataCommitment |-> data, stateCommitment |-> state,
         treeSize |-> headerRangeCommitmentTreeSize] \in EventType
    BY <1>1, <1>6, <1>8 DEF EventType
  <2>2. stored' \subseteq EventType
    BY <1>4, <2>1 DEF IInv, TypeOK
  <2>3. /\ blockHeightToHeaderHash' \in [Heights -> HeaderHashes \cup {Zero}]
        /\ dataRootCommitments' \in [RangeKeys -> DataCommitments \cup {Zero}]
        /\ stateRootCommitments' \in [RangeKeys -> StateCommitments \cup {Zero}]
        /\ rangeStartBlocks' \in [RangeKeys -> Heights]
        /\ lineage' \subseteq RangeKeys
    BY <1>1, <1>4, <1>7, <1>8 DEF IInv, TypeOK
  <2> QED BY <1>1, <1>4, <1>5, <2>2, <2>3 DEF IInv, TypeOK, ConfigurationOK
<1>10. Uninitialized' /\ TreeSizeMatches'
  BY <1>4, <1>6 DEF IInv, Uninitialized, TreeSizeMatches
<1>11. HeadersCanonical'
  BY <1>1, <1>3, <1>4 DEF IInv, TypeOK, HeadersCanonical
<1>12. AuthoritySetsCanonical'
  BY <1>4 DEF IInv, AuthoritySetsCanonical
<1>13. /\ blockHeightToHeaderHash'[target] = HeaderHash(target)
       /\ \A c \in Heights : blockHeightToHeaderHash[c] # Zero =>
              blockHeightToHeaderHash'[c] # Zero
  BY <1>1, <1>4, HashNotZero DEF IInv, TypeOK
<1>14. AuthorityWindow'
  BY <1>1, <1>3, <1>4, <1>5, <1>13, HashNotZero, SetIdFacts DEF AuthorityWindow
<1>15. RangeCommitmentsCanonical'
  <2> SUFFICES ASSUME NEW k \in RangeKeys, dataRootCommitments'[k] # Zero
               PROVE  /\ k[1] < k[2]
                      /\ \E u \in TreeSizes :
                             /\ dataRootCommitments'[k] = DataRootCommitment(k[1], k[2], u)
                             /\ stateRootCommitments'[k] = StateRootCommitment(k[1], k[2], u)
                             /\ k[2] <= k[1] + u
                      /\ rangeStartBlocks'[k] = k[1]
                      /\ blockHeightToHeaderHash'[k[1]] # Zero
                      /\ blockHeightToHeaderHash'[k[2]] # Zero
    BY DEF RangeCommitmentsCanonical
  <2>1. CASE k = key
    <3>1. /\ dataRootCommitments'[k] = data
          /\ stateRootCommitments'[k] = state
          /\ rangeStartBlocks'[k] = latestBlock
      BY <2>1, <1>4, <1>7 DEF IInv, TypeOK
    <3> QED BY <2>1, <3>1, <1>1, <1>3, <1>6, <1>7, <1>13, HashNotZero DEF data, state
  <2>2. CASE k # key
    <3>1. /\ dataRootCommitments'[k] = dataRootCommitments[k]
          /\ stateRootCommitments'[k] = stateRootCommitments[k]
          /\ rangeStartBlocks'[k] = rangeStartBlocks[k]
      BY <2>2, <1>4, <1>7 DEF IInv, TypeOK
    <3>2. k[1] \in Heights /\ k[2] \in Heights
      BY DEF RangeKeys
    <3> QED BY <3>1, <3>2, <1>13 DEF IInv, RangeCommitmentsCanonical
  <2> QED BY <2>1, <2>2
<1>16. RangesTile' /\ (genesis <= latestBlock)'
  <2>1. /\ genesis \in Nat /\ latestBlock \in Nat /\ target \in Nat
        /\ genesis <= latestBlock /\ genesis' = genesis
    BY <1>1, <1>4, SetIdFacts DEF IInv, TypeOK
  <2>2. ASSUME NEW k \in lineage
        PROVE  /\ k \in RangeKeys /\ k[1] \in Nat /\ k[2] \in Nat
               /\ genesis <= k[1] /\ k[2] <= latestBlock
               /\ dataRootCommitments[k] # Zero
    BY SetIdFacts DEF IInv, TypeOK, RangesTile, RangeKeys
  <2>3. ASSUME NEW k \in lineage'
        PROVE  /\ genesis <= k[1]
               /\ k[2] <= target
               /\ dataRootCommitments'[k] # Zero
    <3>1. CASE k = key
      BY <3>1, <2>1, <1>4, <1>7, HashNotZero DEF IInv, TypeOK, data
    <3>2. CASE k # key
      <4>1. k \in lineage
        BY <3>2, <1>4
      <4> QED BY <3>2, <4>1, <2>1, <2>2, <1>3, <1>4, <1>7 DEF IInv, TypeOK
    <3> QED BY <3>1, <3>2
  <2>4. ASSUME NEW b \in genesis + 1 .. target
        PROVE  \E k \in lineage' :
                   Covers(k, b) /\ \A l \in lineage' : Covers(l, b) => l = k
    <3>1. CASE b <= latestBlock
      <4>1. PICK k \in lineage :
                Covers(k, b) /\ \A l \in lineage : Covers(l, b) => l = k
        BY <3>1, <2>1 DEF IInv, RangesTile
      <4>2. ~ Covers(key, b)
        BY <3>1, <1>7, <2>1 DEF Covers
      <4> QED BY <4>1, <4>2, <1>4
    <3>2. CASE b > latestBlock
      <4>1. Covers(key, b)
        BY <3>2, <1>7, <2>1 DEF Covers
      <4>2. \A l \in lineage : ~ Covers(l, b)
        BY <3>2, <2>1, <2>2 DEF Covers
      <4> QED BY <4>1, <4>2, <1>4
    <3> QED BY <3>1, <3>2, <2>1
  <2>5. RangesTile'
    BY <2>1, <2>3, <2>4, <1>4 DEF RangesTile
  <2> QED BY <2>1, <2>5, <1>3, <1>4
<1>17. AnnouncedTreeSize => AnnouncedTreeSize'
  BY <1>4, <1>6, <1>8 DEF AnnouncedTreeSize
<1> QED BY <1>9, <1>10, <1>11, <1>12, <1>14, <1>15, <1>16, <1>17 DEF IInv


\* A filled block range extends the light client by consecutive ranges,
\* whichever circuit's tree size the calldata was computed with; the events
\* announce the right size if it is the one in storage.
LEMMA FillDataIInv ==
    ASSUME IInv, NEW t \in TreeSizes, NEW e \in latestBlock + 1 .. head,
           NEW c, c = get_block_range_data(t, latestBlock, e),
           updateBlockRangeData(c)
    PROVE  /\ IInv'
           /\ AnnouncedTreeSize /\ t = headerRangeCommitmentTreeSize =>
                  AnnouncedTreeSize'
PROOF
<1>2. /\ initialized /\ guardianCalls' = guardianCalls + 1
      /\ headerRangeCommitmentTreeSize \in TreeSizes
  BY DEF updateBlockRangeData, onlyGuardian, IInv, TypeOK, ConfigurationOK
<1>3. /\ latestBlock \in Heights /\ latestBlock \in Nat
      /\ head \in Heights
      /\ e \in Heights \ {0} /\ e \in Nat
      /\ latestBlock < e
      /\ e <= head
      /\ t \in Nat \ {0}
  <2>1. latestBlock \in Heights /\ head \in Heights
    BY DEF IInv, TypeOK
  <2>2. t \in Nat \ {0}
    BY ContractAssumption DEF TreeSizes
  <2> QED BY <2>1, <2>2, ChainAssumption DEF Heights
<1>4. PICK n : ChunksOf(c, n, t, latestBlock, e)
  BY <1>3, BlockRangeDataFacts
<1> DEFINE keys == [i \in 1 .. n |-> <<c.startBlocks[i], c.endBlocks[i]>>]
           event(i) == [startBlock |-> c.startBlocks[i], endBlock |-> c.endBlocks[i],
                        dataCommitment |-> c.dataRootCommitments[i],
                        stateCommitment |-> c.stateRootCommitments[i],
                        treeSize |-> headerRangeCommitmentTreeSize]
<1>5. /\ n \in Nat \ {0}
      /\ DOMAIN c.startBlocks = 1 .. n
      /\ DOMAIN c.endBlocks = 1 .. n
      /\ c.endBlocks[Len(c.endBlocks)] = e
      /\ c.endBlocks[n] = e
      /\ c.startBlocks[1] = latestBlock
      /\ 1 \in 1 .. n /\ n \in 1 .. n
  BY <1>4 DEF ChunksOf
<1>6. /\ dataRootCommitments' =
             WriteAll(dataRootCommitments, keys, c.dataRootCommitments)
      /\ stateRootCommitments' =
             WriteAll(stateRootCommitments, keys, c.stateRootCommitments)
      /\ rangeStartBlocks' = WriteAll(rangeStartBlocks, keys, c.startBlocks)
      /\ blockHeightToHeaderHash' =
             WriteAll(blockHeightToHeaderHash, c.endBlocks, c.headerHashes)
      /\ stored' = stored \cup {event(i) : i \in 1 .. n}
      /\ lineage' = lineage \cup {keys[i] : i \in 1 .. n}
      /\ latestBlock' = e
      /\ authoritySetIdToHash' =
             [authoritySetIdToHash EXCEPT ![SetId[e]] = AuthoritySetHash(SetId[e])]
      /\ latestAuthoritySetId' = SetId[e]
      /\ UNCHANGED <<head, initialized, frozen, configVars, requestVars, genesis>>
  <2>2. /\ c.endAuthoritySetId = SetId[e]
        /\ c.endAuthoritySetHash = AuthoritySetHash(SetId[e])
    BY <1>4 DEF ChunksOf
  <2> QED BY <2>2, <1>5 DEF updateBlockRangeData
<1>7. ASSUME NEW i \in 1 .. n
      PROVE  /\ c.startBlocks[i] \in Heights
             /\ c.endBlocks[i] \in Heights
             /\ latestBlock <= c.startBlocks[i]
             /\ c.startBlocks[i] < c.endBlocks[i]
             /\ c.endBlocks[i] <= c.startBlocks[i] + t
             /\ c.endBlocks[i] <= e
             /\ c.headerHashes[i] = HeaderHash(c.endBlocks[i])
             /\ c.dataRootCommitments[i] =
                    DataRootCommitment(c.startBlocks[i], c.endBlocks[i], t)
             /\ c.stateRootCommitments[i] =
                    StateRootCommitment(c.startBlocks[i], c.endBlocks[i], t)
             /\ keys[i] \in RangeKeys
             /\ keys[i][1] = c.startBlocks[i]
             /\ keys[i][2] = c.endBlocks[i]
  <2>1. /\ c.startBlocks[i] \in Nat
        /\ c.endBlocks[i] \in Nat
        /\ latestBlock <= c.startBlocks[i]
        /\ c.startBlocks[i] < c.endBlocks[i]
        /\ c.endBlocks[i] <= c.startBlocks[i] + t
        /\ c.endBlocks[i] <= e
        /\ c.headerHashes[i] = HeaderHash(c.endBlocks[i])
        /\ c.dataRootCommitments[i] =
               DataRootCommitment(c.startBlocks[i], c.endBlocks[i], t)
        /\ c.stateRootCommitments[i] =
               StateRootCommitment(c.startBlocks[i], c.endBlocks[i], t)
    BY <1>4 DEF ChunksOf
  <2>2. \A x \in Nat : x <= e => x \in Heights
    BY <1>3, ChainAssumption DEF Heights
  <2>3. c.startBlocks[i] \in Heights /\ c.endBlocks[i] \in Heights
    <3>1. c.startBlocks[i] <= e
      BY <2>1, <1>3
    <3> QED BY <2>1, <2>2, <3>1
  <2> QED BY <2>1, <2>3 DEF RangeKeys, keys
<1>8. ASSUME NEW i \in 1 .. n
      PROVE  /\ c.headerHashes[i] \in HeaderHashes
             /\ c.dataRootCommitments[i] \in DataCommitments
             /\ c.stateRootCommitments[i] \in StateCommitments
             /\ c.dataRootCommitments[i].tree = t
             /\ c.stateRootCommitments[i].tree = t
  <2>1. ASSUME NEW x \in Heights, NEW y \in Heights
        PROVE  /\ HeaderHash(y) \in HeaderHashes
               /\ DataRootCommitment(x, y, t) \in DataCommitments
               /\ StateRootCommitment(x, y, t) \in StateCommitments
               /\ DataRootCommitment(x, y, t).tree = t
               /\ StateRootCommitment(x, y, t).tree = t
    BY <1>3 DEF HeaderHashes, DataCommitments, StateCommitments,
                DataRootCommitment, StateRootCommitment
  <2>2. PICK x \in Heights, y \in Heights :
            /\ c.headerHashes[i] = HeaderHash(y)
            /\ c.dataRootCommitments[i] = DataRootCommitment(x, y, t)
            /\ c.stateRootCommitments[i] = StateRootCommitment(x, y, t)
    BY <1>7
  <2> QED BY <2>1, <2>2
<1> HIDE DEF keys
<1>9. DOMAIN keys = 1 .. n
  BY DEF keys
<1>10. ASSUME NEW k \in RangeKeys
       PROVE  \/ /\ \A i \in 1 .. n : keys[i] # k
                 /\ dataRootCommitments'[k] = dataRootCommitments[k]
                 /\ stateRootCommitments'[k] = stateRootCommitments[k]
                 /\ rangeStartBlocks'[k] = rangeStartBlocks[k]
              \/ \E i \in 1 .. n :
                     /\ keys[i] = k
                     /\ dataRootCommitments'[k] = DataRootCommitment(k[1], k[2], t)
                     /\ stateRootCommitments'[k] = StateRootCommitment(k[1], k[2], t)
                     /\ rangeStartBlocks'[k] = k[1]
                     /\ k[1] < k[2]
                     /\ k[2] <= k[1] + t
  <2>1. /\ k \in DOMAIN dataRootCommitments
        /\ k \in DOMAIN stateRootCommitments
        /\ k \in DOMAIN rangeStartBlocks
        /\ n \in Nat
    BY <1>5 DEF IInv, TypeOK
  <2>2. \/ /\ \A i \in 1 .. n : keys[i] # k
           /\ dataRootCommitments'[k] = dataRootCommitments[k]
        \/ \E i \in 1 .. n :
               keys[i] = k /\ dataRootCommitments'[k] = c.dataRootCommitments[i]
    <3> DEFINE values == c.dataRootCommitments
    <3>1. dataRootCommitments' = WriteAll(dataRootCommitments, keys, values)
      BY <1>6
    <3> HIDE DEF values
    <3>2. \/ /\ \A i \in 1 .. n : keys[i] # k
             /\ dataRootCommitments'[k] = dataRootCommitments[k]
          \/ \E i \in 1 .. n : keys[i] = k /\ dataRootCommitments'[k] = values[i]
      BY <2>1, <1>9, <3>1, WriteAllFacts
    <3> QED BY <3>2 DEF values
  <2>3. \/ /\ \A i \in 1 .. n : keys[i] # k
           /\ stateRootCommitments'[k] = stateRootCommitments[k]
        \/ \E i \in 1 .. n :
               keys[i] = k /\ stateRootCommitments'[k] = c.stateRootCommitments[i]
    <3> DEFINE values == c.stateRootCommitments
    <3>1. stateRootCommitments' = WriteAll(stateRootCommitments, keys, values)
      BY <1>6
    <3> HIDE DEF values
    <3>2. \/ /\ \A i \in 1 .. n : keys[i] # k
             /\ stateRootCommitments'[k] = stateRootCommitments[k]
          \/ \E i \in 1 .. n : keys[i] = k /\ stateRootCommitments'[k] = values[i]
      BY <2>1, <1>9, <3>1, WriteAllFacts
    <3> QED BY <3>2 DEF values
  <2>4. \/ /\ \A i \in 1 .. n : keys[i] # k
           /\ rangeStartBlocks'[k] = rangeStartBlocks[k]
        \/ \E i \in 1 .. n :
               keys[i] = k /\ rangeStartBlocks'[k] = c.startBlocks[i]
    <3> DEFINE values == c.startBlocks
    <3>1. rangeStartBlocks' = WriteAll(rangeStartBlocks, keys, values)
      BY <1>6
    <3> HIDE DEF values
    <3>2. \/ /\ \A i \in 1 .. n : keys[i] # k
             /\ rangeStartBlocks'[k] = rangeStartBlocks[k]
          \/ \E i \in 1 .. n : keys[i] = k /\ rangeStartBlocks'[k] = values[i]
      BY <2>1, <1>9, <3>1, WriteAllFacts
    <3> QED BY <3>2 DEF values
  <2> QED BY <2>2, <2>3, <2>4, <1>7
<1>11. ASSUME NEW b \in Heights
       PROVE  \/ /\ \A i \in 1 .. n : c.endBlocks[i] # b
                 /\ blockHeightToHeaderHash'[b] = blockHeightToHeaderHash[b]
              \/ /\ \E i \in 1 .. n : c.endBlocks[i] = b
                 /\ blockHeightToHeaderHash'[b] = HeaderHash(b)
  <2>1. b \in DOMAIN blockHeightToHeaderHash /\ n \in Nat
    BY <1>5 DEF IInv, TypeOK
  <2>2. \/ /\ \A i \in 1 .. n : c.endBlocks[i] # b
           /\ blockHeightToHeaderHash'[b] = blockHeightToHeaderHash[b]
        \/ \E i \in 1 .. n :
               /\ c.endBlocks[i] = b
               /\ blockHeightToHeaderHash'[b] = c.headerHashes[i]
    <3> DEFINE ends == c.endBlocks
               hashes == c.headerHashes
    <3>1. DOMAIN ends = 1 .. n
      BY <1>5
    <3>2. blockHeightToHeaderHash' = WriteAll(blockHeightToHeaderHash, ends, hashes)
      BY <1>6
    <3> HIDE DEF ends, hashes
    <3>3. \/ /\ \A i \in 1 .. n : ends[i] # b
             /\ blockHeightToHeaderHash'[b] = blockHeightToHeaderHash[b]
          \/ \E i \in 1 .. n :
                 ends[i] = b /\ blockHeightToHeaderHash'[b] = hashes[i]
      BY <2>1, <3>1, <3>2, WriteAllFacts
    <3> QED BY <3>3 DEF ends, hashes
  <2> QED BY <2>2, <1>7
<1>12. \A b \in Heights : blockHeightToHeaderHash[b] # Zero =>
           blockHeightToHeaderHash'[b] # Zero
  BY <1>11, HashNotZero
<1>13. SetId[e] \in AuthoritySetIds /\ SetId[e] <= SetId[head]
  BY <1>3, SetIdFacts
<1> USE DEF configVars, requestVars
<1>14. TypeOK'
  <2>1. DOMAIN dataRootCommitments' = RangeKeys
        /\ DOMAIN stateRootCommitments' = RangeKeys
        /\ DOMAIN rangeStartBlocks' = RangeKeys
        /\ DOMAIN blockHeightToHeaderHash' = Heights
    BY <1>6 DEF WriteAll, IInv, TypeOK
  <2>2. /\ dataRootCommitments' = [k \in RangeKeys |-> dataRootCommitments'[k]]
        /\ stateRootCommitments' = [k \in RangeKeys |-> stateRootCommitments'[k]]
        /\ rangeStartBlocks' = [k \in RangeKeys |-> rangeStartBlocks'[k]]
        /\ blockHeightToHeaderHash' = [b \in Heights |-> blockHeightToHeaderHash'[b]]
    BY <2>1, <1>6 DEF WriteAll
  <2>3. ASSUME NEW k \in RangeKeys
        PROVE  /\ dataRootCommitments'[k] \in DataCommitments \cup {Zero}
               /\ stateRootCommitments'[k] \in StateCommitments \cup {Zero}
               /\ rangeStartBlocks'[k] \in Heights
    <3>1. k[1] \in Heights /\ k[2] \in Heights
      BY DEF RangeKeys
    <3>2. /\ DataRootCommitment(k[1], k[2], t) \in DataCommitments
          /\ StateRootCommitment(k[1], k[2], t) \in StateCommitments
      BY <3>1, <1>3 DEF DataCommitments, StateCommitments
    <3>3. /\ dataRootCommitments[k] \in DataCommitments \cup {Zero}
          /\ stateRootCommitments[k] \in StateCommitments \cup {Zero}
          /\ rangeStartBlocks[k] \in Heights
      BY DEF IInv, TypeOK
    <3> QED BY <3>1, <3>2, <3>3, <1>10
  <2>4. /\ dataRootCommitments' \in [RangeKeys -> DataCommitments \cup {Zero}]
        /\ stateRootCommitments' \in [RangeKeys -> StateCommitments \cup {Zero}]
        /\ rangeStartBlocks' \in [RangeKeys -> Heights]
    BY <2>2, <2>3
  <2>5. blockHeightToHeaderHash' \in [Heights -> HeaderHashes \cup {Zero}]
    <3>1. \A b \in Heights : blockHeightToHeaderHash'[b] \in HeaderHashes \cup {Zero}
      BY <1>11 DEF IInv, TypeOK, HeaderHashes
    <3> QED BY <2>2, <3>1
  <2>6. stored' \subseteq EventType
    <3>1. ASSUME NEW i \in 1 .. n PROVE event(i) \in EventType
      BY <1>2, <1>7, <1>8 DEF EventType
    <3> QED BY <3>1, <1>6 DEF IInv, TypeOK
  <2>7. lineage' \subseteq RangeKeys
    BY <1>6, <1>7 DEF IInv, TypeOK
  <2>8. authoritySetIdToHash' \in [AuthoritySetIds -> AuthoritySetHashes \cup {Zero}]
    BY <1>6, <1>13 DEF IInv, TypeOK, AuthoritySetHashes
  <2> QED BY <1>2, <1>3, <1>6, <1>13, <2>4, <2>5, <2>6, <2>7, <2>8
          DEF IInv, TypeOK, ConfigurationOK
<1>15. Uninitialized' /\ TreeSizeMatches'
  BY <1>2, <1>6 DEF IInv, Uninitialized, TreeSizeMatches
<1>16. HeadersCanonical'
  <2>1. \A i \in 1 .. n : c.endBlocks[i] <= head
    <3> SUFFICES ASSUME NEW i \in 1 .. n PROVE c.endBlocks[i] <= head
      OBVIOUS
    <3>1. c.endBlocks[i] \in Nat /\ head \in Nat
      BY <1>3, <1>7, SetIdFacts
    <3> QED BY <3>1, <1>3, <1>7
  <2> QED BY <2>1, <1>6, <1>11 DEF IInv, HeadersCanonical
<1>17. AuthoritySetsCanonical'
  BY <1>6, <1>13 DEF IInv, TypeOK, AuthoritySetsCanonical
<1>18. AuthorityWindow'
  <2>1. authoritySetIdToHash'[SetId[e]] = AuthoritySetHash(SetId[e])
    BY <1>6, <1>13 DEF IInv, TypeOK
  <2>2. blockHeightToHeaderHash'[e] = HeaderHash(e)
    BY <1>3, <1>5, <1>11
  <2>3. e > 0
    BY <1>3
  <2> QED BY <2>1, <2>2, <2>3, <1>6, HashNotZero DEF AuthorityWindow
<1>19. \A i \in 1 .. n : /\ blockHeightToHeaderHash'[c.startBlocks[i]] # Zero
                         /\ blockHeightToHeaderHash'[c.endBlocks[i]] # Zero
  <2> SUFFICES ASSUME NEW i \in 1 .. n
               PROVE  /\ blockHeightToHeaderHash'[c.startBlocks[i]] # Zero
                      /\ blockHeightToHeaderHash'[c.endBlocks[i]] # Zero
    OBVIOUS
  <2>1. \A j \in 1 .. n : blockHeightToHeaderHash'[c.endBlocks[j]] # Zero
    BY <1>7, <1>11, HashNotZero
  <2>2. CASE i = 1
    BY <2>1, <2>2, <1>2, <1>3, <1>5, <1>12 DEF IInv, AuthorityWindow
  <2>3. CASE i > 1
    <3>1. i - 1 \in 1 .. n /\ c.startBlocks[i] = c.endBlocks[i - 1]
      BY <2>3, <1>4 DEF ChunksOf
    <3> QED BY <3>1, <2>1
  <2> QED BY <2>2, <2>3
<1>20. RangeCommitmentsCanonical'
  <2> SUFFICES ASSUME NEW k \in RangeKeys, dataRootCommitments'[k] # Zero
               PROVE  /\ k[1] < k[2]
                      /\ \E u \in TreeSizes :
                             /\ dataRootCommitments'[k] = DataRootCommitment(k[1], k[2], u)
                             /\ stateRootCommitments'[k] = StateRootCommitment(k[1], k[2], u)
                             /\ k[2] <= k[1] + u
                      /\ rangeStartBlocks'[k] = k[1]
                      /\ blockHeightToHeaderHash'[k[1]] # Zero
                      /\ blockHeightToHeaderHash'[k[2]] # Zero
    BY DEF RangeCommitmentsCanonical
  <2>1. k[1] \in Heights /\ k[2] \in Heights
    BY DEF RangeKeys
  <2>2. CASE \E i \in 1 .. n : keys[i] = k
    BY <2>2, <1>3, <1>7, <1>10, <1>19
  <2>3. CASE \A i \in 1 .. n : keys[i] # k
    BY <2>1, <2>3, <1>10, <1>12 DEF IInv, RangeCommitmentsCanonical
  <2> QED BY <2>2, <2>3
<1>21. RangesTile' /\ (genesis <= latestBlock)'
  <2>1. genesis \in Nat /\ genesis <= latestBlock /\ genesis' = genesis
    BY <1>6, SetIdFacts DEF IInv, TypeOK
  <2>2. ASSUME NEW k \in lineage
        PROVE  /\ k \in RangeKeys /\ k[1] \in Nat /\ k[2] \in Nat
               /\ genesis <= k[1] /\ k[2] <= latestBlock
               /\ dataRootCommitments[k] # Zero
    BY SetIdFacts DEF IInv, TypeOK, RangesTile, RangeKeys
  <2>3. ASSUME NEW i \in 1 .. n
        PROVE  /\ c.startBlocks[i] \in Nat /\ c.endBlocks[i] \in Nat
               /\ genesis <= keys[i][1] /\ keys[i][2] <= e
               /\ dataRootCommitments'[keys[i]] # Zero
    <3>1. c.startBlocks[i] \in Nat /\ c.endBlocks[i] \in Nat
      BY <1>7, SetIdFacts
    <3>2. dataRootCommitments'[keys[i]] # Zero
      BY <1>7, <1>10, HashNotZero
    <3> QED BY <3>1, <3>2, <2>1, <1>3, <1>7
  <2>4. ASSUME NEW k \in lineage'
        PROVE  /\ genesis <= k[1]
               /\ k[2] <= e
               /\ dataRootCommitments'[k] # Zero
    <3>1. CASE k \in lineage
      BY <3>1, <2>1, <2>2, <1>3, <1>10, HashNotZero
    <3>2. CASE \E i \in 1 .. n : k = keys[i]
      BY <3>2, <2>3
    <3> QED BY <3>1, <3>2, <1>6
  <2>5. ASSUME NEW b \in genesis + 1 .. e
        PROVE  \E k \in lineage' :
                   Covers(k, b) /\ \A l \in lineage' : Covers(l, b) => l = k
    <3>1. CASE b <= latestBlock
      <4>1. PICK k \in lineage :
                Covers(k, b) /\ \A l \in lineage : Covers(l, b) => l = k
        BY <3>1, <2>1, <1>3 DEF IInv, RangesTile
      <4>2. \A i \in 1 .. n : ~ Covers(keys[i], b)
        BY <3>1, <2>1, <2>3, <1>3, <1>7 DEF Covers
      <4> QED BY <4>1, <4>2, <1>6
    <3>2. CASE b > latestBlock
      <4> DEFINE S == {i \in 1 .. n : b <= c.endBlocks[i]}
      <4>1. S \subseteq Nat /\ n \in S
        BY <1>5, <2>1
      <4>2. PICK i \in S : \A x \in S : i <= x
        <5> HIDE DEF S
        <5>1. S # {}
          BY <4>1
        <5> QED BY <4>1, <5>1, LeastElement
      <4>3. i \in 1 .. n /\ b <= c.endBlocks[i]
        OBVIOUS
      <4>4. c.startBlocks[i] < b
        <5>1. CASE i = 1
          BY <5>1, <3>2, <1>5
        <5>2. CASE i > 1
          <6>1. i - 1 \in 1 .. n /\ c.startBlocks[i] = c.endBlocks[i - 1]
            BY <5>2, <4>3, <1>4 DEF ChunksOf
          <6>2. i - 1 \notin S
            <7> HIDE DEF S
            <7> QED BY <4>1, <4>2
          <6>3. c.endBlocks[i - 1] \in Nat /\ ~ (b <= c.endBlocks[i - 1])
            BY <6>1, <6>2, <2>3
          <6> QED BY <6>1, <6>3, <2>1
        <5> QED BY <5>1, <5>2, <4>3
      <4>5. Covers(keys[i], b)
        BY <4>3, <4>4, <1>7 DEF Covers
      <4>6. ASSUME NEW j \in 1 .. n, Covers(keys[j], b) PROVE j = i
        <5>1. c.startBlocks[j] < b /\ b <= c.endBlocks[j]
          BY <4>6, <1>7 DEF Covers
        <5>2. /\ i < j => c.endBlocks[i] <= c.startBlocks[j]
              /\ j < i => c.endBlocks[j] <= c.startBlocks[i]
          BY <4>3, <1>4 DEF ChunksOf
        <5>3. /\ c.startBlocks[i] \in Nat /\ c.endBlocks[i] \in Nat
              /\ c.startBlocks[j] \in Nat /\ c.endBlocks[j] \in Nat
          BY <4>3, <2>3
        <5> QED BY <5>1, <5>2, <5>3, <4>3, <4>4, <2>1
      <4>7. \A l \in lineage : ~ Covers(l, b)
        BY <3>2, <2>1, <2>2, <1>3 DEF Covers
      <4>8. keys[i] \in lineage'
        BY <4>3, <1>6
      <4>9. ASSUME NEW l \in lineage', Covers(l, b) PROVE l = keys[i]
        BY <4>9, <4>6, <4>7, <1>6
      <4> QED BY <4>5, <4>8, <4>9
    <3> QED BY <3>1, <3>2, <2>1, <1>3
  <2>6. RangesTile'
    BY <2>1, <2>4, <2>5, <1>6 DEF RangesTile
  <2> QED BY <2>1, <2>6, <1>3, <1>6
<1>22. AnnouncedTreeSize /\ t = headerRangeCommitmentTreeSize => AnnouncedTreeSize'
  BY <1>6, <1>8 DEF AnnouncedTreeSize
<1> QED BY <1>14, <1>15, <1>16, <1>17, <1>18, <1>20, <1>21, <1>22 DEF IInv


\* fill_block_range posted at once uses the tree size in storage.
LEMMA FillIInv ==
    IInv /\ FillStep => IInv' /\ (AnnouncedTreeSize => AnnouncedTreeSize')
PROOF
<1> SUFFICES ASSUME IInv, FillStep
             PROVE  IInv' /\ (AnnouncedTreeSize => AnnouncedTreeSize')
  OBVIOUS
<1>1. PICK e \in latestBlock + 1 .. head :
          updateBlockRangeData(get_block_range_data(
              headerRangeCommitmentTreeSize, latestBlock, e))
  BY DEF FillStep
<1>2. headerRangeCommitmentTreeSize \in TreeSizes
  BY <1>1 DEF updateBlockRangeData, onlyGuardian, IInv, TypeOK, ConfigurationOK
<1> QED BY <1>1, <1>2, FillDataIInv

-----------------------------------------------------------------------------
(* The theorems.                                                           *)

\* The invariant is about the variables only.
LEMMA StutterIInv == IInv /\ UNCHANGED vars => IInv'
PROOF
<1> SUFFICES ASSUME IInv, UNCHANGED vars PROVE IInv'
  OBVIOUS
<1>1. TypeOK'
  BY DEF vars, contractVars, requestVars, pointerVars, configVars, hashVars,
         rangeVars, IInv, TypeOK, ConfigurationOK
<1> QED BY <1>1, RequestIInv DEF vars

\* The inductive invariant holds in every reachable state.
THEOREM Invariance == Spec => []IInv
PROOF
<1>1. Init => IInv
  BY InitIInv
<1>2. IInv /\ [Next]_vars => IInv'
  <2> SUFFICES ASSUME IInv, [Next]_vars PROVE IInv'
    OBVIOUS
  <2>1. CASE AvailStep
    BY <2>1, AvailStepIInv
  <2>2. CASE InitializeStep
    BY <2>2, InitializeIInv
  <2>3. CASE ConfigurationStep
    BY <2>3, ConfigurationIInv
  <2>4. CASE GenesisStep
    BY <2>4, GenesisIInv
  <2>5. CASE FillStep
    BY <2>5, FillIInv
  <2>6. CASE RequestStep
    BY <2>6, RequestStepIInv
  <2>7. CASE FulfilStep
    BY <2>7, CommitIInv, RotateIInv DEF FulfilStep
  <2>8. CASE Abandon
    BY <2>8, AbandonIInv
  <2>9. CASE UNCHANGED vars
    BY <2>9, StutterIInv
  <2> QED BY <2>1, <2>2, <2>3, <2>4, <2>5, <2>6, <2>7, <2>8, <2>9 DEF Next
<1> QED BY <1>1, <1>2, PTL DEF Spec

\* Storage, requests and events keep their types, whatever the transactions
\* and their order.
THEOREM TypeCorrect == Spec => []TypeOK
PROOF
<1>1. IInv => TypeOK
  BY DEF IInv
<1> QED BY <1>1, Invariance, PTL

\* Every header hash in the contract is the one of the finalized Avail chain.
THEOREM HeaderHashesCanonical == Spec => []HeadersCanonical
PROOF
<1>1. IInv => HeadersCanonical
  BY DEF IInv
<1> QED BY <1>1, Invariance, PTL

\* Every authority set hash in the contract is that of the set with that id,
\* whose announcing block is finalized.
THEOREM SetHashesCanonical == Spec => []AuthoritySetsCanonical
PROOF
<1>1. IInv => AuthoritySetsCanonical
  BY DEF IInv
<1> QED BY <1>1, Invariance, PTL

\* Every stored commitment is the commitment of exactly the blocks of its
\* range, with both ends of the range known.
THEOREM CommitmentsCanonical == Spec => []RangeCommitmentsCanonical
PROOF
<1>1. IInv => RangeCommitmentsCanonical
  BY DEF IInv
<1> QED BY <1>1, Invariance, PTL

\* The stored ranges tile the blocks since the last genesis state, although
\* proofs are relayed late, twice or after the head has moved.
THEOREM Tiling == Spec => []RangesTile
PROOF
<1>1. IInv => RangesTile
  BY DEF IInv
<1> QED BY <1>1, Invariance, PTL

\* The announced tree size is that of the commitments, across circuit
\* upgrades with requests in flight.
THEOREM TreeSizeAnnounced == Spec => []AnnouncedTreeSize
PROOF
<1>1. Init => AnnouncedTreeSize
  BY DEF Init, AnnouncedTreeSize
<1>2. IInv /\ AnnouncedTreeSize /\ [Next]_vars => AnnouncedTreeSize'
  <2> SUFFICES ASSUME IInv, AnnouncedTreeSize, [Next]_vars PROVE AnnouncedTreeSize'
    OBVIOUS
  <2>1. CASE FillStep
    BY <2>1, FillIInv
  <2>2. ASSUME NEW r \in headerRangeRequests, commitHeaderRange(r)
        PROVE  AnnouncedTreeSize'
    BY <2>2, CommitIInv
  <2>3. CASE UNCHANGED stored
    BY <2>3 DEF AnnouncedTreeSize
  <2>4. AvailStep \/ RequestStep \/ Abandon \/ UNCHANGED vars => UNCHANGED stored
    BY DEF AvailStep, RequestStep, requestHeaderRange, requestRotate, Abandon,
           contractVars, rangeVars, vars
  <2>5. InitializeStep \/ ConfigurationStep \/ GenesisStep => UNCHANGED stored
    BY DEF InitializeStep, initialize, ConfigurationStep, updateFreeze,
           updateFunctionIds, updateGateway, GenesisStep, updateGenesisState, rangeVars
  <2>6. ASSUME NEW r \in rotateRequests, rotate(r) PROVE UNCHANGED stored
    BY <2>6 DEF rotate, rangeVars
  <2> QED BY <2>1, <2>2, <2>3, <2>4, <2>5, <2>6 DEF Next, FulfilStep
<1> QED BY <1>1, <1>2, Invariance, PTL DEF Spec

\* latestAuthoritySetId stays within one set of the latest block.
THEOREM WindowKept == Spec => []AuthorityWindow
PROOF
<1>1. IInv => AuthorityWindow
  BY DEF IInv
<1> QED BY <1>1, Invariance, PTL

\* From every state the set that signs the next block is known or one
\* provable rotation away.
THEOREM Unstranded == Spec => []NeverStranded
PROOF
<1>1. IInv => NeverStranded
  <2> SUFFICES ASSUME IInv, initialized, latestBlock < head
               PROVE  LET id == SignerOf(latestBlock + 1)
                      IN \/ authoritySetIdToHash[id] # Zero
                         \/ /\ id > 0
                            /\ authoritySetIdToHash[id - 1] # Zero
                            /\ RotateAccepts(RotateInput(id - 1))
    BY DEF NeverStranded
  <2>1. /\ latestBlock \in Heights \ {0} /\ latestBlock \in Nat
        /\ head \in Heights /\ latestBlock <= head
        /\ latestAuthoritySetId \in AuthoritySetIds
        /\ latestAuthoritySetId \in {SignerOf(latestBlock), SetId[latestBlock]}
        /\ authoritySetIdToHash[latestAuthoritySetId] # Zero
    BY SetIdFacts DEF IInv, TypeOK, AuthorityWindow, Heights
  <2>2. SignerOf(latestBlock + 1) = SetId[latestBlock]
    BY <2>1 DEF SignerOf
  <2>3. CASE latestAuthoritySetId = SetId[latestBlock]
    BY <2>1, <2>2, <2>3
  <2>4. CASE latestAuthoritySetId # SetId[latestBlock]
    <3> DEFINE id == SignerOf(latestBlock)
    <3>1. /\ latestAuthoritySetId = id
          /\ SetId[latestBlock] = id + 1
          /\ id \in AuthoritySetIds /\ id \in Nat
      BY <2>1, <2>4, SetIdFacts
    <3>2. EpochEnd(latestBlock)
      BY <3>1, <2>1 DEF EpochEnd, SignerOf
    <3>3. last_justified_block(id, head) # 0
      BY <3>2, <2>1, EpochOver
    <3>4. authoritySetIdToHash[id] = AuthoritySetHash(id)
      BY <3>1, <2>1 DEF IInv, AuthoritySetsCanonical
    <3>5. RotateAccepts(RotateInput(id))
      BY <3>3, <3>4 DEF RotateAccepts, RotateInput
    <3> HIDE DEF id
    <3>6. id + 1 - 1 = id /\ id + 1 > 0
      BY <3>1
    <3> QED BY <2>1, <2>2, <3>1, <3>5, <3>6
  <2> QED BY <2>3, <2>4
<1> QED BY <1>1, Invariance, PTL


\* No step rewrites a stored hash: an entry changes only to the canonical
\* hash, which is what it held if it held one.
LEMMA HashesOnlyAdded ==
    ASSUME IInv, IInv',
           \A b \in Heights : blockHeightToHeaderHash[b] # Zero =>
               blockHeightToHeaderHash'[b] # Zero,
           \A id \in AuthoritySetIds : authoritySetIdToHash[id] # Zero =>
               authoritySetIdToHash'[id] # Zero
    PROVE  HashesKept
PROOF BY DEF IInv, HeadersCanonical, AuthoritySetsCanonical, HashesKept

\* Storing the hash of a set keeps the other entries.
LEMMA SetHashStored ==
    ASSUME TypeOK, NEW i \in AuthoritySetIds,
           authoritySetIdToHash' = [authoritySetIdToHash EXCEPT ![i] = AuthoritySetHash(i)]
    PROVE  \A id \in AuthoritySetIds : authoritySetIdToHash[id] # Zero =>
               authoritySetIdToHash'[id] # Zero
PROOF BY HashNotZero DEF TypeOK

\* Storing the hash of a header keeps the other entries.
LEMMA HeaderHashStored ==
    ASSUME TypeOK, NEW i \in Heights,
           blockHeightToHeaderHash' = [blockHeightToHeaderHash EXCEPT ![i] = HeaderHash(i)]
    PROVE  \A b \in Heights : blockHeightToHeaderHash[b] # Zero =>
               blockHeightToHeaderHash'[b] # Zero
PROOF BY HashNotZero DEF TypeOK

\* A transaction forgets or replaces no hash, and moves the light client
\* back only if it sets a new genesis state.
LEMMA StepForward ==
    ASSUME IInv, IInv', Next
    PROVE  HashesKept /\ (GenesisStep \/ MovesForward)
PROOF
<1> DEFINE Forward == HashesKept /\ (GenesisStep \/ MovesForward)
<1>1. /\ latestBlock \in Nat /\ latestAuthoritySetId \in Nat
      /\ latestBlock \in Heights /\ head \in Heights /\ TypeOK
  BY SetIdFacts DEF IInv, TypeOK
<1>2. ASSUME UNCHANGED <<hashVars, pointerVars>> PROVE Forward
  BY <1>2, <1>1 DEF hashVars, pointerVars, HashesKept, MovesForward
<1>3. CASE AvailStep \/ ConfigurationStep \/ RequestStep \/ Abandon
  <2>1. UNCHANGED <<hashVars, pointerVars>>
    BY <1>3 DEF AvailStep, ConfigurationStep, RequestStep, Abandon, updateFreeze,
                updateFunctionIds, updateGateway, requestHeaderRange,
                requestRotate, contractVars
  <2> QED BY <2>1, <1>2
<1>4. CASE InitializeStep \/ GenesisStep
  <2>1. PICK b \in FinalizedHeights :
            /\ blockHeightToHeaderHash' =
                   [blockHeightToHeaderHash EXCEPT ![b] = HeaderHash(b)]
            /\ authoritySetIdToHash' =
                   [authoritySetIdToHash EXCEPT
                        ![SetId[b]] = AuthoritySetHash(SetId[b])]
            /\ ~ initialized \/ GenesisStep
    BY <1>4 DEF InitializeStep, GenesisStep, initialize, updateGenesisState,
                GenesisParameters
  <2>2. b \in Heights /\ SetId[b] \in AuthoritySetIds
    BY <1>1, SetIdFacts, ChainAssumption DEF FinalizedHeights, Heights
  <2>3. HashesKept
    BY <1>1, <2>1, <2>2, HashesOnlyAdded, SetHashStored, HeaderHashStored
  <2>4. CASE GenesisStep
    BY <2>3, <2>4
  <2>5. CASE InitializeStep
    <3>1. PICK c \in FinalizedHeights :
              /\ ~ initialized
              /\ latestBlock' = c /\ latestAuthoritySetId' = SetId[c]
      BY <2>5 DEF InitializeStep, initialize, GenesisParameters
    <3>2. c \in Heights /\ c \in Nat /\ SetId[c] \in Nat
      BY <1>1, SetIdFacts, ChainAssumption DEF FinalizedHeights, Heights
    <3>3. latestBlock = 0 /\ latestAuthoritySetId = 0
      BY <3>1 DEF IInv, Uninitialized
    <3> QED BY <2>3, <3>1, <3>2, <3>3 DEF MovesForward
  <2> QED BY <1>4, <2>4, <2>5
<1>5. CASE FillStep
  <2>1. PICK e \in latestBlock + 1 .. head :
            updateBlockRangeData(get_block_range_data(
                headerRangeCommitmentTreeSize, latestBlock, e))
    BY <1>5 DEF FillStep
  <2>2. /\ initialized
        /\ headerRangeCommitmentTreeSize \in Nat \ {0}
        /\ e \in Heights /\ e \in Nat /\ latestBlock < e
        /\ SetId[e] \in AuthoritySetIds
    <3>1. initialized
      BY <2>1 DEF updateBlockRangeData, onlyGuardian
    <3>2. headerRangeCommitmentTreeSize \in TreeSizes
      BY <3>1, <1>1 DEF TypeOK, ConfigurationOK
    <3>3. headerRangeCommitmentTreeSize \in Nat \ {0}
      BY <3>2, ContractAssumption DEF TreeSizes
    <3>4. e \in Heights /\ e \in Nat /\ latestBlock < e
      BY <1>1, ChainAssumption DEF Heights
    <3> QED BY <3>1, <3>3, <3>4, SetIdFacts
  <2> DEFINE c == get_block_range_data(headerRangeCommitmentTreeSize, latestBlock, e)
  <2>3. PICK n : ChunksOf(c, n, headerRangeCommitmentTreeSize, latestBlock, e)
    BY <2>2, <1>1, BlockRangeDataFacts
  <2> HIDE DEF c
  <2>4. updateBlockRangeData(c)
    BY <2>1 DEF c
  <2>5. /\ latestBlock' = e /\ latestAuthoritySetId' = SetId[e]
        /\ authoritySetIdToHash' =
               [authoritySetIdToHash EXCEPT ![SetId[e]] = AuthoritySetHash(SetId[e])]
    BY <2>3, <2>4 DEF updateBlockRangeData, ChunksOf
  <2>6. \A b \in Heights : blockHeightToHeaderHash[b] # Zero =>
            blockHeightToHeaderHash'[b] # Zero
    <3> SUFFICES ASSUME NEW b \in Heights, blockHeightToHeaderHash[b] # Zero
                 PROVE  blockHeightToHeaderHash'[b] # Zero
      OBVIOUS
    <3> DEFINE ends == c.endBlocks
               hashes == c.headerHashes
    <3>1. /\ n \in Nat /\ DOMAIN ends = 1 .. n
          /\ \A i \in 1 .. n : hashes[i] = HeaderHash(ends[i])
      BY <2>3 DEF ChunksOf
    <3>2. blockHeightToHeaderHash' = WriteAll(blockHeightToHeaderHash, ends, hashes)
      BY <2>4 DEF updateBlockRangeData
    <3>3. b \in DOMAIN blockHeightToHeaderHash
      BY <1>1 DEF TypeOK
    <3> HIDE DEF ends, hashes
    <3>4. \/ blockHeightToHeaderHash'[b] = blockHeightToHeaderHash[b]
          \/ \E i \in 1 .. n : blockHeightToHeaderHash'[b] = hashes[i]
      BY <3>1, <3>2, <3>3, WriteAllFacts
    <3> QED BY <3>1, <3>4, HashNotZero
  <2>7. HashesKept
    BY <1>1, <2>2, <2>5, <2>6, HashesOnlyAdded, SetHashStored
  <2>8. latestAuthoritySetId <= SetId[latestBlock] /\ SetId[latestBlock] <= SetId[e]
        /\ SetId[e] \in Nat /\ SetId[latestBlock] \in Nat
    <3>1. /\ latestBlock \in Heights \ {0}
          /\ latestAuthoritySetId \in {SignerOf(latestBlock), SetId[latestBlock]}
      BY <1>1, <2>2 DEF IInv, AuthorityWindow
    <3>2. SignerOf(latestBlock) \in Nat /\ SetId[latestBlock] \in Nat
      BY <3>1, SetIdFacts
    <3>3. SignerOf(latestBlock) <= SetId[latestBlock]
      BY <3>1, <3>2, SetIdFacts
    <3> QED BY <3>1, <3>2, <3>3, <2>2, SetIdFacts
  <2> QED BY <1>1, <2>2, <2>5, <2>7, <2>8 DEF MovesForward
<1>6. ASSUME NEW r \in headerRangeRequests, commitHeaderRange(r) PROVE Forward
  <2> DEFINE id == r.input.authoritySetId
             target == r.input.targetBlock
  <2>1. target \in Heights /\ target \in Nat /\ id \in Nat
    BY <1>1, SetIdFacts DEF TypeOK, HeaderRangeRequestType, HeaderRangeInputs
  <2>2. /\ latestBlock' = target /\ target > latestBlock
        /\ latestAuthoritySetId' =
               IF id > latestAuthoritySetId THEN id ELSE latestAuthoritySetId
        /\ authoritySetIdToHash' = authoritySetIdToHash
        /\ blockHeightToHeaderHash' =
               [blockHeightToHeaderHash EXCEPT ![target] = HeaderHash(target)]
    BY <1>6 DEF commitHeaderRange, AheadOfLatest, HeaderRangeOutput
  <2>3. HashesKept
    BY <1>1, <2>1, <2>2, HashesOnlyAdded, HeaderHashStored
  <2> QED BY <1>1, <2>1, <2>2, <2>3 DEF MovesForward
<1>7. ASSUME NEW r \in rotateRequests, rotate(r) PROVE Forward
  <2>1. UNCHANGED <<blockHeightToHeaderHash, pointerVars>>
    BY <1>7 DEF rotate
  <2>2. PICK id : /\ authoritySetIdToHash[id + 1] = Zero
                  /\ authoritySetIdToHash' =
                         [authoritySetIdToHash EXCEPT ![id + 1] = AuthoritySetHash(id + 1)]
    BY <1>7 DEF rotate, RotateOutput
  <2>3. HashesKept
    BY <1>1, <2>1, <2>2 DEF TypeOK, HashesKept
  <2> QED BY <1>1, <2>1, <2>3 DEF MovesForward, pointerVars
<1> QED BY <1>3, <1>4, <1>5, <1>6, <1>7 DEF Next, FulfilStep

\* A transaction leaves the finalized chain alone or sees it grow, and an
\* initialized contract stays so.
LEMMA ChainGrows ==
    ASSUME IInv, Next
    PROVE  head' >= head /\ (initialized => initialized')
PROOF
<1>1. head \in Nat
  BY SetIdFacts DEF IInv, TypeOK
<1>2. head' \in {head, head + 1} /\ (initialized => initialized')
  <2> USE DEF contractVars
  <2>1. CASE AvailStep
    BY <2>1 DEF AvailStep, Finalize
  <2>2. CASE InitializeStep \/ ConfigurationStep \/ GenesisStep
    BY <2>2 DEF InitializeStep, initialize, ConfigurationStep, updateFreeze,
                updateFunctionIds, updateGateway, GenesisStep, updateGenesisState
  <2>3. CASE FillStep
    BY <2>3 DEF FillStep, updateBlockRangeData
  <2>4. CASE RequestStep \/ Abandon
    BY <2>4 DEF RequestStep, requestHeaderRange, requestRotate, Abandon
  <2>5. ASSUME NEW r \in headerRangeRequests, commitHeaderRange(r)
        PROVE  UNCHANGED <<head, initialized>>
    BY <2>5 DEF commitHeaderRange
  <2>6. ASSUME NEW r \in rotateRequests, rotate(r)
        PROVE  UNCHANGED <<head, initialized>>
    BY <2>6 DEF rotate
  <2> QED BY <2>1, <2>2, <2>3, <2>4, <2>5, <2>6 DEF Next, FulfilStep
<1> QED BY <1>1, <1>2

\* The light client moves back only with a new genesis state, and never
\* forgets or replaces a hash.
THEOREM OnlyForward == Spec => NoRollback
PROOF
<1> DEFINE Forward == HashesKept /\ (GenesisStep \/ MovesForward)
<1>1. ASSUME IInv, IInv', [Next]_vars PROVE [Forward]_vars
  BY <1>1, StepForward
<1> QED BY <1>1, Invariance, PTL DEF Spec, NoRollback

-----------------------------------------------------------------------------
(* The contract implements AttestedChain.  With IInv the known headers and *)
(* sets are the entries that are not zero and the attested ranges are the  *)
(* lineage, so that every transaction is one step of the abstract light    *)
(* client or leaves it alone.                                              *)

\* The attested ranges are those of the lineage.
RangesMatch == AttestedRanges = lineage

\* All stored ranges since the last genesis state count as attested.
LEMMA RangesAreLineage == IInv => RangesMatch
PROOF
<1> SUFFICES ASSUME IInv, NEW k \in lineage
             PROVE  \E t \in TreeSizes :
                        /\ dataRootCommitments[k] = DataRootCommitment(k[1], k[2], t)
                        /\ stateRootCommitments[k] = StateRootCommitment(k[1], k[2], t)
  BY DEF AttestedRanges, RangesMatch
<1>1. k \in RangeKeys /\ dataRootCommitments[k] # Zero
  BY DEF IInv, TypeOK, RangesTile
<1> QED BY <1>1 DEF IInv, RangeCommitmentsCanonical

\* A header hash that is stored is that of a known header, and conversely.
LEMMA KnownHeadersAre ==
    IInv => \A b \in Heights : b \in KnownHeaders <=> blockHeightToHeaderHash[b] # Zero
PROOF BY HashNotZero DEF IInv, HeadersCanonical, KnownHeaders

\* The same of authority set hashes.
LEMMA KnownSetsAre ==
    IInv => \A id \in AuthoritySetIds :
                id \in KnownSets <=> authoritySetIdToHash[id] # Zero
PROOF BY HashNotZero DEF IInv, AuthoritySetsCanonical, KnownSets

\* Storing a header hash makes one more header known.
LEMMA HeaderLearned ==
    ASSUME TypeOK, NEW b \in Heights,
           blockHeightToHeaderHash' = [blockHeightToHeaderHash EXCEPT ![b] = HeaderHash(b)]
    PROVE  KnownHeaders' = KnownHeaders \cup {b}
PROOF BY DEF TypeOK, KnownHeaders

\* Storing an authority set hash makes one more set known.
LEMMA SetLearned ==
    ASSUME TypeOK, NEW id \in AuthoritySetIds,
           authoritySetIdToHash' = [authoritySetIdToHash EXCEPT ![id] = AuthoritySetHash(id)]
    PROVE  KnownSets' = KnownSets \cup {id}
PROOF BY DEF TypeOK, KnownSets

\* A deployed proxy knows nothing.
LEMMA InitRefines == Init => Attested!AttestedInit
PROOF
<1> SUFFICES ASSUME Init PROVE Attested!AttestedInit
  OBVIOUS
<1>1. KnownHeaders = {} /\ KnownSets = {}
  BY HashNotZero DEF Init, KnownHeaders, KnownSets
<1>2. AttestedRanges = {}
  BY DEF Init, AttestedRanges
<1> QED BY <1>1, <1>2 DEF Init, Attested!AttestedInit

\* A step that changes no hash, no range and no pointer is a stutter, apart
\* from the chain's growth.
LEMMA AttestedKept ==
    ASSUME UNCHANGED <<hashVars, rangeVars, genesis, latestBlock>>
    PROVE  UNCHANGED <<genesis, latestBlock, AttestedRanges, KnownHeaders, KnownSets>>
PROOF BY DEF hashVars, rangeVars, AttestedRanges, KnownHeaders, KnownSets

\* initialize and updateGenesisState trust a finalized block.
LEMMA GenesisRefines ==
    ASSUME IInv, IInv', InitializeStep \/ GenesisStep
    PROVE  Attested!AttestedNext
PROOF
<1>1. PICK b \in FinalizedHeights :
          /\ latestBlock' = b /\ genesis' = b /\ head' = head
          /\ lineage' = {}
          /\ blockHeightToHeaderHash' =
                 [blockHeightToHeaderHash EXCEPT ![b] = HeaderHash(b)]
          /\ authoritySetIdToHash' =
                 [authoritySetIdToHash EXCEPT ![SetId[b]] = AuthoritySetHash(SetId[b])]
  <2>1. CASE InitializeStep
    BY <2>1 DEF InitializeStep, initialize, GenesisParameters, rangeVars, IInv,
                Uninitialized
  <2>2. CASE GenesisStep
    BY <2>2 DEF GenesisStep, updateGenesisState, GenesisParameters
  <2> QED BY <2>1, <2>2
<1>2. b \in Heights /\ b \in 1 .. head /\ SetId[b] \in AuthoritySetIds
  BY SetIdFacts, ChainAssumption DEF IInv, TypeOK, FinalizedHeights, Heights
<1>3. AttestedRanges' = {}
  BY <1>1 DEF AttestedRanges
<1>4. KnownHeaders' = KnownHeaders \cup {b}
  BY <1>1, <1>2, HeaderLearned DEF IInv
<1>5. KnownSets' = KnownSets \cup {SetId[b]}
  BY <1>1, <1>2, SetLearned DEF IInv
<1>6. Attested!Trust(b)
  BY <1>1, <1>2, <1>3, <1>4, <1>5 DEF Attested!Trust
<1>7. b \in Attested!Heights
  BY <1>2 DEF Heights, Attested!Heights
<1> QED BY <1>6, <1>7 DEF Attested!AttestedNext

\* A relayed header range proof attests one more range.
LEMMA CommitRefines ==
    ASSUME IInv, IInv', AttestedRanges = lineage, AttestedRanges' = lineage',
           NEW r \in headerRangeRequests, commitHeaderRange(r)
    PROVE  Attested!AttestedNext
PROOF
<1> DEFINE id == r.input.authoritySetId
           target == r.input.targetBlock
<1>1. /\ id \in AuthoritySetIds /\ target \in Heights
      /\ latestBlock \in Heights /\ head \in Heights
  BY DEF IInv, TypeOK, HeaderRangeRequestType, HeaderRangeInputs
<1>2. /\ r.input.trustedBlock = latestBlock
      /\ latestBlock < target /\ target <= head
      /\ SignerOf(target) = id
      /\ blockHeightToHeaderHash[latestBlock] # Zero
      /\ authoritySetIdToHash[id] # Zero
  BY DEF commitHeaderRange, verifiedCall, HeaderRangeInput, HeaderRangeAccepts
<1>3. /\ lineage' = lineage \cup {<<latestBlock, target>>}
      /\ latestBlock' = target
      /\ blockHeightToHeaderHash' =
             [blockHeightToHeaderHash EXCEPT ![target] = HeaderHash(target)]
      /\ UNCHANGED <<head, genesis, authoritySetIdToHash>>
  BY DEF commitHeaderRange, HeaderRangeOutput
<1> HIDE DEF id, target
<1>4. latestBlock \in KnownHeaders /\ SignerOf(target) \in KnownSets
  BY <1>1, <1>2, KnownHeadersAre, KnownSetsAre
<1>5. KnownHeaders' = KnownHeaders \cup {target}
  BY <1>1, <1>3, HeaderLearned DEF IInv
<1>6. KnownSets' = KnownSets
  BY <1>3 DEF KnownSets
<1>7. target \in latestBlock + 1 .. head
  BY <1>1, <1>2, SetIdFacts
<1>8. Attested!SignerOf(target) = SignerOf(target)
  BY DEF SignerOf, Attested!SignerOf
<1>9. Attested!Attest(target)
  BY <1>3, <1>4, <1>5, <1>6, <1>7, <1>8 DEF Attested!Attest
<1>10. target \in Attested!Heights
  BY <1>1 DEF Heights, Attested!Heights
<1> QED BY <1>9, <1>10 DEF Attested!AttestedNext

\* A relayed rotate proof teaches the next set, after its epoch end.
LEMMA RotateRefines ==
    ASSUME IInv, NEW r \in rotateRequests, rotate(r)
    PROVE  Attested!AttestedNext
PROOF
<1> DEFINE id == r.input.currentAuthoritySetId
<1>1. id \in AuthoritySetIds /\ head \in Heights
  BY DEF IInv, TypeOK, RotateRequestType, RotateInputs
<1>2. /\ authoritySetIdToHash[id] # Zero
      /\ last_justified_block(id, head) # 0
      /\ authoritySetIdToHash' =
             [authoritySetIdToHash EXCEPT ![id + 1] = AuthoritySetHash(id + 1)]
      /\ UNCHANGED <<head, latestBlock, blockHeightToHeaderHash, rangeVars, genesis>>
  BY DEF rotate, RotateAccepts, RotateOutput, pointerVars
<1> HIDE DEF id
<1>3. id + 1 \in AuthoritySetIds /\ id + 1 <= SetId[head]
  BY <1>1, <1>2, LastJustifiedBlockFacts
<1>4. id \in KnownSets
  BY <1>1, <1>2, KnownSetsAre
<1>5. KnownSets' = KnownSets \cup {id + 1}
  BY <1>2, <1>3, SetLearned DEF IInv
<1>6. KnownHeaders' = KnownHeaders /\ AttestedRanges' = AttestedRanges
  BY <1>2 DEF KnownHeaders, AttestedRanges, rangeVars
<1>7. Attested!LearnSet(id)
  BY <1>2, <1>3, <1>4, <1>5, <1>6 DEF Attested!LearnSet
<1>8. id \in Attested!AuthoritySetIds
  BY <1>1 DEF AuthoritySetIds, Attested!AuthoritySetIds
<1> QED BY <1>7, <1>8 DEF Attested!AttestedNext

\* What a filled block range changes: new ranges after the latest block, and
\* the header hashes at their ends.
FillEffect(e, new) ==
    /\ lineage' = lineage \cup new
    /\ latestBlock' = e
    /\ authoritySetIdToHash' =
           [authoritySetIdToHash EXCEPT ![SetId[e]] = AuthoritySetHash(SetId[e])]
    /\ UNCHANGED <<head, genesis>>
    /\ \A k \in new : /\ k[1] \in Nat /\ k[2] \in Heights
                      /\ latestBlock <= k[1] /\ k[1] < k[2] /\ k[2] <= e
    /\ \A b \in Heights :
           \/ /\ \A k \in new : k[2] # b
              /\ blockHeightToHeaderHash'[b] = blockHeightToHeaderHash[b]
           \/ /\ \E k \in new : k[2] = b
              /\ blockHeightToHeaderHash'[b] = HeaderHash(b)

\* updateBlockRangeData with the calldata of get_block_range_data has that
\* effect.
LEMMA FillHasEffect ==
    ASSUME IInv, FillStep
    PROVE  initialized /\ \E e \in latestBlock + 1 .. head : \E new : FillEffect(e, new)
PROOF
<1> DEFINE t == headerRangeCommitmentTreeSize
<1>1. PICK e \in latestBlock + 1 .. head :
          updateBlockRangeData(get_block_range_data(t, latestBlock, e))
  BY DEF FillStep
<1> DEFINE c == get_block_range_data(t, latestBlock, e)
<1>2. initialized
  BY <1>1 DEF updateBlockRangeData, onlyGuardian
<1>3. /\ latestBlock \in Nat /\ head \in Heights /\ e \in Nat /\ e \in Heights
      /\ latestBlock < e /\ t \in Nat \ {0}
  <2>1. latestBlock \in Heights /\ head \in Heights /\ t \in TreeSizes
    BY <1>2 DEF IInv, TypeOK, ConfigurationOK
  <2>2. t \in Nat \ {0}
    BY <2>1, ContractAssumption DEF TreeSizes
  <2> QED BY <2>1, <2>2, ChainAssumption DEF Heights
<1>4. PICK n : ChunksOf(c, n, t, latestBlock, e)
  BY <1>3, BlockRangeDataFacts
<1> HIDE DEF c, t
<1>5. updateBlockRangeData(c)
  BY <1>1 DEF c, t
<1> DEFINE keys == [i \in 1 .. n |-> <<c.startBlocks[i], c.endBlocks[i]>>]
           new == {keys[i] : i \in 1 .. n}
<1>6. /\ n \in Nat /\ DOMAIN c.startBlocks = 1 .. n /\ DOMAIN c.endBlocks = 1 .. n
      /\ c.endBlocks[Len(c.endBlocks)] = e
      /\ c.endAuthoritySetId = SetId[e]
      /\ c.endAuthoritySetHash = AuthoritySetHash(SetId[e])
  BY <1>4 DEF ChunksOf
<1>7. /\ blockHeightToHeaderHash' =
             WriteAll(blockHeightToHeaderHash, c.endBlocks, c.headerHashes)
      /\ lineage' = lineage \cup new
      /\ latestBlock' = e
      /\ authoritySetIdToHash' =
             [authoritySetIdToHash EXCEPT ![SetId[e]] = AuthoritySetHash(SetId[e])]
      /\ UNCHANGED <<head, genesis>>
  BY <1>5, <1>6 DEF updateBlockRangeData
<1>8. ASSUME NEW i \in 1 .. n
      PROVE  /\ keys[i][1] = c.startBlocks[i] /\ keys[i][2] = c.endBlocks[i]
             /\ c.startBlocks[i] \in Nat /\ c.endBlocks[i] \in Heights
             /\ latestBlock <= c.startBlocks[i]
             /\ c.startBlocks[i] < c.endBlocks[i]
             /\ c.endBlocks[i] <= e
             /\ c.headerHashes[i] = HeaderHash(c.endBlocks[i])
  <2>1. /\ c.startBlocks[i] \in Nat /\ c.endBlocks[i] \in Nat
        /\ latestBlock <= c.startBlocks[i]
        /\ c.startBlocks[i] < c.endBlocks[i]
        /\ c.endBlocks[i] <= e
        /\ c.headerHashes[i] = HeaderHash(c.endBlocks[i])
    BY <1>4 DEF ChunksOf
  <2>2. c.endBlocks[i] \in Heights
    BY <2>1, <1>3, ChainAssumption DEF Heights
  <2> QED BY <2>1, <2>2
<1>9. ASSUME NEW b \in Heights
      PROVE  \/ /\ \A i \in 1 .. n : c.endBlocks[i] # b
                /\ blockHeightToHeaderHash'[b] = blockHeightToHeaderHash[b]
             \/ \E i \in 1 .. n :
                    /\ c.endBlocks[i] = b
                    /\ blockHeightToHeaderHash'[b] = c.headerHashes[i]
  <2> DEFINE ends == c.endBlocks
             hashes == c.headerHashes
  <2>1. DOMAIN ends = 1 .. n /\ n \in Nat
    BY <1>6
  <2>2. b \in DOMAIN blockHeightToHeaderHash
    BY DEF IInv, TypeOK
  <2> DEFINE w == WriteAll(blockHeightToHeaderHash, ends, hashes)
  <2>3. blockHeightToHeaderHash' = w
    BY <1>7
  <2> HIDE DEF ends, hashes
  <2>4. \/ /\ \A i \in 1 .. n : ends[i] # b
           /\ w[b] = blockHeightToHeaderHash[b]
        \/ \E i \in 1 .. n : ends[i] = b /\ w[b] = hashes[i]
    BY <2>1, <2>2, WriteAllFacts
  <2> HIDE DEF w
  <2> QED BY <2>3, <2>4 DEF ends, hashes
<1> HIDE DEF keys
<1>10. \A k \in new : /\ k[1] \in Nat /\ k[2] \in Heights
                     /\ latestBlock <= k[1] /\ k[1] < k[2] /\ k[2] <= e
  BY <1>8
<1>11. \A b \in Heights :
           \/ /\ \A k \in new : k[2] # b
              /\ blockHeightToHeaderHash'[b] = blockHeightToHeaderHash[b]
           \/ /\ \E k \in new : k[2] = b
              /\ blockHeightToHeaderHash'[b] = HeaderHash(b)
  <2> SUFFICES ASSUME NEW b \in Heights
               PROVE  \/ /\ \A k \in new : k[2] # b
                         /\ blockHeightToHeaderHash'[b] = blockHeightToHeaderHash[b]
                      \/ /\ \E k \in new : k[2] = b
                         /\ blockHeightToHeaderHash'[b] = HeaderHash(b)
    OBVIOUS
  <2>1. CASE /\ \A i \in 1 .. n : c.endBlocks[i] # b
             /\ blockHeightToHeaderHash'[b] = blockHeightToHeaderHash[b]
    BY <2>1, <1>8
  <2>2. CASE \E i \in 1 .. n :
                 c.endBlocks[i] = b /\ blockHeightToHeaderHash'[b] = c.headerHashes[i]
    BY <2>2, <1>8
  <2> QED BY <2>1, <2>2, <1>9
<1>12. FillEffect(e, new)
  <2> HIDE DEF new
  <2> QED BY <1>7, <1>10, <1>11 DEF FillEffect
<1> QED BY <1>2, <1>12

\* A filled block range attests the ranges it adds, which tile the blocks
\* from the old tip to the new one because the whole lineage is a tiling.
LEMMA FillRefines ==
    ASSUME IInv, IInv', AttestedRanges = lineage, AttestedRanges' = lineage', FillStep
    PROVE  Attested!AttestedNext
PROOF
<1>1. initialized
  BY FillHasEffect
<1>e. PICK e \in latestBlock + 1 .. head : \E new : FillEffect(e, new)
  BY FillHasEffect
<1>2. PICK new : FillEffect(e, new)
  BY <1>e
<1>3. /\ latestBlock \in Nat /\ latestBlock \in Heights /\ head \in Heights
      /\ genesis \in Nat /\ genesis <= latestBlock
      /\ e \in Heights /\ e \in Nat /\ latestBlock < e
      /\ SetId[e] \in AuthoritySetIds
  <2>1. /\ latestBlock \in Heights /\ head \in Heights /\ genesis \in Heights
        /\ genesis <= latestBlock
    BY DEF IInv, TypeOK
  <2>2. e \in Heights /\ latestBlock < e
    BY <2>1, ChainAssumption DEF Heights
  <2> QED BY <2>1, <2>2, SetIdFacts
<1>4. \A k \in lineage : k[1] \in Nat /\ k[2] \in Nat /\ k[2] <= latestBlock
  BY SetIdFacts DEF IInv, TypeOK, RangesTile, RangeKeys
<1>5. \A k \in new : /\ k[1] \in Nat /\ k[2] \in Heights /\ k[2] \in Nat
                    /\ latestBlock <= k[1] /\ k[1] < k[2] /\ k[2] <= e
  BY <1>2, SetIdFacts DEF FillEffect
<1>6. lineage' \ lineage = new
  <2>1. \A k \in new : k \notin lineage
    BY <1>3, <1>4, <1>5
  <2> QED BY <2>1, <1>2 DEF FillEffect
<1>7. Attested!Tile(new, latestBlock, e)
  <2>1. ASSUME NEW b \in latestBlock + 1 .. e
        PROVE  \E k \in new : /\ k[1] < b /\ b <= k[2]
                             /\ \A l \in new : l[1] < b /\ b <= l[2] => l = k
    <3>1. b \in genesis + 1 .. e /\ b \in Nat /\ b > latestBlock
      BY <1>3
    <3>2. genesis' = genesis /\ latestBlock' = e /\ lineage' = lineage \cup new
      BY <1>2 DEF FillEffect
    <3>3. PICK k \in lineage' :
              Covers(k, b) /\ \A l \in lineage' : Covers(l, b) => l = k
      BY <3>1, <3>2 DEF IInv, RangesTile
    <3>4. k \in new
      BY <3>1, <3>2, <3>3, <1>3, <1>4 DEF Covers
    <3> QED BY <3>2, <3>3, <3>4 DEF Covers
  <2> QED BY <1>5, <2>1 DEF Attested!Tile
<1>8. KnownHeaders' = KnownHeaders \cup {k[2] : k \in new}
  BY <1>2, <1>5 DEF FillEffect, KnownHeaders
<1>9. KnownSets' = KnownSets \cup {SetId[e]}
  BY <1>2, <1>3, SetLearned DEF IInv, FillEffect
<1>10. latestBlock \in KnownHeaders
  BY <1>1, <1>3, KnownHeadersAre DEF IInv, AuthorityWindow
<1>11. Attested!Fill(e)
  <2>1. AttestedRanges' \ AttestedRanges = new /\ AttestedRanges \subseteq AttestedRanges'
    BY <1>2, <1>6 DEF FillEffect
  <2> QED BY <1>2, <1>7, <1>8, <1>9, <1>10, <2>1 DEF FillEffect, Attested!Fill
<1>12. e \in Attested!Heights
  BY <1>3 DEF Heights, Attested!Heights
<1> QED BY <1>11, <1>12 DEF Attested!AttestedNext

\* Every transaction, block of Avail or relayed proof is a step of the
\* abstract light client or leaves it as it is, for every chain, circuit and
\* gateway: the contract implements AttestedChain.
THEOREM Refinement == Spec => ImplementsAttestedChain
PROOF
<1>1. IInv => RangesMatch
  BY RangesAreLineage
<1>2. ASSUME IInv, IInv', RangesMatch, RangesMatch', [Next]_vars
      PROVE  [Attested!AttestedNext]_(Attested!attestedVars)
  <2> USE <1>2
  <2>1. ASSUME UNCHANGED <<head, hashVars, rangeVars, genesis, latestBlock>>
        PROVE  UNCHANGED Attested!attestedVars
    BY <2>1, AttestedKept DEF Attested!attestedVars
  <2>2. CASE AvailStep
    <3>1. UNCHANGED <<hashVars, rangeVars, genesis, latestBlock>>
      BY <2>2 DEF AvailStep, contractVars, pointerVars
    <3>2. Attested!Finalize
      BY <2>2 DEF AvailStep, Finalize, Attested!Finalize
    <3>3. Attested!Grow
      BY <3>1, <3>2, AttestedKept DEF Attested!Grow
    <3> QED BY <3>3 DEF Attested!AttestedNext
  <2>3. CASE ConfigurationStep \/ RequestStep \/ Abandon
    <3>1. UNCHANGED <<head, hashVars, rangeVars, genesis, latestBlock>>
      BY <2>3 DEF ConfigurationStep, RequestStep, Abandon, updateFreeze,
                  updateFunctionIds, updateGateway, requestHeaderRange,
                  requestRotate, contractVars, pointerVars
    <3> QED BY <3>1, <2>1
  <2>4. CASE UNCHANGED vars
    <3>1. UNCHANGED <<head, hashVars, rangeVars, genesis, latestBlock>>
      BY <2>4 DEF vars, contractVars, pointerVars
    <3> QED BY <3>1, <2>1
  <2>5. CASE InitializeStep \/ GenesisStep
    BY <2>5, GenesisRefines
  <2>6. CASE FillStep
    BY <2>6, FillRefines DEF RangesMatch
  <2>7. CASE FulfilStep
    BY <2>7, CommitRefines, RotateRefines DEF FulfilStep, RangesMatch
  <2> QED BY <2>2, <2>3, <2>4, <2>5, <2>6, <2>7 DEF Next
<1> QED BY <1>1, <1>2, InitRefines, Invariance, PTL
        DEF Spec, ImplementsAttestedChain, Attested!AttestedSpec
=============================================================================
