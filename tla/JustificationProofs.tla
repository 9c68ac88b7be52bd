------------------------ MODULE JustificationProofs ------------------------
(***************************************************************************)
(* Proofs about the three counts of signatures, for every number of slots, *)
(* every size of the authority set and every way the votes are spread.     *)
(*                                                                         *)
(* IInv says what the stored and the fetched data are in terms of the      *)
(* votes: what the fetcher hands over is always the votes for the block    *)
(* itself, and there are more than two thirds of them.                     *)
(***************************************************************************)
EXTENDS Justification, FiniteSetTheorems, TLAPS

\* GRANDPA's threshold, as in IsJustification.
Threshold(n) == n - (n - 1) \div 3

\* The votes are a justification of the block, and never change.
VotesOK ==
    /\ num_authorities \in Slots
    /\ epoch_end \in BOOLEAN
    /\ precommits \in [Authorities -> Votes]
    /\ IsJustification(num_authorities, precommits)
    /\ first \in Voters(precommits)

\* SimpleJustificationData in which the authorities in S signed message m.
DataOf(m, S) ==
    [signed_message |-> m, validator_signed |-> [i \in Authorities |-> i \in S]]

\* What the indexer has stored: the signatures for the vote of precommits[0],
\* more than two thirds of them.
RedisOK ==
    \/ redis = None
    \/ LET m == Message(precommits[first], get_authority_set_id_at_block)
           S == {i \in Voters(precommits) : verify_signature(i, m)}
       IN /\ redis.present
          /\ redis.signed_message = m
          /\ redis.validator_signed = [i \in Authorities |-> i \in S]
          /\ ~ TooFewSignatures(Cardinality(S))

BlockMessage == Message("block", SignerId)
BlockVoters == VotersFor(precommits, "block")

\* What the fetcher hands over: the votes for the block.
FetchedOK ==
    \/ fetched = None
    \/ /\ fetched = Padded(DataOf(BlockMessage, BlockVoters))
       /\ MoreThanTwoThirds(BlockVoters)

IInv ==
    /\ VotesOK
    /\ RedisOK
    /\ FetchedOK
    /\ ProvedBlockHasVotes
    /\ FetchedIsProvable

-----------------------------------------------------------------------------
(* Arithmetic of the thresholds.                                           *)

\* The indexer's, the circuit's and GRANDPA's threshold are the same number
\* of signatures, although each is computed with a different rounding; the
\* fetcher's is weaker, and lets pass what the others do.
LEMMA ThresholdsAgree ==
    ASSUME NEW n \in Nat \ {0}, NEW k \in Nat
    PROVE  /\ k >= Threshold(n) <=> k * 3 > n * 2
           /\ ~ (k <= (n * 2) \div 3) <=> k * 3 > n * 2
           /\ k * 3 > n * 2 => ~ (k * 3 < n * 2)
PROOF BY DEF Threshold

\* Sets of authorities are finite.
LEMMA AuthoritySetsFinite ==
    ASSUME VotesOK, NEW S, S \subseteq Authorities
    PROVE  IsFiniteSet(S) /\ Cardinality(S) \in Nat
PROOF
<1>1. num_authorities \in Nat
  BY SlotsAssumption DEF VotesOK, Slots
<1>2. IsFiniteSet(Authorities)
  BY <1>1, FS_Interval DEF Authorities
<1>3. IsFiniteSet(S)
  BY <1>2, FS_Subset
<1> QED BY <1>3, FS_CardinalityType

\* More than two thirds cannot all have voted for descendants: the
\* justification would be one of a descendant.
LEMMA NotAllDescendants ==
    ASSUME VotesOK
    PROVE  ~ MoreThanTwoThirds(VotersFor(precommits, "descendant"))
PROOF
<1> DEFINE D == VotersFor(precommits, "descendant")
<1>1. num_authorities \in Nat \ {0}
  BY SlotsAssumption DEF VotesOK, Slots
<1>2. D \subseteq Authorities
  BY DEF VotesOK, VotersFor
<1>3. Cardinality(D) \in Nat
  BY <1>2, AuthoritySetsFinite
<1>4. Cardinality(D) < Threshold(num_authorities)
  BY DEF VotesOK, IsJustification, Threshold
<1> HIDE DEF D
<1>5. Threshold(num_authorities) \in Int
  BY <1>1 DEF Threshold
<1>6. ~ (Cardinality(D) >= Threshold(num_authorities))
  BY <1>3, <1>4, <1>5
<1>7. ~ (Cardinality(D) * 3 > num_authorities * 2)
  BY <1>1, <1>3, <1>6, ThresholdsAgree
<1> QED BY <1>7 DEF MoreThanTwoThirds, D

\* All voters together are more than two thirds.
LEMMA VotersAreEnough ==
    ASSUME VotesOK
    PROVE  MoreThanTwoThirds(Voters(precommits))
PROOF
<1>1. num_authorities \in Nat \ {0}
  BY SlotsAssumption DEF VotesOK, Slots
<1>2. Cardinality(Voters(precommits)) \in Nat
  BY AuthoritySetsFinite DEF VotesOK, Voters
<1>3. Cardinality(Voters(precommits)) >= Threshold(num_authorities)
  BY DEF VotesOK, IsJustification, Threshold
<1> QED BY <1>1, <1>2, <1>3, ThresholdsAgree DEF MoreThanTwoThirds

\* Signatures that verify for one message are votes for one target; if they
\* are more than two thirds, the target is the block.
LEMMA SameVoteIsForBlock ==
    ASSUME VotesOK, NEW S, MoreThanTwoThirds(S),
           S = {i \in Voters(precommits) :
                    verify_signature(i, Message(precommits[first], SignerId))}
    PROVE  precommits[first] = "block" /\ S = BlockVoters
PROOF
<1>1. /\ precommits[first] \in {"block", "descendant"}
      /\ DOMAIN precommits = Authorities
  BY DEF VotesOK, Voters, Votes
<1>2. ASSUME NEW i
      PROVE  verify_signature(i, Message(precommits[first], SignerId)) <=>
                 precommits[i] # "none" /\ precommits[i] = precommits[first]
  BY DEF verify_signature, Message
<1>3. S = VotersFor(precommits, precommits[first])
  BY <1>1, <1>2 DEF Voters, VotersFor
<1> QED BY <1>1, <1>3, NotAllDescendants DEF BlockVoters

-----------------------------------------------------------------------------
(* The circuit.                                                            *)

\* The keys that go into the circuit's commitment: as many as the witness says
\* that there are authorities, or one for each slot if it says more.
LEMMA CommittedKeys ==
    ASSUME NEW n \in Nat \ {0}, NEW keys, DOMAIN keys = Slots
    PROVE  \E k \in 1 .. MAX_NUM_AUTHORITIES :
               /\ k = n \/ (k = MAX_NUM_AUTHORITIES /\ n > k)
               /\ compute_authority_set_commitment(n, keys)
                      = ChainedHash([i \in 1 .. k |-> keys[i]])
PROOF
<1> DEFINE M == MAX_NUM_AUTHORITIES
           k == IF n <= M THEN n ELSE M
           enabled == {i \in 1 .. M - 1 : \A j \in 1 .. i : j # n}
<1>1. M \in Nat \ {0} /\ k \in 1 .. M /\ k \in Nat \ {0} /\ (k = n \/ (k = M /\ n > k))
  BY SlotsAssumption
<1>2. enabled = 1 .. k - 1
  <2>1. ASSUME NEW i \in 1 .. k - 1 PROVE i \in enabled
    BY <1>1
  <2>2. ASSUME NEW i \in enabled PROVE i \in 1 .. k - 1
    <3>1. ~ (n \in 1 .. i) /\ i \in 1 .. M - 1
      OBVIOUS
    <3> QED BY <3>1, <1>1
  <2> QED BY <2>1, <2>2
<1> HIDE DEF k
<1>3. 1 + Cardinality(enabled) = k
  <2>1. Cardinality(1 .. k - 1) = IF 1 > k - 1 THEN 0 ELSE k - 1 - 1 + 1
    BY <1>1, FS_Interval
  <2> HIDE DEF enabled
  <2> QED BY <1>1, <1>2, <2>1
<1>4. SubSeq(keys, 1, k) = [i \in 1 .. k |-> keys[i]]
  BY <1>1 DEF Slots
<1>5. compute_authority_set_commitment(n, keys) = ChainedHash([i \in 1 .. k |-> keys[i]])
  BY <1>3, <1>4 DEF compute_authority_set_commitment
<1> QED BY <1>1, <1>5

\* The circuit's commitment over all slots stops after the last authority:
\* for the padded keys it is the commitment of the set itself.
LEMMA CommitmentOfPadded ==
    ASSUME VotesOK, NEW data
    PROVE  compute_authority_set_commitment(num_authorities, Padded(data).pubkeys)
               = compute_authority_set_hash([i \in Authorities |-> i])
PROOF
<1> DEFINE n == num_authorities
           keys == Padded(data).pubkeys
<1>1. n \in Nat \ {0} /\ n <= MAX_NUM_AUTHORITIES /\ MAX_NUM_AUTHORITIES \in Nat
  BY SlotsAssumption DEF VotesOK, Slots
<1>2. keys = [i \in Slots |-> IF i \in Authorities THEN i ELSE DummyKey]
  BY DEF Padded
<1> HIDE DEF n, keys
<1>3. DOMAIN keys = Slots /\ \A i \in 1 .. n : keys[i] = i
  BY <1>1, <1>2 DEF Slots, Authorities, n
<1>4. PICK k \in 1 .. MAX_NUM_AUTHORITIES :
          /\ k = n \/ (k = MAX_NUM_AUTHORITIES /\ n > k)
          /\ compute_authority_set_commitment(n, keys) = ChainedHash([i \in 1 .. k |-> keys[i]])
  BY <1>1, <1>3, CommittedKeys
<1>5. k = n
  BY <1>1, <1>4
<1>6. [i \in 1 .. k |-> keys[i]] = [i \in 1 .. n |-> i]
  BY <1>3, <1>5
<1> QED BY <1>4, <1>6 DEF n, keys, compute_authority_set_hash, Authorities

\* The slots that count as signed are the authorities that signed.
LEMMA SignedSlots ==
    ASSUME VotesOK, NEW data
    PROVE  {i \in Slots : Padded(data).validator_signed[i]}
               = {i \in Authorities : data.validator_signed[i]}
PROOF
<1>1. Padded(data).validator_signed =
          [i \in Slots |-> i \in Authorities /\ data.validator_signed[i]]
  BY DEF Padded
<1>2. Authorities \subseteq Slots
  BY SlotsAssumption DEF VotesOK, Slots, Authorities
<1> QED BY <1>1, <1>2

\* A witness of the circuit: keys, marks and a message of any kind.
IsWitness(j) ==
    /\ j.num_authorities \in Nat
    /\ DOMAIN j.pubkeys = Slots

\* The circuit accepts a witness of any origin that leaves the slots past
\* num_authorities unsigned only if more than two thirds of the authorities
\* voted for the block.  The commitment fixes the number of authorities and
\* their keys, so no authority counts twice.  Without UnsignedPadding the
\* assertions do not imply it.
THEOREM CircuitSound ==
    ASSUME VotesOK, NEW j, IsWitness(j), UnsignedPadding(j),
           verify_simple_justification(j)
    PROVE  MoreThanTwoThirds(BlockVoters)
PROOF
<1> DEFINE S == {i \in Slots : j.validator_signed[i]}
<1>1. /\ j.num_authorities \in Nat \ {0}
      /\ compute_authority_set_commitment(j.num_authorities, j.pubkeys)
             = compute_authority_set_hash([i \in Authorities |-> i])
      /\ j.signed_message.target = "block"
      /\ \A i \in Slots : j.validator_signed[i] =>
             j.pubkeys[i] # DummyKey /\ verify_signature(j.pubkeys[i], j.signed_message)
      /\ Cardinality(S) * 3 > j.num_authorities * 2
  BY DEF verify_simple_justification, verify_voting_threshold, IsWitness
<1>2. PICK k \in 1 .. MAX_NUM_AUTHORITIES :
          /\ k = j.num_authorities \/ (k = MAX_NUM_AUTHORITIES /\ j.num_authorities > k)
          /\ compute_authority_set_commitment(j.num_authorities, j.pubkeys)
                 = ChainedHash([i \in 1 .. k |-> j.pubkeys[i]])
  BY <1>1, CommittedKeys DEF IsWitness
<1>3. num_authorities \in Nat \ {0} /\ k \in Nat \ {0} /\ MAX_NUM_AUTHORITIES \in Nat
  BY SlotsAssumption DEF VotesOK, Slots
<1>4. [i \in 1 .. k |-> j.pubkeys[i]] = [i \in 1 .. num_authorities |-> i]
  <2> DEFINE K == [i \in 1 .. k |-> j.pubkeys[i]]
             A == [i \in 1 .. num_authorities |-> i]
  <2>1. ChainedHash(K) = ChainedHash(A)
    BY <1>1, <1>2 DEF compute_authority_set_hash, Authorities
  <2> HIDE DEF K, A
  <2>2. K = A
    BY <2>1 DEF ChainedHash
  <2> QED BY <2>2 DEF K, A
<1>5. 1 .. k = 1 .. num_authorities
  <2>1. /\ DOMAIN [i \in 1 .. k |-> j.pubkeys[i]] = 1 .. k
        /\ DOMAIN [i \in 1 .. num_authorities |-> i] = 1 .. num_authorities
    OBVIOUS
  <2> QED BY <1>4, <2>1
<1>6. k = num_authorities
  <2>1. k \in 1 .. num_authorities /\ num_authorities \in 1 .. k
    BY <1>3, <1>5
  <2> QED BY <1>3, <2>1
<1>7. \A i \in 1 .. num_authorities : j.pubkeys[i] = i
  <2> TAKE i \in 1 .. num_authorities
  <2>1. [x \in 1 .. k |-> j.pubkeys[x]][i] = j.pubkeys[i]
    BY <1>6
  <2>2. [x \in 1 .. num_authorities |-> x][i] = i
    OBVIOUS
  <2> QED BY <1>4, <2>1, <2>2
<1>8. num_authorities <= j.num_authorities
  BY <1>1, <1>2, <1>3, <1>6
<1>9. S \subseteq BlockVoters
  <2> SUFFICES ASSUME NEW i \in S PROVE i \in BlockVoters
    OBVIOUS
  <2>1. /\ i \in Slots /\ j.validator_signed[i]
        /\ verify_signature(j.pubkeys[i], j.signed_message)
    BY <1>1
  <2>2. i \in 1 .. num_authorities
    <3>1. ~ (i > j.num_authorities)
      BY <2>1 DEF UnsignedPadding
    <3> QED BY <1>1, <1>2, <1>3, <1>6, <2>1, <3>1 DEF Slots
  <2>3. j.signed_message = Message(precommits[i], SignerId)
    BY <1>7, <2>1, <2>2 DEF verify_signature
  <2>4. precommits[i] = "block"
    BY <1>1, <2>3 DEF Message
  <2> QED BY <2>2, <2>4 DEF BlockVoters, VotersFor, VotesOK, Authorities
<1> HIDE DEF S
<1>10. BlockVoters \subseteq Authorities
  BY DEF BlockVoters, VotersFor, VotesOK
<1>11. IsFiniteSet(BlockVoters) /\ Cardinality(BlockVoters) \in Nat
  BY <1>10, AuthoritySetsFinite
<1>12. Cardinality(S) <= Cardinality(BlockVoters) /\ Cardinality(S) \in Nat
  BY <1>9, <1>11, FS_Subset, FS_CardinalityType
<1> QED BY <1>1, <1>3, <1>8, <1>11, <1>12 DEF MoreThanTwoThirds

\* What the fetcher hands over is such a witness.
LEMMA PaddedIsUnsigned ==
    ASSUME VotesOK, NEW data
    PROVE  IsWitness(Padded(data)) /\ UnsignedPadding(Padded(data))
PROOF
<1> DEFINE j == Padded(data)
<1>1. /\ j.num_authorities = num_authorities
      /\ DOMAIN j.pubkeys = Slots
      /\ \A i \in Slots : j.validator_signed[i] => i \in Authorities
  BY DEF Padded
<1>2. num_authorities \in Nat
  BY SlotsAssumption DEF VotesOK, Slots
<1> HIDE DEF j
<1>3. ASSUME NEW i \in Slots, i > j.num_authorities PROVE ~ j.validator_signed[i]
  <2>1. ~ (i \in Authorities)
    BY <1>1, <1>2, <1>3 DEF Authorities, Slots
  <2> QED BY <1>1, <2>1
<1> QED BY <1>1, <1>2, <1>3 DEF IsWitness, UnsignedPadding, j

\* The votes for the block, more than two thirds, pass the hint and every
\* assertion of the circuit.
LEMMA CircuitComplete ==
    ASSUME VotesOK, MoreThanTwoThirds(BlockVoters)
    PROVE  LET j == Padded(DataOf(BlockMessage, BlockVoters))
           IN HintSimpleJustification(j, SignerId) /\ verify_simple_justification(j)
PROOF
<1> DEFINE data == DataOf(BlockMessage, BlockVoters)
           j == Padded(data)
<1>1. /\ num_authorities \in Nat \ {0}
      /\ Authorities \subseteq Slots
      /\ BlockVoters \subseteq Authorities
  BY SlotsAssumption DEF VotesOK, Slots, Authorities, BlockVoters, VotersFor
<1>2. /\ j.authority_set_id = SignerId
      /\ j.signed_message = BlockMessage
      /\ j.num_authorities = num_authorities
      /\ \A i \in Slots : j.validator_signed[i] <=> i \in BlockVoters
      /\ \A i \in BlockVoters : j.pubkeys[i] = i
  BY <1>1 DEF Padded, DataOf, get_authority_set_id_at_parent
<1>3. \A i \in BlockVoters : verify_signature(i, BlockMessage)
  BY DEF BlockVoters, VotersFor, verify_signature, BlockMessage
<1>4. \A i \in BlockVoters : i # DummyKey
  BY <1>1 DEF Authorities, DummyKey
<1>5. compute_authority_set_commitment(num_authorities, j.pubkeys)
          = compute_authority_set_hash([i \in Authorities |-> i])
  BY CommitmentOfPadded
<1> HIDE DEF j
<1>6. {i \in Slots : j.validator_signed[i]} = BlockVoters
  BY <1>1, <1>2
<1>7. verify_voting_threshold(num_authorities, j.validator_signed)
  BY <1>6 DEF verify_voting_threshold, MoreThanTwoThirds
<1>8. BlockMessage.target = "block" /\ BlockMessage.authority_set_id = SignerId
  BY DEF BlockMessage, Message
<1>9. HintSimpleJustification(j, SignerId)
  BY <1>1, <1>2, <1>3 DEF HintSimpleJustification, Authorities
<1>10. verify_simple_justification(j)
  BY <1>1, <1>2, <1>3, <1>4, <1>5, <1>7, <1>8 DEF verify_simple_justification
<1> QED BY <1>9, <1>10 DEF j

-----------------------------------------------------------------------------
(* The indexer and the fetcher.                                            *)

\* Data that the fetcher accepts, from Redis or from a finality proof, are
\* the votes for the block.
LEMMA FetchedAreBlockVotes ==
    ASSUME VotesOK, RedisOK, IF epoch_end THEN ~ FinalityProofPanics ELSE redis.present
    PROVE  /\ get_justification_data = DataOf(BlockMessage, BlockVoters)
           /\ MoreThanTwoThirds(BlockVoters)
PROOF
<1> DEFINE m == Message(precommits[first], SignerId)
           S == {i \in Voters(precommits) : verify_signature(i, m)}
<1>1. CASE epoch_end
  <2>1. S = Voters(precommits)
    BY <1>1 DEF FinalityProofPanics, finality_proof_message,
                get_authority_set_id_at_parent
  <2>2. get_justification_data = DataOf(m, S)
    <3>1. finality_proof_message = m
      BY DEF finality_proof_message, get_authority_set_id_at_parent
    <3> HIDE DEF m, S
    <3> QED BY <1>1, <2>1, <3>1 DEF get_justification_data, DataOf
  <2>3. MoreThanTwoThirds(S)
    BY <2>1, VotersAreEnough
  <2>4. precommits[first] = "block" /\ S = BlockVoters
    BY <2>3, SameVoteIsForBlock
  <2>5. m = BlockMessage
    BY <2>4 DEF BlockMessage
  <2> HIDE DEF m, S
  <2> QED BY <2>2, <2>3, <2>4, <2>5
<1>2. CASE ~ epoch_end
  <2>1. redis # None
    BY <1>2 DEF None
  <2>2. get_authority_set_id_at_block = SignerId
    BY <1>2 DEF get_authority_set_id_at_block
  <2>3. /\ redis.signed_message = m
        /\ redis.validator_signed = [i \in Authorities |-> i \in S]
        /\ ~ TooFewSignatures(Cardinality(S))
    BY <2>1, <2>2 DEF RedisOK
  <2>4. get_justification_data = DataOf(m, S)
    <3> HIDE DEF m, S
    <3> QED BY <1>2, <2>3 DEF get_justification_data, DataOf
  <2>5. S \subseteq Authorities
    BY DEF Voters, VotesOK
  <2>6. MoreThanTwoThirds(S)
    <3> HIDE DEF S
    <3>1. Cardinality(S) \in Nat
      BY <2>5, AuthoritySetsFinite
    <3>2. num_authorities \in Nat \ {0}
      BY SlotsAssumption DEF VotesOK, Slots
    <3> QED BY <2>3, <3>1, <3>2, ThresholdsAgree DEF TooFewSignatures, MoreThanTwoThirds
  <2>7. precommits[first] = "block" /\ S = BlockVoters
    BY <2>6, SameVoteIsForBlock
  <2>8. m = BlockMessage
    BY <2>7 DEF BlockMessage
  <2> HIDE DEF m, S
  <2> QED BY <2>4, <2>6, <2>7, <2>8
<1> QED BY <1>1, <1>2

-----------------------------------------------------------------------------
\* A block that is waiting for its justification satisfies the invariant.
LEMMA InitIInv == Init => IInv
PROOF BY DEF Init, IInv, VotesOK, Authorities, RedisOK, FetchedOK,
             ProvedBlockHasVotes, FetchedIsProvable

\* Every step of the indexer, of the fetcher and of the prover keeps it.
LEMMA NextIInv == IInv /\ [Next]_vars => IInv'
PROOF
<1> SUFFICES ASSUME IInv, [Next]_vars PROVE IInv'
  OBVIOUS
<1>1. UNCHANGED <<num_authorities, epoch_end, precommits, first>>
  BY DEF Next, vars, listen_for_justifications, FetchStep, fetch_error, fetch_panic,
         get_justification_from_block, prove
<1>2. VotesOK'
  BY <1>1 DEF IInv, VotesOK, Authorities
<1>3. ASSUME UNCHANGED redis PROVE RedisOK'
  BY <1>1, <1>3 DEF IInv, RedisOK, verify_signature, TooFewSignatures, Authorities,
                    get_authority_set_id_at_block
<1>4. ASSUME UNCHANGED fetched PROVE FetchedOK'
  BY <1>1, <1>4 DEF IInv, FetchedOK, Padded, DataOf, BlockVoters, Authorities,
                    MoreThanTwoThirds, get_authority_set_id_at_parent
<1>5. ASSUME result' \in {result, "error", "panic"}
      PROVE  ProvedBlockHasVotes' /\ FetchedIsProvable'
  BY <1>1, <1>5 DEF IInv, ProvedBlockHasVotes, FetchedIsProvable, MoreThanTwoThirds
<1>6. CASE listen_for_justifications
  <2>1. UNCHANGED <<fetched, result>>
    BY <1>6 DEF listen_for_justifications
  <2>2. RedisOK'
    <3> DEFINE m == Message(precommits[first], get_authority_set_id_at_block)
               S == {i \in Voters(precommits) : verify_signature(i, m)}
    <3>1. /\ redis' = [present |-> TRUE, signed_message |-> m,
                       validator_signed |-> [i \in Authorities |-> i \in S]]
          /\ ~ TooFewSignatures(Cardinality(S))
      BY <1>6 DEF listen_for_justifications
    <3>2. m' = m /\ S' = S /\ Authorities' = Authorities
      BY <1>1 DEF get_authority_set_id_at_block, verify_signature, Authorities
    <3>3. (~ TooFewSignatures(Cardinality(S)))'
      BY <1>1, <3>1, <3>2 DEF TooFewSignatures
    <3>4. /\ redis'.present
          /\ redis'.signed_message = m'
          /\ redis'.validator_signed = [i \in Authorities' |-> i \in S']
      <4> HIDE DEF m, S
      <4> QED BY <3>1, <3>2
    <3> QED BY <3>3, <3>4 DEF RedisOK
  <2> QED BY <1>2, <1>4, <1>5, <2>1, <2>2 DEF IInv
<1>7. CASE fetch_error \/ fetch_panic
  <2>1. UNCHANGED <<redis, fetched>> /\ result' \in {"error", "panic"}
    BY <1>7 DEF fetch_error, fetch_panic
  <2> QED BY <1>2, <1>3, <1>4, <1>5, <2>1 DEF IInv
<1>8. CASE get_justification_from_block
  <2>1. UNCHANGED <<redis, result>>
    BY <1>8 DEF get_justification_from_block
  <2>2. /\ fetched' = Padded(DataOf(BlockMessage, BlockVoters))
        /\ MoreThanTwoThirds(BlockVoters)
    BY <1>8, FetchedAreBlockVotes DEF get_justification_from_block, IInv
  <2>3. FetchedOK'
    BY <1>1, <2>2 DEF FetchedOK, Padded, DataOf, BlockVoters, Authorities,
                      MoreThanTwoThirds, get_authority_set_id_at_parent
  <2> QED BY <1>2, <1>3, <1>5, <2>1, <2>3 DEF IInv
<1>9. CASE prove
  <2> DEFINE data == DataOf(BlockMessage, BlockVoters)
  <2>1. fetched = Padded(data)
    BY <1>9 DEF prove, IInv, FetchedOK, None
  <2>2. HintSimpleJustification(fetched, SignerId) /\ verify_simple_justification(fetched)
    <3>1. MoreThanTwoThirds(BlockVoters)
      BY <1>9 DEF prove, IInv, FetchedOK, None
    <3> QED BY <2>1, <3>1, CircuitComplete DEF IInv
  <2>3. result' = "proved" /\ fetched' = None /\ UNCHANGED redis
    BY <1>9, <2>2 DEF prove
  <2>4. MoreThanTwoThirds(BlockVoters)
    <3> HIDE DEF data
    <3> QED BY <2>1, <2>2, CircuitSound, PaddedIsUnsigned DEF IInv
  <2>5. ProvedBlockHasVotes' /\ FetchedIsProvable'
    BY <1>1, <2>3, <2>4 DEF ProvedBlockHasVotes, FetchedIsProvable, MoreThanTwoThirds,
                            BlockVoters
  <2>6. FetchedOK'
    BY <2>3 DEF FetchedOK
  <2> QED BY <1>2, <1>3, <2>3, <2>5, <2>6 DEF IInv
<1>10. CASE UNCHANGED vars
  BY <1>2, <1>3, <1>4, <1>5, <1>10 DEF vars, IInv
<1> QED BY <1>6, <1>7, <1>8, <1>9, <1>10 DEF Next, FetchStep

\* The inductive invariant holds in every reachable state.
THEOREM Invariance == Spec => []IInv
PROOF BY InitIInv, NextIInv, PTL DEF Spec

\* The repository's prover proves a block only if more than two thirds of its
\* authority set voted for it, for every size of the set and every split of
\* the votes.  CircuitSound is the circuit's part of it.
THEOREM ProvedHasVotes == Spec => []ProvedBlockHasVotes
PROOF
<1>1. IInv => ProvedBlockHasVotes
  BY DEF IInv
<1> QED BY <1>1, Invariance, PTL

\* The circuit accepts whatever the fetcher accepts.
THEOREM FetchedAlwaysProvable == Spec => []FetchedIsProvable
PROOF
<1>1. IInv => FetchedIsProvable
  BY DEF IInv
<1> QED BY <1>1, Invariance, PTL
=============================================================================
