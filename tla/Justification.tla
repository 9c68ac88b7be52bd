--------------------------- MODULE Justification ---------------------------
(***************************************************************************)
(* The way of one GRANDPA justification from the Avail node to the proof:  *)
(* the indexer (bin/indexer.rs) stores it in Redis, the fetcher            *)
(* (circuits/input/mod.rs) loads it, from Redis or, for an epoch end       *)
(* block, from grandpa_proveFinality, and the circuit                      *)
(* (circuits/builder/justification.rs) verifies it.  Each of the three     *)
(* counts the signatures in its own way.                                   *)
(*                                                                         *)
(* Authority i has public key i.  A signature is valid for exactly the     *)
(* message its authority signed.  A precommit is for the block that the    *)
(* justification finalizes or for a descendant of it.                      *)
(*                                                                         *)
(* The witness of the circuit is the one that the repository's own fetcher *)
(* and hint hand over.  The assertions of the circuit alone say less: they *)
(* leave the slots past num_authorities open (see UnsignedPadding), and    *)
(* nothing is claimed here of a witness that marks such a slot as signed.  *)
(***************************************************************************)
EXTENDS AuthoritySet

VARIABLES
    num_authorities,    \* size of the authority set that signs the block
    epoch_end,          \* the block is an epoch end block
    precommits,         \* precommits[i]: the vote of authority i
    first,              \* the authority of precommits[0]
    redis,              \* StoredJustificationData of the block
    fetched,            \* the CircuitJustification given to the circuit
    result              \* of the last attempt to prove the block

vars == <<num_authorities, epoch_end, precommits, first, redis, fetched, result>>

None == [present |-> FALSE]

Authorities == 1 .. num_authorities
Votes == {"none", "block", "descendant"}
Voters(votes) == {i \in DOMAIN votes : votes[i] # "none"}
VotersFor(votes, v) == {i \in DOMAIN votes : votes[i] = v}

-----------------------------------------------------------------------------
(* GRANDPA: external.                                                      *)

SignerId == 0   \* the authority set that signs the block
NextId == 1     \* the set that is current after it, if it ends an epoch

\* A justification finalizes the highest block that has a supermajority.
IsJustification(n, votes) ==
    LET threshold == n - (n - 1) \div 3
    IN /\ Cardinality(Voters(votes)) >= threshold
       /\ Cardinality(VotersFor(votes, "descendant")) < threshold

\* The message that authority i signed.
Message(target, id) == [target |-> target, authority_set_id |-> id]

\* Mutant of verify_signature: the message is not looked at.
verify_any_signature(i, message) == precommits[i] # "none"

verify_signature(i, message) ==
    /\ precommits[i] # "none"
    /\ message = Message(precommits[i], SignerId)

\* The authority set id in the storage of the block, and of its parent.
get_authority_set_id_at_block == IF epoch_end THEN NextId ELSE SignerId
get_authority_set_id_at_parent == SignerId

-----------------------------------------------------------------------------
(* The indexer.                                                            *)

\* Mutant of TooFewSignatures: two thirds are enough.
TooFewSignaturesStrict(signed_count) == signed_count < (num_authorities * 2) \div 3

TooFewSignatures(signed_count) == signed_count <= (num_authorities * 2) \div 3

\* A justification arrives: signatures that do not verify are dropped, and
\* it is stored if enough are left.
listen_for_justifications ==
    LET signed_message == Message(precommits[first], get_authority_set_id_at_block)
        validators == {i \in Voters(precommits) : verify_signature(i, signed_message)}
    IN
    /\ ~ redis.present
    /\ ~ TooFewSignatures(Cardinality(validators))
    /\ redis' = [present |-> TRUE,
                 signed_message |-> signed_message,
                 validator_signed |-> [i \in Authorities |-> i \in validators]]
    /\ UNCHANGED <<num_authorities, epoch_end, precommits, first, fetched, result>>

-----------------------------------------------------------------------------
(* The fetcher.                                                            *)

\* Mutant of finality_proof_message: the set id of the block itself.
finality_proof_message_at_block ==
    Message(precommits[first], get_authority_set_id_at_block)

\* The message that the signatures of a finality proof are verified with.
finality_proof_message == Message(precommits[first], get_authority_set_id_at_parent)

\* One signature that does not verify makes verify_signature panic.
FinalityProofPanics ==
    \E i \in Voters(precommits) : ~ verify_signature(i, finality_proof_message)

\* SimpleJustificationData: from the finality proof, or from Redis.
get_justification_data ==
    IF epoch_end
    THEN [signed_message |-> finality_proof_message,
          validator_signed |-> [i \in Authorities |-> i \in Voters(precommits)]]
    ELSE [signed_message |-> redis.signed_message,
          validator_signed |-> redis.validator_signed]

voting_weight(data) == Cardinality({i \in Authorities : data.validator_signed[i]})

NotEnoughVotingPower(data) == voting_weight(data) * 3 < num_authorities * 2

DummyKey == 0

\* The arrays of the circuit, padded beyond the last authority.
Padded(data) ==
    [present |-> TRUE,
     authority_set_id |-> get_authority_set_id_at_parent,
     signed_message |-> data.signed_message,
     validator_signed |->
         [i \in Slots |-> i \in Authorities /\ data.validator_signed[i]],
     pubkeys |-> [i \in Slots |-> IF i \in Authorities THEN i ELSE DummyKey],
     num_authorities |-> num_authorities]

CanTry == ~ fetched.present /\ result \in {"none", "error"}

\* No justification is stored for the block (yet).
fetch_error ==
    /\ CanTry
    /\ ~ epoch_end /\ ~ redis.present
    /\ result' = "error"
    /\ UNCHANGED <<num_authorities, epoch_end, precommits, first, redis, fetched>>

fetch_panic ==
    /\ CanTry
    /\ \/ epoch_end /\ FinalityProofPanics
       \/ /\ epoch_end \/ redis.present
          /\ NotEnoughVotingPower(get_justification_data)
    /\ result' = "panic"
    /\ UNCHANGED <<num_authorities, epoch_end, precommits, first, redis, fetched>>

get_justification_from_block ==
    /\ CanTry
    /\ IF epoch_end THEN ~ FinalityProofPanics ELSE redis.present
    /\ ~ NotEnoughVotingPower(get_justification_data)
    /\ fetched' = Padded(get_justification_data)
    /\ UNCHANGED <<num_authorities, epoch_end, precommits, first, redis, result>>

-----------------------------------------------------------------------------
(* The hint and the circuit.                                               *)

\* The hint verifies the signatures again before it hands them over.
HintSimpleJustification(j, authority_set_id) ==
    /\ j.authority_set_id = authority_set_id
    /\ \A i \in 1 .. j.num_authorities :
           j.validator_signed[i] => verify_signature(i, j.signed_message)

\* The count is over all slots.  No assertion is about the slots past
\* num_authorities: that they add nothing is a matter of the witness.
verify_voting_threshold(num_active_authorities, validator_signed) ==
    LET num_signed == Cardinality({i \in Slots : validator_signed[i]})
    IN num_signed * 3 > num_active_authorities * 2

\* No slot past the last authority is marked as signed: what the fetcher
\* does (Padded), and what the circuit itself does not assert.
UnsignedPadding(j) ==
    \A i \in Slots : i > j.num_authorities => ~ j.validator_signed[i]

\* The assertions of the circuit, for the block and the set SignerId.
verify_simple_justification(j) ==
    /\ j.num_authorities # 0
    /\ compute_authority_set_commitment(j.num_authorities, j.pubkeys)
           = compute_authority_set_hash([i \in Authorities |-> i])
    /\ j.signed_message.target = "block"
    /\ j.signed_message.authority_set_id = SignerId
    /\ \A i \in Slots : j.validator_signed[i] =>
           /\ j.pubkeys[i] # DummyKey
           /\ verify_signature(j.pubkeys[i], j.signed_message)
    /\ verify_voting_threshold(j.num_authorities, j.validator_signed)

\* The repository's prover: the witness is what the fetcher returned.
prove ==
    /\ fetched.present
    /\ fetched' = None
    /\ result' = IF /\ HintSimpleJustification(fetched, SignerId)
                    /\ verify_simple_justification(fetched)
                 THEN "proved" ELSE "unprovable"
    /\ UNCHANGED <<num_authorities, epoch_end, precommits, first, redis>>

-----------------------------------------------------------------------------
Init ==
    /\ num_authorities \in Slots
    /\ epoch_end \in BOOLEAN
    /\ precommits \in [1 .. num_authorities -> Votes]
    /\ IsJustification(num_authorities, precommits)
    /\ first \in Voters(precommits)
    /\ redis = None
    /\ fetched = None
    /\ result = "none"

FetchStep == fetch_error \/ fetch_panic \/ get_justification_from_block

Next == listen_for_justifications \/ FetchStep \/ prove

\* The indexer gets every justification; the operator tries again.
Spec ==
    /\ Init /\ [][Next]_vars
    /\ WF_vars(listen_for_justifications)
    /\ WF_vars(FetchStep)
    /\ WF_vars(prove)

-----------------------------------------------------------------------------
(* Correctness.                                                            *)

MoreThanTwoThirds(voters) == Cardinality(voters) * 3 > num_authorities * 2

\* A proof that is made from what the repository's fetcher returns means that
\* more than two thirds of the authority set voted for exactly the block,
\* however the votes for descendants are spread and whichever precommit
\* comes first.
ProvedBlockHasVotes ==
    result = "proved" => MoreThanTwoThirds(VotersFor(precommits, "block"))

\* What the fetcher accepts the circuit accepts: the thresholds of indexer,
\* fetcher and circuit agree for every size of the set, and a justification
\* with votes for descendants is not passed on with the wrong message.  The
\* operator relies on this when it takes Ok for "can be proved".
FetchedIsProvable == result # "unprovable"

SimpleJustification == Voters(precommits) = VotersFor(precommits, "block")

\* A simple justification, with all votes for the block itself, always gets
\* through, at an epoch end as well, where the indexer cannot verify it.
SimpleGoesThrough == SimpleJustification ~> result = "proved"
=============================================================================
