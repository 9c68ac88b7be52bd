------------------------------- MODULE Rotate -------------------------------
(***************************************************************************)
(* The rotate circuit, circuits/rotate.rs and circuits/builder/rotate.rs:  *)
(* from the bytes of an epoch end header that the current authority set    *)
(* justified it extracts the commitment to the next authority set.         *)
(*                                                                         *)
(* The bytes of the header, the justification, the number of authorities,  *)
(* their keys and the position of the consensus log in the header come     *)
(* from hints.  The prover is either the repository's, which computes them *)
(* with get_header_rotate and pads the header with zeros, or any other.    *)
(* Of the latter the circuit does not assert all that the output depends   *)
(* on: it leaves the bytes past header_size open, and votes in slots past  *)
(* the last authority (module Justification).  What holds of every prover  *)
(* is therefore stated under two conditions, by_set and GrandpaLogsOnly.   *)
(*                                                                         *)
(* External: an authority set signs finalized headers only, and only those *)
(* of its own epoch.                                                       *)
(***************************************************************************)
EXTENDS AuthoritySet, HeaderCodec

CONSTANTS
    Header,         \* Header[b]: the finalized header of block b
    Authorities,    \* Authorities[id]: the keys of authority set id
    AnyNumber,      \* numbers of authorities that any other prover claims
    AnyPadding      \* bytes that it may have past the end of a header

Blocks == DOMAIN Header
SetIds == DOMAIN Authorities

IsScheduledChange(log) == log.flag = CONSENSUS /\ log.engine = FRNK
EpochEnd(b) == \E i \in DOMAIN Header[b].logs : IsScheduledChange(Header[b].logs[i])

DigestItems == [flag : Byte, engine : ByteArray(4), value : Seq(Byte)]

\* Fields and keys are bytes of the expected length; block numbers and
\* numbers of authorities fit in 32 bits.
ASSUME FieldsAssumption ==
    /\ \A b \in Blocks :
           /\ IsU32(b)
           /\ {Header[b].hash, Header[b].parent_hash, Header[b].state_root,
               Header[b].extrinsics_root, Header[b].data_root} \subseteq ByteArray(HASH_SIZE)
           /\ Header[b].logs \in Seq(DigestItems)
           /\ Header[b].extension \in Seq(Byte)
    /\ \A id \in SetIds :
           /\ id \in Nat /\ IsU32(Len(Authorities[id]))
           /\ Authorities[id] \in Seq(ByteArray(PUBKEY_LENGTH))

\* `signer` is the set whose votes finalize the header; hashes are unique;
\* an epoch end header announces the next set, which fits the circuit; the
\* genesis header announces nothing.
ASSUME HeadersAssumption ==
    /\ \A b \in Blocks :
           /\ Header[b].number = b
           /\ EpochEnd(b) => b # 0
           /\ Header[b].signer \in SetIds
           /\ EpochEnd(b) =>
                  /\ Header[b].signer + 1 \in SetIds
                  /\ \A i \in DOMAIN Header[b].logs :
                         IsScheduledChange(Header[b].logs[i]) =>
                             Header[b].logs[i] =
                                 ScheduledChange(Authorities[Header[b].signer + 1])
    /\ \A b, c \in Blocks :
           /\ Header[b].hash = Header[c].hash => b = c
           /\ EpochEnd(b) /\ EpochEnd(c) /\ Header[b].signer = Header[c].signer => b = c
    /\ \A id \in SetIds : Len(Authorities[id]) \in 1 .. MAX_NUM_AUTHORITIES

ASSUME PaddingAssumption == AnyPadding \subseteq ByteArray(MAX_HEADER_SIZE)

VARIABLES
    current_authority_set_id,   \* input of the circuit
    prover,                     \* "repository" or "any"
    stage,                      \* "hint", "circuit", "proved", "rejected", "panic"
    witness,                    \* the RotateVariable and the justification
    new_authority_set_hash      \* output of the circuit

vars == <<current_authority_set_id, prover, stage, witness, new_authority_set_hash>>

None == [present |-> FALSE]

Encoded == [b \in Blocks |-> EncodeHeader(Header[b])]

\* The bytes of a header with others than zeros past header_size.
WithPadding(encoded, padding) ==
    [i \in 1 .. MAX_HEADER_SIZE |-> IF i <= Len(encoded) THEN encoded[i] ELSE padding[i]]

\* Where log i starts in the bytes of header b.
LogStart(b, i) ==
    LET logs == Header[b].logs
    IN 3 * HASH_SIZE + Len(Compact(b)) + Len(Compact(Len(logs)))
           + Len(FlattenSeq([j \in 1 .. i - 1 |-> EncodeLog(logs[j])]))

\* The last epoch end of a set, 0 if its epoch is not over (module
\* LastJustifiedBlock).
last_justified_block(id) ==
    IF \E b \in Blocks : EpochEnd(b) /\ Header[b].signer = id
    THEN CHOOSE b \in Blocks : EpochEnd(b) /\ Header[b].signer = id
    ELSE 0

\* The set that is current in the state of block b.
get_authorities(b) == Authorities[Header[b].signer + (IF EpochEnd(b) THEN 1 ELSE 0)]

\* The Blake2b hash of the bytes of header b up to header_size.
hash_encoded_header(b) == Header[b].hash

\* A precommit of set id for block b.
Precommit(b, id) == EncodePrecommit(hash_encoded_header(b), b, 7, id)

-----------------------------------------------------------------------------
(* The hint of the repository.                                             *)

FirstScheduledChange(b) ==
    CHOOSE i \in DOMAIN Header[b].logs :
        /\ IsScheduledChange(Header[b].logs[i])
        /\ \A j \in 1 .. i - 1 : ~ IsScheduledChange(Header[b].logs[j])

\* The assertions of get_header_rotate on the log it has found.
LogMatches(value, authorities) ==
    LET start == 1 + Len(Compact(Len(authorities)))
        chunks == (Len(value) - start) \div VALIDATOR_LENGTH
        chunk(i) == Subarray(value, start + (i - 1) * VALIDATOR_LENGTH, VALIDATOR_LENGTH)
    IN /\ value[1] = 1
       /\ chunks <= Len(authorities)
       /\ \A i \in 1 .. chunks :
              chunk(i) = authorities[i] \o LittleEndian(1, WEIGHT_LENGTH)
       /\ Subarray(value, start + chunks * VALIDATOR_LENGTH, DELAY_LENGTH)
              = Zeros(DELAY_LENGTH)

HeaderRotatePanics(b) ==
    \/ b = 0
    \/ ~ EpochEnd(b)
    \/ Len(Encoded[b]) > MAX_HEADER_SIZE
    \/ ~ LogMatches(Header[b].logs[FirstScheduledChange(b)].value, get_authorities(b))

\* Where the byte before the log is: past the fixed fields and the earlier
\* logs.  The byte that holds the number of logs makes up for the one that
\* the circuit skips.
start_position(b) ==
    HASH_SIZE + Len(Compact(b)) + HASH_SIZE + HASH_SIZE
    + Len(FlattenSeq([i \in 1 .. FirstScheduledChange(b) - 1 |->
                          EncodeLog(Header[b].logs[i])]))

DUMMY_PUBLIC_KEY == Zeros(PUBKEY_LENGTH)

PaddedKeys(keys) ==
    [i \in Slots |-> IF i <= Len(keys) THEN keys[i] ELSE DUMMY_PUBLIC_KEY]

\* The header and the justification that the fetcher returns for it, which
\* has the votes of more than two thirds of the set (module Justification).
get_header_rotate(b) ==
    [present |-> TRUE, block |-> b, header_size |-> Len(Encoded[b]),
     header_bytes |-> Padded(Encoded[b]),
     precommit |-> Precommit(b, Header[b].signer), by_set |-> TRUE,
     epoch_end_block_number |-> b,
     target_header_num_authorities |-> Len(get_authorities(b)),
     next_authority_set_start_position |-> start_position(b),
     new_pubkeys |-> PaddedKeys(get_authorities(b))]

RotateHint ==
    LET b == last_justified_block(current_authority_set_id)
    IN
    /\ stage = "hint" /\ prover = "repository"
    /\ IF HeaderRotatePanics(b) \/ Len(get_authorities(b)) > MAX_NUM_AUTHORITIES
       THEN stage' = "panic" /\ UNCHANGED witness
       ELSE stage' = "circuit" /\ witness' = get_header_rotate(b)
    /\ UNCHANGED <<current_authority_set_id, prover, new_authority_set_hash>>

-----------------------------------------------------------------------------
(* The circuit.                                                            *)

CONSENSUS_ENGINE_ID_PREFIX_LENGTH == 6
MAX_PREFIX_LENGTH ==
    CONSENSUS_ENGINE_ID_PREFIX_LENGTH + MAX_COMPACT_UINT_BYTES + 1 + MAX_COMPACT_UINT_BYTES
MAX_SUBARRAY_SIZE == MAX_NUM_AUTHORITIES * VALIDATOR_LENGTH + DELAY_LENGTH

\* Mutant of verify_consensus_log: the engine id is not compared.
verify_consensus_flag(prefix) == prefix[2] = CONSENSUS

\* One byte is skipped, then the flag and the engine id.
verify_consensus_log(prefix) ==
    /\ prefix[2] = CONSENSUS
    /\ Subarray(prefix, 2, 4) = FRNK

\* The index after the message length, whose value is not looked at.
ScheduledChangeFlagAt(prefix) ==
    LET compact == Subarray(prefix, CONSENSUS_ENGINE_ID_PREFIX_LENGTH, MAX_COMPACT_UINT_BYTES)
    IN CONSENSUS_ENGINE_ID_PREFIX_LENGTH
           + get_compact_int_byte_length(compress_mode(compact))

verify_scheduled_change_message_length_and_flag(prefix) ==
    /\ ValidCompactInt(Subarray(prefix, CONSENSUS_ENGINE_ID_PREFIX_LENGTH,
                                MAX_COMPACT_UINT_BYTES))
    /\ prefix[ScheduledChangeFlagAt(prefix) + 1] = 1

EncodedNumAuthorities(prefix) ==
    Subarray(prefix, ScheduledChangeFlagAt(prefix) + 1, MAX_COMPACT_UINT_BYTES)

verify_encoded_num_authorities(prefix, num_authorities) ==
    /\ ValidCompactInt(EncodedNumAuthorities(prefix))
    /\ decode_compact_int(EncodedNumAuthorities(prefix)) = num_authorities

\* Mutant of TotalPrefixLength: the number of authorities takes one byte.
PrefixLengthOneByte(prefix) == ScheduledChangeFlagAt(prefix) + 2

TotalPrefixLength(prefix) ==
    ScheduledChangeFlagAt(prefix) + 1
        + get_compact_int_byte_length(compress_mode(EncodedNumAuthorities(prefix)))

\* Keys and weights up to the last validator, and the delay after it.
verify_validators(encoded, num_authorities, new_pubkeys) ==
    \A i \in Slots :
        LET idx == (i - 1) * VALIDATOR_LENGTH
            validator_disabled == num_authorities \in 1 .. i - 1
        IN /\ \/ validator_disabled
              \/ /\ Subarray(encoded, idx, PUBKEY_LENGTH) = new_pubkeys[i]
                 /\ Subarray(encoded, idx + PUBKEY_LENGTH, WEIGHT_LENGTH)
                        = LittleEndian(1, WEIGHT_LENGTH)
           /\ i = num_authorities =>
                  Subarray(encoded, idx + VALIDATOR_LENGTH, DELAY_LENGTH)
                      = Zeros(DELAY_LENGTH)

\* get_fixed_subarray has to stay inside the array.
InsideHeader(cursor, n) == cursor + n <= MAX_HEADER_SIZE

verify_epoch_end_header(bytes, num_authorities, position, new_pubkeys) ==
    /\ num_authorities # 0
    /\ InsideHeader(position, MAX_PREFIX_LENGTH)
    /\ LET prefix == Subarray(bytes, position, MAX_PREFIX_LENGTH)
       IN /\ verify_consensus_log(prefix)
          /\ verify_scheduled_change_message_length_and_flag(prefix)
          /\ verify_encoded_num_authorities(prefix, num_authorities)
          /\ LET cursor == position + TotalPrefixLength(prefix)
             IN /\ InsideHeader(cursor, MAX_SUBARRAY_SIZE)
                /\ verify_validators(Subarray(bytes, cursor, MAX_SUBARRAY_SIZE),
                                     num_authorities, new_pubkeys)

\* The precommit is for this block, this number and this set.  The assertions
\* on commitment, signatures and threshold hold of the votes of the set, and
\* are left open where by_set is FALSE.
verify_simple_justification(precommit, number, block_hash, id) ==
    LET decoded == decode_precommit(precommit)
    IN /\ precommit[1] = 1
       /\ decoded.block_number = number
       /\ decoded.authority_set_id = id
       /\ decoded.block_hash = block_hash

RotateAssertions(id, w) ==
    /\ verify_simple_justification(w.precommit, w.epoch_end_block_number,
                                   hash_encoded_header(w.block), id)
    /\ verify_epoch_end_header(w.header_bytes, w.target_header_num_authorities,
                               w.next_authority_set_start_position, w.new_pubkeys)

rotate ==
    /\ stage = "circuit"
    /\ IF RotateAssertions(current_authority_set_id, witness)
       THEN /\ stage' = "proved"
            /\ new_authority_set_hash' =
                   compute_authority_set_commitment(
                       witness.target_header_num_authorities, witness.new_pubkeys)
       ELSE stage' = "rejected" /\ UNCHANGED new_authority_set_hash
    /\ UNCHANGED <<current_authority_set_id, prover, witness>>

-----------------------------------------------------------------------------
(* Any other prover: the header of any block with any padding, any         *)
(* position, a justification by the votes of the current set or one of     *)
(* which nothing is known, and any number of keys, which are those of the  *)
(* current set or those that the header holds where the circuit may look.  *)
(* A header that is not final has no votes of the set.                     *)

KeysAt(bytes, cursor) ==
    [i \in Slots |->
        LET from == cursor + (i - 1) * VALIDATOR_LENGTH
        IN IF from + PUBKEY_LENGTH <= MAX_HEADER_SIZE
           THEN Subarray(bytes, from, PUBKEY_LENGTH)
           ELSE DUMMY_PUBLIC_KEY]

PrefixLengths == CONSENSUS_ENGINE_ID_PREFIX_LENGTH + 3 .. CONSENSUS_ENGINE_ID_PREFIX_LENGTH + 5

AnyKeys(bytes, position) ==
    {PaddedKeys(Authorities[current_authority_set_id])}
        \cup {KeysAt(bytes, position + n) : n \in PrefixLengths}

AnyJustification(b) ==
    {[signed |-> s, by_set |-> TRUE] :
        s \in {s \in Blocks : Header[s].signer = current_authority_set_id}}
    \cup {[signed |-> b, by_set |-> FALSE]}

\* Justification, number of authorities and keys follow in a second step.
AnyHeader ==
    /\ stage = "hint" /\ prover = "any"
    /\ \E b \in Blocks, padding \in AnyPadding :
           LET encoded == Encoded[b]
               bytes == WithPadding(encoded, padding)
           IN \E position \in 0 .. MAX_HEADER_SIZE :
                  /\ Len(encoded) <= MAX_HEADER_SIZE
                  /\ witness' = [present |-> TRUE, block |-> b, header_size |-> Len(encoded),
                                 header_bytes |-> bytes, position |-> position]
    /\ stage' = "authorities"
    /\ UNCHANGED <<current_authority_set_id, prover, new_authority_set_hash>>

\* Only a witness that satisfies the circuit leads on, so that the log can
\* be looked at before the rest is chosen.
AnyAuthorities ==
    /\ stage = "authorities"
    /\ InsideHeader(witness.position, MAX_PREFIX_LENGTH)
    /\ verify_consensus_log(
           Subarray(witness.header_bytes, witness.position, MAX_PREFIX_LENGTH))
    /\ \E keys \in AnyKeys(witness.header_bytes, witness.position), num \in AnyNumber,
          j \in AnyJustification(witness.block) :
           LET w == [present |-> TRUE, block |-> witness.block,
                     header_size |-> witness.header_size,
                     header_bytes |-> witness.header_bytes,
                     precommit |-> Precommit(j.signed, current_authority_set_id),
                     by_set |-> j.by_set,
                     epoch_end_block_number |-> j.signed,
                     target_header_num_authorities |-> num,
                     next_authority_set_start_position |-> witness.position,
                     new_pubkeys |-> keys]
           IN /\ RotateAssertions(current_authority_set_id, w)
              /\ witness' = w
    /\ stage' = "circuit"
    /\ UNCHANGED <<current_authority_set_id, prover, new_authority_set_hash>>

-----------------------------------------------------------------------------
Init ==
    /\ current_authority_set_id \in SetIds
    /\ prover \in {"repository", "any"}
    /\ stage = "hint"
    /\ witness = None
    /\ new_authority_set_hash = None

Next == RotateHint \/ AnyHeader \/ AnyAuthorities \/ rotate

Spec == Init /\ [][Next]_vars /\ WF_vars(Next)

\* circuits/dummy_rotate.rs, which takes the authorities from the node.
DummyRotate(id) == compute_authority_set_hash(get_authorities(last_justified_block(id)))

-----------------------------------------------------------------------------
(* Correctness.                                                            *)

\* The flag of a consensus log followed by GRANDPA's engine id is nowhere in
\* the bytes but at the start of such a log of the header: not in a field
\* without structure, and not past header_size, which the circuit leaves open.
GrandpaLogsOnly(b, bytes) ==
    \A p \in 0 .. Len(bytes) - 5 :
        Subarray(bytes, p, 5) = <<CONSENSUS>> \o FRNK =>
            \E i \in DOMAIN Header[b].logs :
                IsScheduledChange(Header[b].logs[i]) /\ p = LogStart(b, i)

\* A proof that the repository's prover makes means that the epoch of the
\* current set is over and that the output is the commitment to the set that
\* follows it, the one that the fetcher and the dummy circuit compute.  So
\* does that of any other prover, with any position, number and keys, if its
\* justification has the votes of the set and its bytes hold no start of a
\* log where there is none: no other log of the header and no other place in
\* it passes for the announcement.  The circuit alone does not ensure these
\* two conditions, and nothing is claimed without them.
RotatedIsNextSet ==
    /\ stage = "proved"
    /\ witness.by_set
    /\ prover = "repository" \/ GrandpaLogsOnly(witness.block, witness.header_bytes)
    =>
        /\ last_justified_block(current_authority_set_id) # 0
        /\ new_authority_set_hash = DummyRotate(current_authority_set_id)
        /\ new_authority_set_hash =
               compute_authority_set_hash(Authorities[current_authority_set_id + 1])

\* Once the epoch is over the repository's own witness is accepted: position,
\* lengths and padding of get_header_rotate agree with what the circuit
\* reads, on both sides of every boundary of the compact encodings and
\* wherever in the digest the log is.
HonestRotateProved ==
    last_justified_block(current_authority_set_id) # 0 /\ prover = "repository"
        ~> stage = "proved"

\* The padding header of the header range hint has size 0.
EmptyHeader == [number |-> 0, parent_hash |-> Zeros(HASH_SIZE),
                state_root |-> Zeros(HASH_SIZE), data_root |-> Zeros(HASH_SIZE)]

Decodes(bytes, size, h) ==
    /\ ValidCompactInt(Subarray(bytes, HASH_SIZE, MAX_COMPACT_UINT_BYTES))
    /\ decode_header(bytes, size) =
           [block_number |-> h.number, parent_hash |-> h.parent_hash,
            state_root |-> h.state_root, data_root |-> h.data_root]

\* decode_header reads back number, parent hash, state root and data root
\* of every header a prover can use, whatever the length of the compact
\* number and of the digest and whatever bytes follow it, and reads zeros
\* from the padding header; its own assertion on the compact number holds.
HeaderDecoded ==
    /\ witness.present => Decodes(witness.header_bytes, witness.header_size,
                                  Header[witness.block])
    /\ Decodes(Zeros(MAX_HEADER_SIZE), 0, EmptyHeader)
=============================================================================
