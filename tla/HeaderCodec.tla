---------------------------- MODULE HeaderCodec ----------------------------
(***************************************************************************)
(* The SCALE encoding of Avail headers and of GRANDPA precommits, and the  *)
(* decoders of circuits/builder/decoder.rs and circuits/input/mod.rs.      *)
(* Bytes are 0 .. 255; the lengths of hashes, keys, weights and delays are *)
(* constants, so that instances stay small.  A hash or key is a sequence   *)
(* of bytes.  The encoder is external (parity-scale-codec and avail-subxt).*)
(***************************************************************************)
EXTENDS Integers, Sequences, SequencesExt

CONSTANTS HASH_SIZE, PUBKEY_LENGTH, WEIGHT_LENGTH, DELAY_LENGTH,
          MAX_HEADER_SIZE   \* bytes of a header that the circuits can hold

VALIDATOR_LENGTH == PUBKEY_LENGTH + WEIGHT_LENGTH
MAX_COMPACT_UINT_BYTES == 5

\* The fields at the start of a header fit.
ASSUME LengthsAssumption ==
    /\ HASH_SIZE \in Nat \ {0} /\ PUBKEY_LENGTH \in Nat \ {0}
    /\ WEIGHT_LENGTH \in Nat /\ DELAY_LENGTH \in Nat
    /\ MAX_HEADER_SIZE \in Nat
    /\ MAX_HEADER_SIZE >= 2 * HASH_SIZE + MAX_COMPACT_UINT_BYTES

Byte == 0 .. 255
ByteArray(n) == [1 .. n -> Byte]

\* n < 2^32, in numbers that TLC has.
IsU32(n) == n \in Nat /\ n \div 2 ^ 16 < 2 ^ 16

Zeros(n) == [i \in 1 .. n |-> 0]

\* array[from .. from + n] in Rust's notation.
Subarray(array, from, n) == SubSeq(array, from + 1, from + n)

-----------------------------------------------------------------------------
(* Encoding.                                                               *)

LittleEndian(n, size) ==
    [i \in 1 .. size |-> IF i <= 4 THEN (n \div 256 ^ (i - 1)) % 256 ELSE 0]

\* The mode in the two low bits, the value above them.
WithMode(n, mode, size) == <<4 * (n % 64) + mode>> \o LittleEndian(n \div 64, size - 1)

Compact(n) ==
    CASE n < 2 ^ 6 -> WithMode(n, 0, 1)
      [] n >= 2 ^ 6 /\ n < 2 ^ 14 -> WithMode(n, 1, 2)
      [] n >= 2 ^ 14 /\ n < 2 ^ 30 -> WithMode(n, 2, 4)
      [] OTHER -> <<3>> \o LittleEndian(n, 4)

CONSENSUS == 4
SEAL == 5
PRE_RUNTIME == 6
FRNK == <<70, 82, 78, 75>>
BABE == <<66, 65, 66, 69>>

DigestItem(flag, engine, value) == [flag |-> flag, engine |-> engine, value |-> value]

EncodeLog(log) == <<log.flag>> \o log.engine \o Compact(Len(log.value)) \o log.value

\* Public keys with weight 1, after their number.
EncodeAuthorities(keys) ==
    Compact(Len(keys)) \o
    FlattenSeq([i \in DOMAIN keys |-> keys[i] \o LittleEndian(1, WEIGHT_LENGTH)])

\* GRANDPA announces the next authority set, with delay 0.
ScheduledChange(keys) ==
    DigestItem(CONSENSUS, FRNK, <<1>> \o EncodeAuthorities(keys) \o Zeros(DELAY_LENGTH))

\* BABE announces its own next authorities in a log of the same shape, with
\* the epoch randomness where GRANDPA has the delay.
NextEpochData(keys, randomness) ==
    DigestItem(CONSENSUS, BABE, <<1>> \o EncodeAuthorities(keys) \o randomness)

EncodeHeader(h) ==
    h.parent_hash \o Compact(h.number) \o h.state_root \o h.extrinsics_root
    \o Compact(Len(h.logs)) \o FlattenSeq([i \in DOMAIN h.logs |-> EncodeLog(h.logs[i])])
    \o h.extension \o h.data_root

\* header_bytes.resize(MAX_HEADER_SIZE, 0)
Padded(bytes) == bytes \o Zeros(MAX_HEADER_SIZE - Len(bytes))

\* The message that GRANDPA authorities sign.
EncodePrecommit(block_hash, number, round, id) ==
    <<1>> \o block_hash \o LittleEndian(number, 4) \o LittleEndian(round, 8)
    \o LittleEndian(id, 8)

-----------------------------------------------------------------------------
(* The circuit's decoders.                                                 *)

\* le_sum over the bits of whole bytes, the last byte being the highest.
FromLittleEndian(bytes) ==
    LET sum[i \in 1 .. Len(bytes) + 1] ==
            IF i > Len(bytes) THEN 0 ELSE bytes[i] + 256 * sum[i + 1]
    IN sum[1]

compress_mode(compact_bytes) == compact_bytes[1] % 4

\* The bits that follow the mode in the first byte are its length for mode 3
\* and must be 0: a "BigInt" of 4 bytes.
ValidCompactInt(compact_bytes) ==
    compress_mode(compact_bytes) = 3 => compact_bytes[1] \div 4 = 0

\* The value that the mode selects among the four readings of the bytes.
decode_compact_int(compact_bytes) ==
    LET upper == compact_bytes[1] \div 4
        with(n) == upper + 64 * FromLittleEndian(Subarray(compact_bytes, 1, n))
    IN CASE compress_mode(compact_bytes) = 0 -> upper
         [] compress_mode(compact_bytes) = 1 -> with(1)
         [] compress_mode(compact_bytes) = 2 -> with(3)
         [] OTHER -> FromLittleEndian(Subarray(compact_bytes, 1, 4))

get_compact_int_byte_length(mode) == <<1, 2, 4, 5>>[mode + 1]

\* Mutant of decode_header: a block number takes one byte per mode.
decode_header_one_byte_per_mode(header_bytes, header_size) ==
    LET compact == Subarray(header_bytes, HASH_SIZE, MAX_COMPACT_UINT_BYTES)
        state_root_start == HASH_SIZE + 1 + compress_mode(compact)
        data_root_start == IF header_size = 0 THEN 0 ELSE header_size - HASH_SIZE
    IN [block_number |-> decode_compact_int(compact),
        parent_hash |-> Subarray(header_bytes, 0, HASH_SIZE),
        state_root |-> Subarray(header_bytes, state_root_start, HASH_SIZE),
        data_root |-> Subarray(header_bytes, data_root_start, HASH_SIZE)]

\* The state root follows the block number; the data root is at the end, or
\* at 0 in the padding header of size 0.
decode_header(header_bytes, header_size) ==
    LET compact == Subarray(header_bytes, HASH_SIZE, MAX_COMPACT_UINT_BYTES)
        state_root_start == HASH_SIZE + <<1, 2, 4, 5>>[compress_mode(compact) + 1]
        data_root_start == IF header_size = 0 THEN 0 ELSE header_size - HASH_SIZE
    IN [block_number |-> decode_compact_int(compact),
        parent_hash |-> Subarray(header_bytes, 0, HASH_SIZE),
        state_root |-> Subarray(header_bytes, state_root_start, HASH_SIZE),
        data_root |-> Subarray(header_bytes, data_root_start, HASH_SIZE)]

\* Of the circuit; the fetcher's function of the same name reads the same.
decode_precommit(precommit) ==
    [block_hash |-> Subarray(precommit, 1, HASH_SIZE),
     block_number |-> FromLittleEndian(Subarray(precommit, 1 + HASH_SIZE, 4)),
     round |-> FromLittleEndian(Subarray(precommit, 5 + HASH_SIZE, 8)),
     authority_set_id |-> FromLittleEndian(Subarray(precommit, 13 + HASH_SIZE, 8))]
=============================================================================
