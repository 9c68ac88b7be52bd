---------------------------- MODULE AuthoritySet ----------------------------
(***************************************************************************)
(* The commitment to an authority set: the chained SHA-256 hash of its     *)
(* public keys, as the circuits and as the fetcher compute it.  The hash   *)
(* is represented by the sequence of the keys that went into it.           *)
(***************************************************************************)
EXTENDS Integers, Sequences, FiniteSets

CONSTANT MAX_NUM_AUTHORITIES    \* slots for authorities in the circuits

ASSUME SlotsAssumption == MAX_NUM_AUTHORITIES \in Nat \ {0}

Slots == 1 .. MAX_NUM_AUTHORITIES

ChainedHash(keys) == [kind |-> "sha256", keys |-> keys]

\* The circuit's, over all slots: the first key, then key i for as long as
\* no index up to i was num_active_authorities.
compute_authority_set_commitment(num_active_authorities, pubkeys) ==
    LET enabled == {i \in 1 .. MAX_NUM_AUTHORITIES - 1 :
                        \A j \in 1 .. i : j # num_active_authorities}
    IN ChainedHash(SubSeq(pubkeys, 1, 1 + Cardinality(enabled)))

\* The fetcher's, over the authorities that the node returns.
compute_authority_set_hash(authorities) == ChainedHash(authorities)
=============================================================================
