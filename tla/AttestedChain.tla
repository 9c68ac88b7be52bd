--------------------------- MODULE AttestedChain ---------------------------
(***************************************************************************)
(* What the light client promises, without proofs, requests, gateways or   *)
(* Solidity mappings: it vouches for a growing part of the finalized Avail *)
(* chain.  Module VectorX implements it.                                   *)
(***************************************************************************)
EXTENDS AvailChain

VARIABLES
    origin,     \* the block that was trusted without a proof
    tip,        \* the last block it vouches for
    ranges,     \* <<start, end>>: the blocks start+1 .. end are attested
    headers,    \* blocks whose header it knows
    sets        \* ids of the authority sets it knows

attestedVars == <<head, origin, tip, ranges, headers, sets>>

AttestedInit ==
    /\ head = 1
    /\ origin = 0 /\ tip = 0
    /\ ranges = {} /\ headers = {} /\ sets = {}

Grow == Finalize /\ UNCHANGED <<origin, tip, ranges, headers, sets>>

\* A finalized block is trusted; what was known stays known.
Trust(b) ==
    /\ b \in 1 .. head
    /\ origin' = b /\ tip' = b
    /\ ranges' = {}
    /\ headers' = headers \cup {b}
    /\ sets' = sets \cup {SetId[b]}
    /\ UNCHANGED head

\* One more range, up to a finalized block that a known set has signed.
Attest(target) ==
    /\ tip \in headers
    /\ target \in tip + 1 .. head
    /\ SignerOf(target) \in sets
    /\ tip' = target
    /\ ranges' = ranges \cup {<<tip, target>>}
    /\ headers' = headers \cup {target}
    /\ UNCHANGED <<head, origin, sets>>

\* Every block of start+1 .. end is in exactly one of the ranges R.
Tile(R, start, end) ==
    /\ \A k \in R : start <= k[1] /\ k[1] < k[2] /\ k[2] <= end
    /\ \A b \in start + 1 .. end :
           \E k \in R : /\ k[1] < b /\ b <= k[2]
                        /\ \A l \in R : l[1] < b /\ b <= l[2] => l = k

\* Several ranges at once, on the guardian's word, with the set that takes
\* over after them.
Fill(target) ==
    LET new == ranges' \ ranges
    IN
    /\ tip \in headers
    /\ target \in tip + 1 .. head
    /\ tip' = target
    /\ ranges \subseteq ranges'
    /\ Tile(new, tip, target)
    /\ headers' = headers \cup {k[2] : k \in new}
    /\ sets' = sets \cup {SetId[target]}
    /\ UNCHANGED <<head, origin>>

\* The successor of a known set becomes known once the epoch is over.
LearnSet(id) ==
    /\ id \in sets
    /\ id + 1 <= SetId[head]
    /\ sets' = sets \cup {id + 1}
    /\ UNCHANGED <<head, origin, tip, ranges, headers>>

AttestedNext ==
    \/ Grow
    \/ \E b \in Heights : Trust(b) \/ Attest(b) \/ Fill(b)
    \/ \E id \in AuthoritySetIds : LearnSet(id)

AttestedSpec == AttestedInit /\ [][AttestedNext]_attestedVars
=============================================================================
