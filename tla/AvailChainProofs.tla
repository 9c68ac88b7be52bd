-------------------------- MODULE AvailChainProofs --------------------------
(***************************************************************************)
(* Facts about the Avail chain that the proofs about the components share. *)
(***************************************************************************)
EXTENDS AvailChain, WellFoundedInduction, TLAPS

\* A non-empty set of naturals has a least element.
LEMMA LeastElement ==
    ASSUME NEW S, S \subseteq Nat, S # {}
    PROVE  \E m \in S : \A x \in S : m <= x
PROOF
<1> DEFINE R == {ss \in Nat \X Nat : ss[1] < ss[2]}
<1>1. IsWellFoundedOn(R, Nat)
  BY NatLessThanWellFounded, Zenon DEF OpToRel
<1> HIDE DEF R
<1>2. PICK m \in S : \A y \in S : ~ (<<y, m>> \in R)
  BY <1>1, WFMin
<1>3. ASSUME NEW y \in S, y < m PROVE FALSE
  <2>1. <<y, m>> \in R
    BY <1>3 DEF R
  <2> QED BY <1>2, <2>1
<1> QED BY <1>3

\* Set ids along the chain are keys of authoritySetIdToHash and never fall.
LEMMA SetIdFacts ==
    /\ Heights \subseteq Nat
    /\ AuthoritySetIds \subseteq Nat
    /\ \A b \in Heights : SetId[b] \in AuthoritySetIds /\ SetId[b] \in Nat
    /\ \A b \in Heights : SetId[b] + 1 \in AuthoritySetIds
    /\ SetId[0] = 0
    /\ \A b, c \in Heights : b <= c => SetId[b] <= SetId[c]
    /\ \A b \in Heights \ {0} :
           /\ b - 1 \in Heights
           /\ SignerOf(b) \in AuthoritySetIds
           /\ SetId[b] \in {SignerOf(b), SignerOf(b) + 1}
           /\ SignerOf(b) = SetId[b - 1]
PROOF BY ChainAssumption DEF Heights, AuthoritySetIds, SignerOf

\* No hash of an object is bytes32(0).
LEMMA HashNotZero ==
    /\ \A b : HeaderHash(b) # Zero
    /\ \A id : AuthoritySetHash(id) # Zero
    /\ \A s, e, t : DataRootCommitment(s, e, t) # Zero
    /\ \A s, e, t : StateRootCommitment(s, e, t) # Zero
PROOF
<1>1. ASSUME NEW b PROVE HeaderHash(b) # Zero
  <2>1. HeaderHash(b).kind = "header" /\ Zero.kind = "zero"
    BY DEF HeaderHash, Zero
  <2> QED BY <2>1
<1>2. ASSUME NEW id PROVE AuthoritySetHash(id) # Zero
  <2>1. AuthoritySetHash(id).kind = "authoritySet" /\ Zero.kind = "zero"
    BY DEF AuthoritySetHash, Zero
  <2> QED BY <2>1
<1>3. ASSUME NEW s, NEW e, NEW t PROVE DataRootCommitment(s, e, t) # Zero
  <2>1. DataRootCommitment(s, e, t).kind = "data" /\ Zero.kind = "zero"
    BY DEF DataRootCommitment, Zero
  <2> QED BY <2>1
<1>4. ASSUME NEW s, NEW e, NEW t PROVE StateRootCommitment(s, e, t) # Zero
  <2>1. StateRootCommitment(s, e, t).kind = "state" /\ Zero.kind = "zero"
    BY DEF StateRootCommitment, Zero
  <2> QED BY <2>1
<1> QED BY <1>1, <1>2, <1>3, <1>4

\* A set has at most one epoch end block.
LEMMA UniqueLastBlock ==
    ASSUME NEW id \in Nat, NEW b \in Heights \ {0}, NEW c \in Heights \ {0},
           IsLastBlockOf(b, id), IsLastBlockOf(c, id)
    PROVE  b = c
PROOF
<1>1. /\ SetId[b] = id + 1 /\ SetId[b - 1] = id
      /\ SetId[c] = id + 1 /\ SetId[c - 1] = id
  BY DEF IsLastBlockOf, EpochEnd, SignerOf
<1>2. b \in Nat /\ c \in Nat /\ b - 1 \in Heights /\ c - 1 \in Heights
  BY SetIdFacts
<1>3. CASE b < c
  <2>1. SetId[b] <= SetId[c - 1]
    BY <1>2, <1>3, SetIdFacts
  <2> QED BY <2>1, <1>1
<1>4. CASE c < b
  <2>1. SetId[c] <= SetId[b - 1]
    BY <1>2, <1>4, SetIdFacts
  <2> QED BY <2>1, <1>1
<1> QED BY <1>2, <1>3, <1>4

\* The value of last_justified_block at the epoch end block of the set.
LEMMA LastJustifiedBlockIs ==
    ASSUME NEW id \in Nat, NEW h \in Heights, NEW b \in 1 .. h,
           IsLastBlockOf(b, id)
    PROVE  last_justified_block(id, h) = b
PROOF
<1> DEFINE c == CHOOSE x \in 1 .. h : IsLastBlockOf(x, id)
<1>1. c \in 1 .. h /\ IsLastBlockOf(c, id)
  OBVIOUS
<1>2. b \in Heights \ {0} /\ c \in Heights \ {0}
  <2>1. 1 .. h \subseteq Heights \ {0}
    BY ChainAssumption DEF Heights
  <2> QED BY <1>1, <2>1
<1>3. b = c
  BY <1>1, <1>2, UniqueLastBlock
<1> QED BY <1>3 DEF last_justified_block

\* A set that is no longer current has an epoch end block.
LEMMA EpochHasEnd ==
    ASSUME NEW id \in Nat, NEW h \in Heights, SetId[h] > id
    PROVE  \E b \in 1 .. h : IsLastBlockOf(b, id)
PROOF
<1> DEFINE S == {b \in Heights : SetId[b] > id}
<1>1. S \subseteq Nat /\ h \in S
  BY SetIdFacts
<1>2. PICK b \in S : \A x \in S : b <= x
  <2> HIDE DEF S
  <2>1. S # {}
    BY <1>1
  <2> QED BY <1>1, <2>1, LeastElement
<1>3. b \in Heights /\ b \in Nat /\ SetId[b] > id /\ b <= h
  BY <1>1, <1>2
<1>4. b \in Heights \ {0}
  BY <1>3, SetIdFacts
<1>5. b - 1 \in Heights /\ SetId[b - 1] \in Nat /\ SetId[b] \in Nat
  BY <1>4, SetIdFacts
<1>6. ~ (SetId[b - 1] > id)
  <2>1. b - 1 \notin S
    BY <1>1, <1>2, <1>3
  <2> QED BY <2>1, <1>5
<1>7. SetId[b] = id + 1 /\ SetId[b - 1] = id
  BY <1>3, <1>4, <1>5, <1>6, SetIdFacts
<1>8. IsLastBlockOf(b, id) /\ b \in 1 .. h
  BY <1>3, <1>4, <1>7, SetIdFacts DEF IsLastBlockOf, EpochEnd, SignerOf
<1> QED BY <1>8

\* If last_justified_block finds a block, the set after the given one has
\* been announced.
LEMMA LastJustifiedBlockFacts ==
    ASSUME NEW id \in AuthoritySetIds, NEW h \in Heights,
           last_justified_block(id, h) # 0
    PROVE  id + 1 \in AuthoritySetIds /\ id + 1 <= SetId[h]
PROOF
<1>1. PICK b \in 1 .. h : IsLastBlockOf(b, id)
  BY DEF last_justified_block
<1>2. b \in Heights /\ SetId[b] = id + 1
  BY <1>1, ChainAssumption DEF IsLastBlockOf, EpochEnd, SignerOf, Heights
<1>3. SetId[b] <= SetId[h]
  BY <1>2, <1>1, SetIdFacts
<1> QED BY <1>2, <1>3, SetIdFacts

\* Once a block of a later set is finalized, the last block of the set
\* before it is.
LEMMA EpochOver ==
    ASSUME NEW b \in Heights \ {0}, NEW h \in Heights, b <= h, EpochEnd(b)
    PROVE  last_justified_block(SignerOf(b), h) # 0
PROOF
<1>1. b \in 1 .. h /\ IsLastBlockOf(b, SignerOf(b))
  BY DEF Heights, IsLastBlockOf
<1>2. (CHOOSE c \in 1 .. h : IsLastBlockOf(c, SignerOf(b))) \in 1 .. h
  BY <1>1
<1> QED BY <1>1, <1>2 DEF last_justified_block
=============================================================================
