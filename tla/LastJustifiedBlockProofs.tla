---------------------- MODULE LastJustifiedBlockProofs ----------------------
(***************************************************************************)
(* The binary search of last_justified_block is correct on every chain,    *)
(* and so is the listing of find_justifications_in_range built on it.      *)
(* IInv says that the boundary the search looks for, if there is one, is   *)
(* still between low and high.  FInv says of the walk over the eras that   *)
(* the epoch end blocks of the range below the current era, and no others, *)
(* have been pushed.                                                       *)
(***************************************************************************)
EXTENDS FindJustifications, AvailChainProofs, FiniteSetTheorems

\* The inductive invariant of the search.
IInv ==
    /\ TypeOK
    /\ pc = "loop" =>
           /\ epoch_end_block_number = 0
           /\ \A b \in 1 .. head_block :
                  IsLastBlockOf(b, target_authority_set_id) => low <= b /\ b <= high
    /\ ResultCorrect

\* The middle of a non-empty interval of block numbers lies in it and its
\* computation does not wrap.
LEMMA MidFacts ==
    ASSUME TypeOK, low <= high
    PROVE  /\ Mid \in Nat /\ low <= Mid /\ Mid <= high
           /\ Mid \in Heights /\ Mid <= head_block
           /\ U32Add(Mid, 1) = Mid + 1
           /\ Mid > 0 => U32Sub(Mid, 1) = Mid - 1
PROOF
<1>1. /\ low \in Nat /\ high \in Nat /\ head_block \in Nat
      /\ high <= head_block /\ head_block <= MaxBlock /\ MaxBlock \in Nat
      /\ U32 \in Nat /\ 2 * MaxBlock + 1 < U32
  BY ChainAssumption, WidthAssumption DEF TypeOK, Heights
<1>2. \A x \in Nat : x < U32 => x % U32 = x
  BY <1>1
<1>3. U32Add(low, high) = low + high
  BY <1>1, <1>2 DEF U32Add
<1>4. Mid \in Nat /\ low <= Mid /\ Mid <= high
  BY <1>1, <1>3 DEF Mid
<1>5. U32Add(Mid, 1) = Mid + 1
  <2> HIDE DEF Mid
  <2> QED BY <1>1, <1>2, <1>4 DEF U32Add
<1>6. Mid > 0 => U32Sub(Mid, 1) = Mid - 1
  <2> HIDE DEF Mid
  <2> QED BY <1>1, <1>2, <1>4 DEF U32Sub
<1> QED BY <1>1, <1>4, <1>5, <1>6 DEF Heights

\* Before the first call there is no search interval to speak of.
LEMMA InitIInv == Init => IInv
PROOF
<1> SUFFICES ASSUME Init PROVE IInv
  OBVIOUS
<1>1. 0 \in Heights /\ 1 \in Heights /\ 0 \in AuthoritySetIds
  BY ChainAssumption DEF Heights, AuthoritySetIds
<1> QED BY <1>1 DEF Init, IInv, TypeOK, ResultCorrect

\* A call opens the interval 0 .. head, which holds every candidate.
LEMMA CallIInv ==
    ASSUME IInv, NEW target \in AuthoritySetIds, Call(target)
    PROVE  IInv'
PROOF
<1>1. head \in Heights /\ head \in Nat /\ 0 \in Heights
  BY ChainAssumption, SetIdFacts DEF IInv, TypeOK, Heights
<1>2. TypeOK'
  BY <1>1 DEF Call, IInv, TypeOK
<1>3. pc' = "loop" /\ low' = 0 /\ high' = head /\ head_block' = head
      /\ epoch_end_block_number' = 0
  BY DEF Call
<1> QED BY <1>1, <1>2, <1>3 DEF IInv, ResultCorrect

\* The block the search returns as the boundary is the epoch end block.
LEMMA FoundIInv == IInv /\ Found => IInv'
PROOF
<1> SUFFICES ASSUME IInv, Found PROVE IInv'
  OBVIOUS
<1>1. /\ Mid \in Nat /\ Mid \in Heights /\ Mid <= head_block
      /\ SetId[Mid] = target_authority_set_id + 1
      /\ target_authority_set_id \in Nat /\ head_block \in Heights
  BY MidFacts, SetIdFacts DEF Found, IInv, TypeOK
<1>2. /\ pc' = "done" /\ epoch_end_block_number' = Mid
      /\ UNCHANGED <<head, target_authority_set_id, head_block, low, high>>
      /\ IsBoundary
  BY DEF Found
<1> HIDE DEF Mid
<1>3. Mid > 0
  BY <1>1, SetIdFacts
<1>4. IsLastBlockOf(Mid, target_authority_set_id)
  BY <1>1, <1>2, <1>3 DEF IsBoundary, IsLastBlockOf, EpochEnd, SignerOf
<1>5. Mid \in 1 .. head_block
  BY <1>1, <1>3, SetIdFacts
<1>6. last_justified_block(target_authority_set_id, head_block) = Mid
  BY <1>1, <1>4, <1>5, LastJustifiedBlockIs
<1>7. TypeOK'
  BY <1>1, <1>2 DEF IInv, TypeOK
<1> QED BY <1>2, <1>6, <1>7 DEF IInv, ResultCorrect

\* Moving high below mid loses no boundary, and high does not wrap: mid is not
\* block 0, which is still in set 0.
LEMMA SearchLowerIInv == IInv /\ SearchLower => IInv'
PROOF
<1> SUFFICES ASSUME IInv, SearchLower PROVE IInv'
  OBVIOUS
<1> DEFINE t == target_authority_set_id
<1>1. /\ Mid \in Nat /\ Mid \in Heights /\ Mid <= head_block /\ Mid <= high
      /\ SetId[Mid] >= t + 1
      /\ t \in Nat /\ head_block \in Heights /\ head_block \in Nat /\ SetId[Mid] \in Nat
  BY MidFacts, SetIdFacts DEF SearchLower, IInv, TypeOK
<1>2. Mid > 0
  BY <1>1, SetIdFacts
<1>3. /\ high' = Mid - 1 /\ pc = "loop"
      /\ UNCHANGED <<head, pc, target_authority_set_id, head_block, low,
                     epoch_end_block_number>>
  BY <1>2, MidFacts DEF SearchLower, IInv
<1>4. SetId[Mid] = t + 1 => ~ IsBoundary
  BY DEF SearchLower
<1> HIDE DEF Mid
<1>5. TypeOK'
  BY <1>1, <1>2, <1>3 DEF IInv, TypeOK
<1>6. ASSUME NEW b \in 1 .. head_block, IsLastBlockOf(b, t)
      PROVE  low <= b /\ b <= Mid - 1
  <2>1. low <= b /\ b \in Nat /\ b \in Heights
    BY <1>6, <1>3, ChainAssumption DEF IInv, TypeOK, Heights
  <2>2. SetId[b] = t + 1 /\ SetId[b - 1] = t
    BY <1>6 DEF IsLastBlockOf, EpochEnd, SignerOf
  <2>3. ASSUME b >= Mid PROVE FALSE
    <3>1. SetId[Mid] <= SetId[b]
      BY <2>1, <2>3, <1>1, SetIdFacts
    <3>2. SetId[Mid] = t + 1
      BY <3>1, <2>2, <1>1
    <3>3. SetId[Mid - 1] # t /\ Mid # 0
      BY <3>2, <1>4 DEF IsBoundary
    <3>4. b # Mid
      BY <3>3, <2>2
    <3>5. SetId[Mid] <= SetId[b - 1]
      BY <3>4, <2>1, <2>3, <1>1, <1>2, SetIdFacts
    <3> QED BY <3>2, <3>5, <2>2, <1>1
  <2> QED BY <2>1, <2>3, <1>1
<1> QED BY <1>3, <1>5, <1>6 DEF IInv, ResultCorrect

\* Moving low above mid loses no boundary: the set at mid is too old.
LEMMA SearchHigherIInv == IInv /\ SearchHigher => IInv'
PROOF
<1> SUFFICES ASSUME IInv, SearchHigher PROVE IInv'
  OBVIOUS
<1> DEFINE t == target_authority_set_id
<1>1. /\ Mid \in Nat /\ Mid \in Heights /\ Mid <= head_block
      /\ SetId[Mid] < t + 1
      /\ t \in Nat /\ head_block \in Nat
      /\ low' = Mid + 1 /\ pc = "loop"
      /\ UNCHANGED <<head, pc, target_authority_set_id, head_block, high,
                     epoch_end_block_number>>
  BY MidFacts, SetIdFacts DEF SearchHigher, IInv, TypeOK
<1> HIDE DEF Mid
<1>2. TypeOK'
  BY <1>1 DEF IInv, TypeOK
<1>3. ASSUME NEW b \in 1 .. head_block, IsLastBlockOf(b, t)
      PROVE  Mid + 1 <= b /\ b <= high
  <2>1. b <= high /\ b \in Nat /\ b \in Heights
    BY <1>3, <1>1, ChainAssumption DEF IInv, TypeOK, Heights
  <2>2. SetId[b] = t + 1
    BY <1>3 DEF IsLastBlockOf, EpochEnd, SignerOf
  <2>3. ~ (b <= Mid)
    <3>1. b <= Mid => SetId[b] <= SetId[Mid]
      BY <2>1, <1>1, SetIdFacts
    <3>2. SetId[Mid] \in Nat
      BY <1>1, SetIdFacts
    <3> QED BY <3>1, <3>2, <2>2, <1>1
  <2> QED BY <2>1, <2>3, <1>1
<1> QED BY <1>1, <1>2, <1>3 DEF IInv, ResultCorrect

\* An empty interval means that there is no boundary up to the head read.
LEMMA NotFoundIInv == IInv /\ NotFound => IInv'
PROOF
<1> SUFFICES ASSUME IInv, NotFound PROVE IInv'
  OBVIOUS
<1>1. /\ pc = "loop" /\ low > high /\ pc' = "done"
      /\ UNCHANGED <<head, target_authority_set_id, head_block, low, high,
                     epoch_end_block_number>>
      /\ epoch_end_block_number = 0
  BY DEF NotFound, IInv
<1>2. low \in Nat /\ high \in Nat /\ head_block \in Nat
  BY SetIdFacts DEF IInv, TypeOK
<1>3. \A b \in 1 .. head_block : ~ IsLastBlockOf(b, target_authority_set_id)
  BY <1>1, <1>2 DEF IInv
<1>4. last_justified_block(target_authority_set_id, head_block) = 0
  BY <1>3 DEF last_justified_block
<1>5. TypeOK'
  BY <1>1 DEF IInv, TypeOK
<1> QED BY <1>1, <1>4, <1>5 DEF IInv, ResultCorrect

\* A new block does not disturb the search, which looks at the old head.
LEMMA AvailStepIInv == IInv /\ AvailStep => IInv'
PROOF
<1> SUFFICES ASSUME IInv, AvailStep PROVE IInv'
  OBVIOUS
<1>1. TypeOK'
  BY ChainAssumption DEF IInv, TypeOK, AvailStep, Finalize, Heights
<1> QED BY <1>1 DEF IInv, AvailStep, ResultCorrect

\* The boundary stays inside the interval until it is found or there is none.
THEOREM Invariance == Spec => []IInv
PROOF
<1>1. IInv /\ [Next]_vars => IInv'
  <2> SUFFICES ASSUME IInv, [Next]_vars PROVE IInv'
    OBVIOUS
  <2>1. CASE \E target \in AuthoritySetIds : Call(target)
    BY <2>1, CallIInv
  <2>2. CASE SearchStep
    BY <2>2, FoundIInv, SearchLowerIInv, SearchHigherIInv, NotFoundIInv
       DEF SearchStep
  <2>3. CASE AvailStep
    BY <2>3, AvailStepIInv
  <2>4. CASE UNCHANGED vars
    BY <2>4 DEF vars, IInv, TypeOK, ResultCorrect
  <2> QED BY <2>1, <2>2, <2>3, <2>4 DEF Next
<1> QED BY <1>1, InitIInv, PTL DEF Spec

\* Neither bound of the search leaves 0 .. head + 1, so no block number wraps
\* around the u32 range.
THEOREM BoundsNeverWrap == Spec => []TypeOK
PROOF
<1>1. IInv => TypeOK
  BY DEF IInv
<1> QED BY <1>1, Invariance, PTL

\* Whatever the chain, the search returns the epoch end block of the target
\* set or 0 when there is none yet, and no block number wraps on the way.
THEOREM SearchCorrect == Spec => []ResultCorrect
PROOF
<1>1. IInv => ResultCorrect
  BY DEF IInv
<1> QED BY <1>1, Invariance, PTL

\* The function's comment holds: 0 is returned exactly when the authority set
\* at the head is not beyond the target set.
THEOREM ZeroOnlyIfCurrent == Spec => []ZeroIffCurrent
PROOF
<1>1. IInv => ZeroIffCurrent
  <2> SUFFICES ASSUME IInv, pc = "done"
               PROVE  epoch_end_block_number = 0 <=>
                          SetId[head_block] <= target_authority_set_id
    BY DEF ZeroIffCurrent
  <2>1. /\ epoch_end_block_number =
               last_justified_block(target_authority_set_id, head_block)
        /\ target_authority_set_id \in Nat /\ head_block \in Heights
        /\ target_authority_set_id \in AuthoritySetIds
        /\ SetId[head_block] \in Nat
    BY SetIdFacts DEF IInv, ResultCorrect, TypeOK
  <2>2. ASSUME SetId[head_block] > target_authority_set_id
        PROVE  epoch_end_block_number # 0
    <3>1. PICK b \in 1 .. head_block : IsLastBlockOf(b, target_authority_set_id)
      BY <2>1, <2>2, EpochHasEnd
    <3> QED BY <3>1, <2>1, LastJustifiedBlockIs
  <2>3. ASSUME epoch_end_block_number # 0
        PROVE  SetId[head_block] > target_authority_set_id
    BY <2>1, <2>3, LastJustifiedBlockFacts
  <2> QED BY <2>1, <2>2, <2>3
<1> QED BY <1>1, Invariance, PTL

-----------------------------------------------------------------------------
(* Sorting.                                                                *)

\* The ranks of the elements of a sequence of n numbers are 1 .. n: two of
\* them differ, and follow the order of the elements.
LEMMA RankFacts ==
    ASSUME NEW n \in Nat, NEW s, DOMAIN s = 1 .. n, \A i \in 1 .. n : s[i] \in Nat
    PROVE  /\ \A i \in 1 .. n : Rank(s, i) \in 1 .. n
           /\ \A i, j \in 1 .. n :
                  s[i] < s[j] \/ (s[i] = s[j] /\ i < j) => Rank(s, i) < Rank(s, j)
PROOF
<1> DEFINE Before(i) == {j \in 1 .. n : s[j] < s[i] \/ (s[j] = s[i] /\ j <= i)}
<1>1. ASSUME NEW i \in 1 .. n PROVE Rank(s, i) = Cardinality(Before(i))
  BY DEF Rank
<1>2. IsFiniteSet(1 .. n) /\ Cardinality(1 .. n) = n
  BY FS_Interval
<1>3. ASSUME NEW i \in 1 .. n
      PROVE  /\ IsFiniteSet(Before(i))
             /\ Cardinality(Before(i)) \in 1 .. n
  <2>1. Before(i) \in SUBSET (1 .. n) /\ i \in Before(i)
    OBVIOUS
  <2>2. Before(i) # {}
    BY <2>1
  <2> HIDE DEF Before
  <2>3. IsFiniteSet(Before(i)) /\ Cardinality(Before(i)) <= n
    BY <1>2, <2>1, FS_Subset
  <2>4. Cardinality(Before(i)) \in Nat /\ Cardinality(Before(i)) # 0
    BY <2>2, <2>3, FS_CardinalityType, FS_EmptySet
  <2> QED BY <2>3, <2>4
<1>4. ASSUME NEW i \in 1 .. n, NEW j \in 1 .. n,
             s[i] < s[j] \/ (s[i] = s[j] /\ i < j)
      PROVE  Cardinality(Before(i)) < Cardinality(Before(j))
  <2>1. Before(i) \in SUBSET Before(j)
    BY <1>4
  <2>2. j \in Before(j) /\ j \notin Before(i)
    BY <1>4
  <2>3. Before(i) # Before(j)
    BY <2>2
  <2> HIDE DEF Before
  <2>4. /\ IsFiniteSet(Before(j))
        /\ Cardinality(Before(i)) \in Nat /\ Cardinality(Before(j)) \in Nat
    <3>1. 1 .. n \subseteq Nat
      OBVIOUS
    <3> QED BY <1>3, <3>1
  <2>5. /\ Cardinality(Before(i)) <= Cardinality(Before(j))
        /\ Cardinality(Before(i)) # Cardinality(Before(j))
    BY <2>1, <2>3, <2>4, FS_Subset
  <2> QED BY <2>4, <2>5
<1> HIDE DEF Before
<1> QED BY <1>1, <1>3, <1>4

\* A sorted sequence is a permutation p of the sequence and does not fall.
LEMMA SortedFacts ==
    ASSUME NEW n \in Nat, NEW s, DOMAIN s = 1 .. n, \A i \in 1 .. n : s[i] \in Nat
    PROVE  /\ DOMAIN Sorted(s) = 1 .. n
           /\ \E p \in [1 .. n -> 1 .. n] :
                  /\ \A i \in 1 .. n : Sorted(s)[i] = s[p[i]]
                  /\ \A i \in 1 .. n : \E k \in 1 .. n : p[k] = i
                  /\ \A i, j \in 1 .. n : i < j => p[i] # p[j] /\ s[p[i]] <= s[p[j]]
PROOF
<1> DEFINE rank == [i \in 1 .. n |-> Rank(s, i)]
           p == [k \in 1 .. n |-> CHOOSE i \in DOMAIN s : Rank(s, i) = k]
<1>1. /\ rank \in [1 .. n -> 1 .. n]
      /\ \A i, j \in 1 .. n :
             s[i] < s[j] \/ (s[i] = s[j] /\ i < j) => rank[i] < rank[j]
  BY RankFacts
<1>2. DOMAIN Sorted(s) = 1 .. n /\ \A k \in 1 .. n : Sorted(s)[k] = s[p[k]]
  BY DEF Sorted
<1> HIDE DEF rank
<1>3. rank \in Injection(1 .. n, 1 .. n)
  <2>1. ASSUME NEW i \in 1 .. n, NEW j \in 1 .. n, i # j PROVE rank[i] # rank[j]
    <3>1. /\ rank[i] \in 1 .. n /\ rank[j] \in 1 .. n
          /\ s[i] \in Nat /\ s[j] \in Nat
      BY <1>1
    <3>2. i < j \/ j < i
      BY <2>1
    <3>3. rank[i] < rank[j] \/ rank[j] < rank[i]
      BY <1>1, <3>1, <3>2
    <3> QED BY <3>1, <3>3
  <2> QED BY <1>1, <2>1 DEF Injection, IsInjective
<1>4. rank \in Surjection(1 .. n, 1 .. n)
  <2>1. IsFiniteSet(1 .. n)
    BY FS_Interval
  <2> QED BY <1>3, <2>1, FS_Injection
<1>5. \A k \in 1 .. n : p[k] \in 1 .. n /\ rank[p[k]] = k
  <2> SUFFICES ASSUME NEW k \in 1 .. n
               PROVE  p[k] \in 1 .. n /\ rank[p[k]] = k
    OBVIOUS
  <2>1. \E i \in 1 .. n : rank[i] = k
    BY <1>4 DEF Surjection
  <2>2. \E i \in DOMAIN s : Rank(s, i) = k
    BY <2>1 DEF rank
  <2>3. p[k] \in DOMAIN s /\ Rank(s, p[k]) = k
    BY <2>2
  <2> QED BY <2>3 DEF rank
<1>6. \A i \in 1 .. n : p[rank[i]] = i
  <2> HIDE DEF p
  <2> QED BY <1>1, <1>3, <1>5 DEF Injection, IsInjective
<1>7. p \in [1 .. n -> 1 .. n]
  BY <1>5
<1> HIDE DEF p
<1>8. ASSUME NEW i \in 1 .. n, NEW j \in 1 .. n, i < j
      PROVE  p[i] # p[j] /\ s[p[i]] <= s[p[j]]
  <2>1. /\ rank[p[i]] = i /\ rank[p[j]] = j
        /\ p[i] \in 1 .. n /\ p[j] \in 1 .. n
    BY <1>5
  <2>2. s[p[i]] \in Nat /\ s[p[j]] \in Nat
    BY <2>1
  <2>3. s[p[j]] < s[p[i]] => j < i
    BY <1>1, <2>1
  <2> QED BY <1>8, <2>1, <2>2, <2>3
<1> QED BY <1>1, <1>2, <1>6, <1>7, <1>8

\* Numbers in ascending order, none of them twice.
Ascending(s) ==
    /\ s \in Seq(Nat)
    /\ \A i, j \in DOMAIN s : i < j => s[i] < s[j]

\* Sorting keeps the elements, and two different ones stay different.
LEMMA SortedElements ==
    ASSUME NEW s \in Seq(Nat)
    PROVE  /\ Sorted(s) \in Seq(Nat)
           /\ ToSet(Sorted(s)) = ToSet(s)
           /\ (\A i, j \in DOMAIN s : i < j => s[i] # s[j]) => Ascending(Sorted(s))
PROOF
<1> DEFINE n == Len(s)
<1>1. n \in Nat /\ DOMAIN s = 1 .. n /\ \A i \in 1 .. n : s[i] \in Nat
  OBVIOUS
<1> HIDE DEF n
<1>2. DOMAIN Sorted(s) = 1 .. n
  BY <1>1, SortedFacts
<1>3. PICK p \in [1 .. n -> 1 .. n] :
          /\ \A i \in 1 .. n : Sorted(s)[i] = s[p[i]]
          /\ \A i \in 1 .. n : \E k \in 1 .. n : p[k] = i
          /\ \A i, j \in 1 .. n : i < j => p[i] # p[j] /\ s[p[i]] <= s[p[j]]
  BY <1>1, SortedFacts
<1> DEFINE t == [i \in 1 .. n |-> s[p[i]]]
<1>4. Sorted(s) = t
  <2>1. Sorted(s) = [i \in DOMAIN s |-> Sorted(s)[i]]
    BY DEF Sorted
  <2> QED BY <2>1, <1>1, <1>3
<1>5. t \in Seq(Nat)
  BY <1>1, <1>3
<1>6. ToSet(t) = ToSet(s)
  <2>1. \A x : x \in ToSet(t) <=> \E i \in 1 .. n : x = s[p[i]]
    BY DEF ToSet
  <2>2. \A x : x \in ToSet(s) <=> \E i \in 1 .. n : x = s[i]
    BY <1>1 DEF ToSet
  <2>3. ASSUME NEW i \in 1 .. n PROVE \E k \in 1 .. n : s[i] = s[p[k]]
    BY <1>3
  <2>4. \A i \in 1 .. n : p[i] \in 1 .. n
    OBVIOUS
  <2> HIDE DEF t
  <2> QED BY <2>1, <2>2, <2>3, <2>4
<1>7. ASSUME \A i, j \in DOMAIN s : i < j => s[i] # s[j] PROVE Ascending(t)
  <2>1. ASSUME NEW i \in 1 .. n, NEW j \in 1 .. n, i < j PROVE t[i] < t[j]
    <3>1. /\ p[i] # p[j] /\ s[p[i]] <= s[p[j]]
          /\ p[i] \in 1 .. n /\ p[j] \in 1 .. n
          /\ s[p[i]] \in Nat /\ s[p[j]] \in Nat
      BY <2>1, <1>1, <1>3
    <3>2. s[p[i]] # s[p[j]]
      <4>1. p[i] < p[j] \/ p[j] < p[i]
        BY <3>1
      <4> QED BY <4>1, <3>1, <1>1, <1>7
    <3> QED BY <3>1, <3>2
  <2>2. DOMAIN t = 1 .. n
    OBVIOUS
  <2> HIDE DEF t
  <2> QED BY <1>5, <2>1, <2>2 DEF Ascending
<1> QED BY <1>4, <1>5, <1>6, <1>7

\* get_blocks_in_range lists the indexed blocks of the range once each.
LEMMA BlocksInRange ==
    ASSUME NEW start \in Nat, NEW end \in Nat
    PROVE  /\ Ascending(get_blocks_in_range(start, end))
           /\ ToSet(get_blocks_in_range(start, end)) = indexed \cap (start .. end)
PROOF
<1> DEFINE S == indexed \cap (start .. end)
           c == Cardinality(S)
           s == SetToSeq(S)
<1>1. IsFiniteSet(S) /\ S \subseteq Nat
  <2>1. IsFiniteSet(start .. end) /\ start .. end \subseteq Nat
    BY FS_Interval
  <2> QED BY <2>1, FS_Intersection
<1> HIDE DEF S
<1>2. c \in Nat /\ \E f : f \in Bijection(1 .. c, S)
  BY <1>1, FS_CardinalityType DEF ExistsBijection
<1>3. \E f \in [1 .. c -> S] : IsInjective(f)
  BY <1>2 DEF Bijection, Injection
<1>4. s \in [1 .. c -> S] /\ IsInjective(s)
  BY <1>3 DEF SetToSeq
<1> HIDE DEF s
<1>5. s \in Injection(1 .. c, S)
  BY <1>4 DEF Injection
<1>6. s \in Surjection(1 .. c, S)
  <2>1. Cardinality(1 .. c) = Cardinality(S)
    <3> HIDE DEF c
    <3>1. Cardinality(1 .. c) = c
      BY <1>2, FS_Interval
    <3> QED BY <3>1 DEF c
  <2> QED BY <1>1, <1>5, <2>1, FS_Injection
<1> HIDE DEF c
<1>7. s \in Seq(Nat) /\ DOMAIN s = 1 .. c
  <2>1. s \in [1 .. c -> Nat]
    BY <1>1, <1>4
  <2> QED BY <1>2, <2>1
<1>8. \A i, j \in DOMAIN s : i < j => s[i] # s[j]
  BY <1>2, <1>4, <1>7 DEF IsInjective
<1>9. ToSet(s) = S
  BY <1>4, <1>6, <1>7 DEF ToSet, Surjection
<1> QED BY <1>7, <1>8, <1>9, SortedElements DEF get_blocks_in_range, s, S

-----------------------------------------------------------------------------
(* The walk over the eras.                                                 *)

\* What is indexed has its justification stored, and no epoch end block is.
RedisOK ==
    /\ indexed \subseteq stored
    /\ writing = 0 \/ writing \in stored
    /\ stored \subseteq 1 .. head
    /\ \A b \in stored : ~ EpochEnd(b)

\* The locals of a call and their types.
FindRecord ==
    [pc : {"era", "search", "done"}, start_block : Heights \ {0}, end_block : Heights,
     redis_blocks : Seq(Nat), curr_block : Heights, curr_era : AuthoritySetIds,
     epoch_end_blocks : Seq(Nat), all_blocks : Seq(Nat), head_at_call : Heights]

FindType == find = [pc |-> "idle"] \/ find \in FindRecord

\* The blocks of the range that Redis returned.
RedisBlocksOK ==
    /\ Ascending(find.redis_blocks)
    /\ \A b \in ToSet(find.redis_blocks) : b \in InRange /\ b \in stored

\* The epoch end blocks found: those of the range up to the current era, and
\* the current block is the last of them, or the start of the range.
EpochEndsOK ==
    /\ Ascending(find.epoch_end_blocks)
    /\ \A b \in ToSet(find.epoch_end_blocks) :
           b \in InRange /\ b <= head /\ EpochEnd(b) /\ SetId[b] <= find.curr_era
    /\ \A b \in InRange :
           EpochEnd(b) /\ SignerOf(b) < find.curr_era => b \in ToSet(find.epoch_end_blocks)
    /\ find.curr_block \in InRange
    /\ start_era(find.start_block) <= find.curr_era
    /\ find.curr_block > find.start_block => SetId[find.curr_block] = find.curr_era

\* The search under way is for the current era and sees the blocks that were
\* final at the call.
SearchOK ==
    find.pc = "search" =>
        /\ pc # "idle" /\ target_authority_set_id = find.curr_era
        /\ find.head_at_call <= head_block
        /\ find.curr_block < find.end_block

\* The inductive invariant of the walk.
FInv ==
    /\ IInv
    /\ RedisOK
    /\ FindType
    /\ find.pc # "idle" =>
           /\ find.start_block <= find.end_block /\ find.head_at_call <= head
           /\ RedisBlocksOK
           /\ EpochEndsOK
           /\ SearchOK
    /\ ListedAreJustified
    /\ ListedOnce
    /\ ListingComplete

\* Before the call nothing is listed and Redis is empty.
LEMMA FindInitFInv == FindInit => FInv
PROOF
<1> SUFFICES ASSUME FindInit PROVE FInv
  OBVIOUS
<1>1. IInv
  BY InitIInv DEF FindInit
<1>2. find = [pc |-> "idle"] /\ find.pc = "idle"
  BY DEF FindInit
<1>3. RedisOK
  BY DEF FindInit, RedisOK
<1> QED BY <1>1, <1>2, <1>3
        DEF FInv, FindType, ListedAreJustified, ListedOnce, ListingComplete, Done

\* The fields of a call that is under way or done.
LEMMA FindFields ==
    ASSUME FInv, find.pc # "idle"
    PROVE  /\ find \in FindRecord
           /\ find.start_block \in Nat \ {0} /\ find.end_block \in Nat
           /\ find.start_block <= find.end_block
           /\ find.end_block <= MaxBlock
           /\ find.curr_block \in Nat /\ find.curr_era \in Nat
           /\ find.head_at_call \in Nat /\ find.head_at_call <= head
           /\ InRange \subseteq Heights \ {0}
           /\ head \in Heights /\ head \in Nat
PROOF
<1>1. find # [pc |-> "idle"]
  OBVIOUS
<1>2. find \in FindRecord /\ find.start_block <= find.end_block /\ find.head_at_call <= head
  BY <1>1 DEF FInv, FindType
<1>3. /\ find.start_block \in Heights \ {0} /\ find.end_block \in Heights
      /\ find.curr_block \in Heights /\ find.curr_era \in AuthoritySetIds
      /\ find.head_at_call \in Heights
  BY <1>2 DEF FindRecord
<1>4. head \in Heights
  BY DEF FInv, IInv, TypeOK
<1>5. find.start_block \in Nat \ {0} /\ find.end_block \in Nat /\ find.end_block <= MaxBlock
  BY <1>3, ChainAssumption DEF Heights
<1>6. InRange \subseteq Heights \ {0}
  BY <1>5, ChainAssumption DEF InRange, Heights
<1> QED BY <1>2, <1>3, <1>4, <1>5, <1>6, SetIdFacts

\* A step outside the walk keeps what the walk has found, as long as Redis
\* and the chain only grow and it leaves the search under way alone.
LEMMA OtherStepFInv ==
    ASSUME FInv, IInv', RedisOK', find' = find,
           stored \subseteq stored', head \in Nat, head' \in Nat, head <= head',
           find.pc = "search" =>
               pc' # "idle" /\ UNCHANGED <<target_authority_set_id, head_block>>
    PROVE  FInv'
PROOF
<1>1. FindType' /\ InRange' = InRange /\ Done' = Done
  BY DEF FInv, FindType, InRange, Done
<1>2. ASSUME find.pc # "idle"
      PROVE  /\ find.start_block <= find.end_block /\ find.head_at_call <= head
             /\ find.head_at_call \in Nat /\ InRange \subseteq Nat
  BY <1>2, FindFields, SetIdFacts
<1>3. ASSUME find.pc # "idle"
      PROVE  /\ find'.start_block <= find'.end_block /\ find'.head_at_call <= head'
             /\ RedisBlocksOK' /\ EpochEndsOK' /\ SearchOK'
  <2>1. RedisBlocksOK /\ EpochEndsOK /\ SearchOK
    BY <1>3 DEF FInv
  <2>2. find'.start_block <= find'.end_block /\ find'.head_at_call <= head'
    BY <1>2, <1>3
  <2>3. RedisBlocksOK'
    BY <1>1, <2>1 DEF RedisBlocksOK, Ascending, ToSet
  <2>4. EpochEndsOK'
    <3>1. \A b \in InRange : b <= head => b <= head'
      BY <1>2, <1>3
    <3> QED BY <1>1, <2>1, <3>1
            DEF EpochEndsOK, Ascending, ToSet, EpochEnd, SignerOf, start_era
  <2>5. SearchOK'
    BY <2>1 DEF SearchOK
  <2> QED BY <2>2, <2>3, <2>4, <2>5
<1>4. ListedAreJustified'
  <2> SUFFICES ASSUME Done', NEW i \in DOMAIN find'.all_blocks
               PROVE  LET b == find'.all_blocks[i]
                      IN b \in InRange' /\ b <= head' /\ (EpochEnd(b) \/ b \in stored')
    BY DEF ListedAreJustified, EpochEnd
  <2> DEFINE b == find.all_blocks[i]
  <2>1. b \in InRange /\ b <= head /\ (EpochEnd(b) \/ b \in stored)
    BY <1>1 DEF FInv, ListedAreJustified
  <2>2. b \in Nat
    BY <1>2, <2>1, <1>1 DEF Done
  <2> QED BY <1>1, <2>1, <2>2
<1>5. ListedOnce' /\ ListingComplete'
  BY <1>1 DEF FInv, ListedOnce, ListingComplete, Findable, ToSet, InRange, EpochEnd
<1> QED BY <1>1, <1>3, <1>4, <1>5 DEF FInv

\* The indexer writes the justification before the index.
LEMMA IndexerStepFInv == FInv /\ IndexerStep => FInv'
PROOF
<1> SUFFICES ASSUME FInv, IndexerStep PROVE FInv'
  OBVIOUS
<1>1. UNCHANGED <<vars, find>> /\ stored \subseteq stored'
  BY DEF IndexerStep, json_set, zadd, IndexerPanic
<1>2. IInv' /\ head \in Nat
  BY <1>1, SetIdFacts DEF FInv, IInv, TypeOK, ResultCorrect, vars
<1>3. RedisOK'
  <2>1. RedisOK
    BY DEF FInv
  <2>2. CASE \E b \in Justified : json_set(b)
    <3>1. PICK b \in Justified : json_set(b)
      BY <2>2
    <3>2. b \in Heights \ {0} /\ b \in 1 .. head
      BY <3>1, <1>2, JustifiedAssumption, SetIdFacts DEF json_set
    <3>3. SetId[b] = SetId[b - 1] /\ SetId[b] \in Nat
      BY <3>1, <3>2, SetIdFacts DEF json_set, VerifiesAt, SignerOf
    <3>4. ~ EpochEnd(b)
      BY <3>3 DEF EpochEnd
    <3> QED BY <2>1, <3>1, <3>2, <3>4 DEF RedisOK, json_set, EpochEnd, vars
  <2>3. CASE zadd
    BY <2>1, <2>3 DEF RedisOK, zadd, EpochEnd, vars
  <2>4. CASE IndexerPanic
    BY <2>1, <2>4 DEF RedisOK, IndexerPanic, EpochEnd, vars
  <2> QED BY <2>2, <2>3, <2>4 DEF IndexerStep
<1>4. find.pc = "search" =>
          pc' # "idle" /\ UNCHANGED <<target_authority_set_id, head_block>>
  BY <1>1 DEF FInv, SearchOK, vars
<1>5. head' = head /\ find' = find
  BY <1>1 DEF vars
<1> QED BY <1>1, <1>2, <1>3, <1>4, <1>5, OtherStepFInv

\* A search for another caller, a step of the search or a new block.
LEMMA SearchAndChainFInv ==
    ASSUME FInv, UNCHANGED <<redisVars, find>>,
           \/ \E target \in AuthoritySetIds : find.pc = "idle" /\ Call(target)
           \/ SearchStep
           \/ AvailStep
    PROVE  FInv'
PROOF
<1>1. IInv'
  <2>1. IInv
    BY DEF FInv
  <2> QED BY <2>1, CallIInv, FoundIInv, SearchLowerIInv, SearchHigherIInv,
             NotFoundIInv, AvailStepIInv DEF SearchStep
<1>2. head \in Nat /\ head' \in Nat /\ head <= head'
  <2>1. head \in Nat
    BY SetIdFacts DEF FInv, IInv, TypeOK
  <2>2. head' = head \/ head' = head + 1
    BY DEF Call, SearchStep, Found, SearchLower, SearchHigher, NotFound, AvailStep,
           Finalize
  <2> QED BY <2>1, <2>2
<1>3. /\ find' = find /\ stored' = stored /\ indexed' = indexed /\ writing' = writing
  BY DEF redisVars
<1>4. RedisOK'
  BY <1>2, <1>3 DEF FInv, RedisOK, EpochEnd
<1>5. ASSUME find.pc = "search"
      PROVE  pc' # "idle" /\ UNCHANGED <<target_authority_set_id, head_block>>
  <2>1. pc # "idle" /\ (SearchStep \/ AvailStep)
    BY <1>5 DEF FInv, SearchOK
  <2> QED BY <2>1 DEF SearchStep, Found, SearchLower, SearchHigher, NotFound, AvailStep
<1> QED BY <1>1, <1>2, <1>3, <1>4, <1>5, OtherStepFInv

\* The call reads Redis and starts in the era of the block before the range.
LEMMA CallFInv ==
    ASSUME FInv, NEW start \in Heights \ {0}, NEW end \in start .. MaxBlock,
           find_justifications_in_range(start, end)
    PROVE  FInv'
PROOF
<1>1. /\ start \in Nat \ {0} /\ end \in Nat /\ start <= end /\ end \in Heights
      /\ start - 1 \in Heights /\ SetId[start - 1] \in AuthoritySetIds
      /\ head \in Heights /\ head \in Nat
  BY ChainAssumption, SetIdFacts DEF Heights, FInv, IInv, TypeOK
<1>2. UNCHANGED <<vars, redisVars>>
  BY DEF find_justifications_in_range
<1>3. IInv' /\ RedisOK' /\ head' = head
  BY <1>2 DEF FInv, IInv, TypeOK, ResultCorrect, RedisOK, EpochEnd, vars, redisVars
<1> DEFINE blocks == get_blocks_in_range(start, end)
<1>4. Ascending(blocks) /\ ToSet(blocks) = indexed \cap (start .. end)
  BY <1>1, BlocksInRange
<1>5. find' = [pc |-> "era", start_block |-> start, end_block |-> end,
               redis_blocks |-> blocks, curr_block |-> start,
               curr_era |-> SetId[start - 1], epoch_end_blocks |-> << >>,
               all_blocks |-> << >>, head_at_call |-> head]
  BY DEF find_justifications_in_range, start_era
<1> HIDE DEF blocks
<1>6. FindType'
  BY <1>1, <1>4, <1>5 DEF FindType, FindRecord, Ascending
<1>7. InRange' = start .. end
  BY <1>5 DEF InRange
<1>8. RedisBlocksOK'
  BY <1>2, <1>4, <1>5, <1>7 DEF RedisBlocksOK, FInv, RedisOK, redisVars, Ascending, ToSet
<1>9. EpochEndsOK'
  <2>1. \A b \in start .. end : ~ (SignerOf(b) < SetId[start - 1])
    <3> SUFFICES ASSUME NEW b \in start .. end
                 PROVE  ~ (SetId[b - 1] < SetId[start - 1])
      BY DEF SignerOf
    <3>1. b - 1 \in Heights /\ start - 1 <= b - 1
      BY <1>1, ChainAssumption DEF Heights
    <3>2. SetId[start - 1] <= SetId[b - 1] /\ SetId[b - 1] \in Nat /\ SetId[start - 1] \in Nat
      BY <1>1, <3>1, SetIdFacts
    <3> QED BY <3>2
  <2>2. find'.epoch_end_blocks = << >> /\ Ascending(<< >>) /\ ToSet(<< >>) = {}
    BY <1>5 DEF Ascending, ToSet
  <2>3. /\ find'.curr_era = SetId[start - 1] /\ find'.curr_block = start
        /\ find'.start_block = start
    BY <1>5
  <2>4. SetId[start - 1] <= SetId[start - 1] /\ start \in start .. end
    BY <1>1, SetIdFacts
  <2>5. ~ (start > start)
    BY <1>1
  <2> QED BY <1>7, <2>1, <2>2, <2>3, <2>4, <2>5 DEF EpochEndsOK, start_era, SignerOf
<1>10. find'.pc = "era" /\ find'.start_block <= find'.end_block /\ find'.head_at_call <= head'
  BY <1>1, <1>3, <1>5
<1> QED BY <1>3, <1>6, <1>8, <1>9, <1>10
        DEF FInv, SearchOK, ListedAreJustified, ListedOnce, ListingComplete, Done

\* The search for the epoch end block of the current era begins.
LEMMA NextEraFInv == FInv /\ NextEra => FInv'
PROOF
<1> SUFFICES ASSUME FInv, NextEra PROVE FInv'
  OBVIOUS
<1>1. /\ find.pc = "era" /\ find.curr_block < find.end_block
      /\ Call(find.curr_era) /\ UNCHANGED redisVars
      /\ find' = [find EXCEPT !.pc = "search"]
  BY DEF NextEra
<1>2. find \in FindRecord /\ find.head_at_call <= head
  BY <1>1, FindFields
<1>3. IInv' /\ head' = head
  BY <1>1, <1>2, CallIInv DEF FInv, FindRecord, Call
<1>4. RedisOK'
  BY <1>1, <1>3 DEF FInv, RedisOK, EpochEnd, redisVars
<1>5. /\ find' \in FindRecord /\ find'.pc = "search"
      /\ find'.start_block = find.start_block /\ find'.end_block = find.end_block
      /\ find'.redis_blocks = find.redis_blocks /\ find'.curr_block = find.curr_block
      /\ find'.curr_era = find.curr_era
      /\ find'.epoch_end_blocks = find.epoch_end_blocks
      /\ find'.head_at_call = find.head_at_call
  BY <1>1, <1>2 DEF FindRecord
<1>6. find.start_block <= find.end_block /\ RedisBlocksOK /\ EpochEndsOK
  BY <1>1 DEF FInv
<1>7. RedisBlocksOK'
  BY <1>1, <1>5, <1>6 DEF RedisBlocksOK, InRange, Ascending, ToSet, redisVars
<1>8. EpochEndsOK'
  BY <1>3, <1>5, <1>6
     DEF EpochEndsOK, InRange, Ascending, ToSet, EpochEnd, SignerOf, start_era
<1>9. SearchOK'
  BY <1>1, <1>2, <1>5 DEF SearchOK, Call
<1> QED BY <1>2, <1>3, <1>4, <1>5, <1>6, <1>7, <1>8, <1>9
        DEF FInv, FindType, ListedAreJustified, ListedOnce, ListingComplete, Done

\* The epoch end block that the search returned comes after those already
\* found and is the only one of its era.
LEMMA PushEpochEndFInv == FInv /\ PushEpochEnd => FInv'
PROOF
<1> SUFFICES ASSUME FInv, PushEpochEnd PROVE FInv'
  OBVIOUS
<1> DEFINE e == epoch_end_block_number
           era == find.curr_era
           ends == find.epoch_end_blocks
<1>1. /\ find.pc = "search" /\ pc = "done" /\ e \in 1 .. find.end_block
      /\ find' = [find EXCEPT !.pc = "era", !.epoch_end_blocks = Append(ends, e),
                              !.curr_block = e, !.curr_era = era + 1]
      /\ UNCHANGED <<vars, redisVars>>
  BY DEF PushEpochEnd
<1>2. /\ find \in FindRecord /\ InRange \subseteq Heights \ {0}
      /\ find.start_block \in Nat \ {0} /\ find.end_block \in Nat
      /\ find.end_block <= MaxBlock /\ head \in Nat
      /\ era \in AuthoritySetIds /\ era \in Nat
  BY <1>1, FindFields, SetIdFacts DEF FindRecord
<1>3. RedisBlocksOK /\ EpochEndsOK /\ SearchOK /\ find.start_block <= find.end_block
      /\ find.head_at_call <= head
  BY <1>1 DEF FInv
<1>4. e = last_justified_block(era, head_block) /\ head_block \in Heights
      /\ head_block \in Nat /\ head_block <= head
  BY <1>1, <1>3, SetIdFacts DEF FInv, IInv, ResultCorrect, TypeOK, SearchOK
<1>5. /\ e \in 1 .. head_block /\ IsLastBlockOf(e, era)
      /\ era + 1 \in AuthoritySetIds
  <2>1. e # 0
    BY <1>1
  <2> HIDE DEF e, era
  <2>2. \E b \in 1 .. head_block : IsLastBlockOf(b, era)
    BY <1>4, <2>1 DEF last_justified_block
  <2>3. e \in 1 .. head_block /\ IsLastBlockOf(e, era)
    BY <1>4, <2>2 DEF last_justified_block
  <2>4. era + 1 \in AuthoritySetIds
    BY <1>2, <1>4, <2>1, LastJustifiedBlockFacts
  <2> QED BY <2>3, <2>4
<1>6. /\ EpochEnd(e) /\ SetId[e] = era + 1 /\ SetId[e - 1] = era
      /\ e \in Nat /\ e \in Heights \ {0} /\ e <= head
  <2>1. e \in Nat /\ e \in Heights \ {0} /\ e <= head
    BY <1>1, <1>2, <1>4, <1>5, ChainAssumption DEF Heights
  <2> QED BY <1>5, <2>1 DEF IsLastBlockOf, EpochEnd, SignerOf
<1> HIDE DEF e, era
<1>7. e \in InRange /\ find.start_block <= e
  <2>1. find.start_block - 1 \in Heights
    BY <1>2, <1>3, ChainAssumption DEF Heights
  <2>2. SetId[find.start_block - 1] <= era
    BY <1>3 DEF EpochEndsOK, start_era, era
  <2>3. ~ (e <= find.start_block - 1)
    <3>1. e <= find.start_block - 1 => SetId[e] <= SetId[find.start_block - 1]
      BY <1>6, <2>1, SetIdFacts
    <3>2. SetId[find.start_block - 1] \in Nat
      BY <2>1, SetIdFacts
    <3> QED BY <1>2, <1>6, <2>2, <3>1, <3>2
  <2>4. find.start_block <= e
    BY <1>2, <1>6, <2>3
  <2> QED BY <1>1, <1>2, <1>6, <2>4 DEF InRange, e
<1>8. ends \in Seq(Nat) /\ Ascending(ends)
  BY <1>2, <1>3 DEF FindRecord, EpochEndsOK
<1>9. \A b \in ToSet(ends) : b < e
  <2> SUFFICES ASSUME NEW b \in ToSet(ends) PROVE b < e
    OBVIOUS
  <2>1. b \in Heights /\ b \in Nat /\ SetId[b] <= era /\ SetId[b] \in Nat
    BY <1>2, <1>3, SetIdFacts DEF EpochEndsOK, era
  <2>2. e <= b => SetId[e] <= SetId[b]
    BY <1>6, <2>1, SetIdFacts
  <2> QED BY <1>2, <1>6, <2>1, <2>2
<1> HIDE DEF ends
<1>10. /\ Append(ends, e) \in Seq(Nat) /\ Ascending(Append(ends, e))
       /\ ToSet(Append(ends, e)) = ToSet(ends) \cup {e}
  <2>1. /\ Append(ends, e) \in Seq(Nat)
        /\ DOMAIN Append(ends, e) = 1 .. Len(ends) + 1
        /\ DOMAIN ends = 1 .. Len(ends) /\ Len(ends) \in Nat
        /\ \A i \in 1 .. Len(ends) : Append(ends, e)[i] = ends[i]
        /\ Append(ends, e)[Len(ends) + 1] = e
    BY <1>6, <1>8
  <2>2. \A i \in 1 .. Len(ends) : ends[i] < e
    BY <1>9, <2>1 DEF ToSet
  <2>3. Ascending(Append(ends, e))
    BY <1>8, <2>1, <2>2 DEF Ascending
  <2>4. ToSet(Append(ends, e)) = ToSet(ends) \cup {e}
    BY <2>1 DEF ToSet
  <2> QED BY <2>1, <2>3, <2>4
<1>11. /\ find' \in FindRecord /\ find'.pc = "era"
       /\ find'.start_block = find.start_block /\ find'.end_block = find.end_block
       /\ find'.redis_blocks = find.redis_blocks /\ find'.curr_block = e
       /\ find'.curr_era = era + 1 /\ find'.epoch_end_blocks = Append(ends, e)
       /\ find'.head_at_call = find.head_at_call
  <2>1. find' = [find EXCEPT !.pc = "era", !.epoch_end_blocks = Append(ends, e),
                             !.curr_block = e, !.curr_era = era + 1]
    BY <1>1 DEF e, era, ends
  <2> QED BY <1>2, <1>5, <1>6, <1>10, <2>1 DEF FindRecord
<1>12. IInv' /\ RedisOK' /\ head' = head
  BY <1>1 DEF FInv, IInv, TypeOK, ResultCorrect, RedisOK, EpochEnd, vars, redisVars
<1>13. InRange' = InRange
  BY <1>11 DEF InRange
<1>14. RedisBlocksOK'
  BY <1>1, <1>3, <1>11, <1>13 DEF RedisBlocksOK, Ascending, ToSet, redisVars
<1>15. EpochEndsOK'
  <2>1. \A b \in ToSet(Append(ends, e)) :
            b \in InRange /\ b <= head /\ EpochEnd(b) /\ SetId[b] <= era + 1
    <3>1. ASSUME NEW b \in ToSet(ends)
          PROVE  b \in InRange /\ b <= head /\ EpochEnd(b) /\ SetId[b] <= era + 1
      <4>1. b \in InRange /\ b <= head /\ EpochEnd(b) /\ SetId[b] <= era
        BY <1>3 DEF EpochEndsOK, ends, era
      <4>2. SetId[b] \in Nat
        BY <1>2, <4>1, SetIdFacts
      <4> QED BY <1>2, <4>1, <4>2
    <3>2. SetId[e] <= era + 1
      BY <1>2, <1>6
    <3> QED BY <1>6, <1>7, <1>10, <3>1, <3>2
  <2>2. ASSUME NEW b \in InRange, EpochEnd(b), SignerOf(b) < era + 1
        PROVE  b \in ToSet(Append(ends, e))
    <3>1. b \in Heights \ {0} /\ SignerOf(b) \in Nat
      BY <1>2, SetIdFacts
    <3>2. CASE SignerOf(b) < era
      BY <1>3, <1>10, <2>2, <3>2 DEF EpochEndsOK, ends, era
    <3>3. CASE SignerOf(b) = era
      <4>1. IsLastBlockOf(b, era)
        BY <2>2, <3>3 DEF IsLastBlockOf
      <4>2. b = e
        BY <1>2, <1>5, <1>6, <3>1, <4>1, UniqueLastBlock
      <4> QED BY <4>2, <1>10
    <3> QED BY <1>2, <2>2, <3>1, <3>2, <3>3
  <2>3. start_era(find.start_block) <= era + 1
    <3>1. find.start_block - 1 \in Heights
      BY <1>2, <1>3, ChainAssumption DEF Heights
    <3>2. SetId[find.start_block - 1] <= era /\ SetId[find.start_block - 1] \in Nat
      BY <1>3, <3>1, SetIdFacts DEF EpochEndsOK, start_era, era
    <3> QED BY <1>2, <3>2 DEF start_era
  <2> QED BY <1>6, <1>7, <1>10, <1>11, <1>12, <1>13, <2>1, <2>2, <2>3
          DEF EpochEndsOK, EpochEnd, SignerOf, start_era
<1> QED BY <1>3, <1>11, <1>12, <1>14, <1>15
        DEF FInv, FindType, SearchOK, ListedAreJustified, ListedOnce,
            ListingComplete, Done

\* When the loop ends, every epoch end block of the range that was final at
\* the call has been found, if the range has more than one block.
LEMMA WalkComplete ==
    ASSUME FInv, Return, find.start_block < find.end_block,
           NEW b \in InRange, EpochEnd(b), b <= find.head_at_call
    PROVE  b \in ToSet(find.epoch_end_blocks)
PROOF
<1> DEFINE era == find.curr_era
<1>1. find.pc # "idle"
  BY DEF Return
<1>2. /\ InRange \subseteq Heights \ {0} /\ era \in Nat /\ find.end_block \in Nat
      /\ find.start_block \in Nat /\ find.curr_block \in Nat
      /\ find.head_at_call \in Nat /\ EpochEndsOK /\ SearchOK
  BY <1>1, FindFields DEF FInv
<1>3. /\ b \in Heights \ {0} /\ b \in Nat /\ b <= find.end_block /\ b - 1 \in Heights
      /\ SignerOf(b) \in Nat /\ SetId[b] = SignerOf(b) + 1
  BY <1>2, SetIdFacts DEF InRange, EpochEnd, SignerOf
<1> SUFFICES ASSUME ~ (SignerOf(b) < era) PROVE FALSE
  BY <1>2 DEF EpochEndsOK
<1>4. SetId[b] > era
  BY <1>2, <1>3
<1>5. CASE find.pc = "era" /\ find.curr_block >= find.end_block
  <2>1. find.curr_block \in InRange /\ find.curr_block = find.end_block
    BY <1>2, <1>5 DEF EpochEndsOK, InRange
  <2>2. SetId[find.curr_block] = era /\ find.curr_block \in Heights
    BY <1>2, <2>1 DEF EpochEndsOK
  <2>3. SetId[b] <= SetId[find.curr_block]
    BY <1>3, <2>1, <2>2, SetIdFacts
  <2> QED BY <1>2, <1>3, <1>4, <2>2, <2>3
<1>6. CASE find.pc = "search" /\ pc = "done"
  <2>1. /\ epoch_end_block_number = last_justified_block(era, head_block)
        /\ head_block \in Heights /\ head_block \in Nat
        /\ find.head_at_call <= head_block
    BY <1>2, <1>6, SetIdFacts DEF FInv, IInv, ResultCorrect, TypeOK, SearchOK
  <2>2. PICK c \in 1 .. b : IsLastBlockOf(c, era)
    BY <1>2, <1>3, <1>4, EpochHasEnd
  <2>3. c \in 1 .. head_block
    BY <1>2, <1>3, <2>1
  <2>4. epoch_end_block_number = c
    BY <1>2, <2>1, <2>2, <2>3, LastJustifiedBlockIs
  <2>5. epoch_end_block_number = 0 \/ epoch_end_block_number > find.end_block
    BY <1>6 DEF Return
  <2> QED BY <1>2, <1>3, <2>4, <2>5
<1> QED BY <1>5, <1>6 DEF Return

\* Two ascending lists without a common element, one after the other.
LEMMA Concatenation ==
    ASSUME NEW r, NEW ends, Ascending(r), Ascending(ends),
           \A x \in ToSet(r) : x \notin ToSet(ends)
    PROVE  /\ r \o ends \in Seq(Nat)
           /\ ToSet(r \o ends) = ToSet(r) \cup ToSet(ends)
           /\ \A i, j \in DOMAIN (r \o ends) : i < j => (r \o ends)[i] # (r \o ends)[j]
PROOF
<1> DEFINE m == Len(r)
           n == Len(ends)
           all == r \o ends
<1>1. r \in Seq(Nat) /\ ends \in Seq(Nat)
  BY DEF Ascending
<1>2. /\ m \in Nat /\ n \in Nat /\ DOMAIN r = 1 .. m /\ DOMAIN ends = 1 .. n
      /\ all \in Seq(Nat) /\ DOMAIN all = 1 .. m + n
      /\ \A i \in 1 .. m : all[i] = r[i] /\ r[i] \in Nat
      /\ \A i \in m + 1 .. m + n : all[i] = ends[i - m]
      /\ \A i \in 1 .. n : ends[i] \in Nat
  BY <1>1
<1> HIDE DEF m, n, all
<1>3. /\ \A x : x \in ToSet(r) <=> \E i \in 1 .. m : x = r[i]
      /\ \A x : x \in ToSet(ends) <=> \E i \in 1 .. n : x = ends[i]
      /\ \A x : x \in ToSet(all) <=> \E i \in 1 .. m + n : x = all[i]
  BY <1>2 DEF ToSet
<1>4. ASSUME NEW i \in 1 .. m + n, i > m
      PROVE  /\ i \in m + 1 .. m + n /\ i - m \in 1 .. n
             /\ all[i] = ends[i - m] /\ all[i] \in ToSet(ends)
  <2>1. i \in m + 1 .. m + n /\ i - m \in 1 .. n
    BY <1>2, <1>4
  <2> QED BY <1>2, <1>3, <2>1
<1>5. ASSUME NEW i \in 1 .. m + n, i <= m
      PROVE  i \in 1 .. m /\ all[i] = r[i] /\ all[i] \in ToSet(r)
  <2>1. i \in 1 .. m
    BY <1>2, <1>5
  <2> QED BY <1>2, <1>3, <2>1
<1>6. ToSet(all) = ToSet(r) \cup ToSet(ends)
  <2>1. ASSUME NEW x \in ToSet(all) PROVE x \in ToSet(r) \cup ToSet(ends)
    <3>1. PICK i \in 1 .. m + n : x = all[i]
      BY <1>3
    <3>2. i > m \/ i <= m
      BY <1>2
    <3> QED BY <1>4, <1>5, <3>1, <3>2
  <2>2. ASSUME NEW x \in ToSet(r) PROVE x \in ToSet(all)
    <3>1. PICK i \in 1 .. m : x = r[i]
      BY <1>3
    <3>2. i \in 1 .. m + n /\ all[i] = r[i]
      BY <1>2
    <3> QED BY <1>3, <3>1, <3>2
  <2>3. ASSUME NEW x \in ToSet(ends) PROVE x \in ToSet(all)
    <3>1. PICK i \in 1 .. n : x = ends[i]
      BY <1>3
    <3>2. m + i \in m + 1 .. m + n /\ m + i \in 1 .. m + n /\ (m + i) - m = i
      BY <1>2
    <3>3. all[m + i] = ends[i]
      BY <1>2, <3>2
    <3> QED BY <1>3, <3>1, <3>2, <3>3
  <2> QED BY <2>1, <2>2, <2>3
<1>7. ASSUME NEW i \in 1 .. m + n, NEW j \in 1 .. m + n, i < j PROVE all[i] # all[j]
  <2>1. CASE j <= m
    <3>1. i <= m
      BY <1>2, <1>7, <2>1
    <3>2. i \in 1 .. m /\ j \in 1 .. m /\ all[i] = r[i] /\ all[j] = r[j]
      BY <1>5, <2>1, <3>1
    <3>3. r[i] < r[j] /\ r[i] \in Nat /\ r[j] \in Nat
      BY <1>2, <1>7, <3>2 DEF Ascending
    <3> QED BY <3>2, <3>3
  <2>2. CASE i > m
    <3>1. j > m
      BY <1>2, <1>7, <2>2
    <3>2. /\ i - m \in 1 .. n /\ j - m \in 1 .. n
          /\ all[i] = ends[i - m] /\ all[j] = ends[j - m]
      BY <1>4, <2>2, <3>1
    <3>3. i - m < j - m
      BY <1>2, <1>7
    <3>4. ends[i - m] < ends[j - m] /\ ends[i - m] \in Nat /\ ends[j - m] \in Nat
      BY <1>2, <3>2, <3>3 DEF Ascending
    <3> QED BY <3>2, <3>4
  <2>3. CASE i <= m /\ j > m
    <3>1. all[i] \in ToSet(r) /\ all[j] \in ToSet(ends)
      BY <1>4, <1>5, <2>3
    <3> QED BY <3>1
  <2> QED BY <1>2, <1>7, <2>1, <2>2, <2>3
<1> QED BY <1>2, <1>6, <1>7 DEF all

\* The two lists have no block in common, so the sorted listing has none twice.
LEMMA ReturnFInv == FInv /\ Return => FInv'
PROOF
<1> SUFFICES ASSUME FInv, Return PROVE FInv'
  OBVIOUS
<1> DEFINE r == find.redis_blocks
           ends == find.epoch_end_blocks
           all == r \o ends
<1>1. /\ find.pc # "idle"
      /\ find' = [find EXCEPT !.pc = "done", !.all_blocks = Sorted(all)]
      /\ UNCHANGED <<vars, redisVars>>
  BY DEF Return
<1>2. /\ find \in FindRecord /\ InRange \subseteq Heights \ {0} /\ head \in Nat
      /\ find.start_block <= find.end_block /\ find.head_at_call <= head
      /\ RedisBlocksOK /\ EpochEndsOK /\ RedisOK
  BY <1>1, FindFields DEF FInv
<1>3. Ascending(r) /\ Ascending(ends)
  BY <1>2 DEF RedisBlocksOK, EpochEndsOK
<1>4. ASSUME NEW x \in ToSet(r)
      PROVE  x \in InRange /\ x \in stored /\ x <= head /\ ~ EpochEnd(x)
  <2>1. x \in InRange /\ x \in stored
    BY <1>2 DEF RedisBlocksOK
  <2>2. x \in 1 .. head /\ ~ EpochEnd(x)
    BY <1>2, <2>1 DEF RedisOK
  <2>3. x <= head
    BY <1>2, <2>2
  <2> QED BY <2>1, <2>2, <2>3
<1>5. \A x \in ToSet(ends) : x \in InRange /\ x <= head /\ EpochEnd(x)
  BY <1>2 DEF EpochEndsOK
<1> HIDE DEF r, ends
<1>6. /\ all \in Seq(Nat) /\ ToSet(all) = ToSet(r) \cup ToSet(ends)
      /\ \A i, j \in DOMAIN all : i < j => all[i] # all[j]
  BY <1>3, <1>4, <1>5, Concatenation
<1> HIDE DEF all
<1>7. /\ Sorted(all) \in Seq(Nat) /\ Ascending(Sorted(all))
      /\ ToSet(Sorted(all)) = ToSet(r) \cup ToSet(ends)
  BY <1>6, SortedElements
<1>8. /\ find' \in FindRecord /\ find'.pc = "done" /\ find'.all_blocks = Sorted(all)
      /\ find'.start_block = find.start_block /\ find'.end_block = find.end_block
      /\ find'.redis_blocks = find.redis_blocks /\ find'.curr_block = find.curr_block
      /\ find'.curr_era = find.curr_era
      /\ find'.epoch_end_blocks = find.epoch_end_blocks
      /\ find'.head_at_call = find.head_at_call
  BY <1>1, <1>2, <1>7 DEF FindRecord
<1>9. IInv' /\ RedisOK' /\ head' = head /\ stored' = stored /\ InRange' = InRange
  BY <1>1, <1>8
     DEF FInv, IInv, TypeOK, ResultCorrect, RedisOK, EpochEnd, vars, redisVars, InRange
<1>10. RedisBlocksOK' /\ EpochEndsOK'
  BY <1>2, <1>8, <1>9
     DEF RedisBlocksOK, EpochEndsOK, Ascending, ToSet, EpochEnd, SignerOf, start_era
<1>11. ListedAreJustified'
  <2>1. \A i \in DOMAIN Sorted(all) : Sorted(all)[i] \in ToSet(r) \cup ToSet(ends)
    BY <1>7 DEF ToSet
  <2> QED BY <1>4, <1>5, <1>8, <1>9, <2>1 DEF ListedAreJustified, EpochEnd
<1>12. ListedOnce'
  BY <1>7, <1>8 DEF ListedOnce, Ascending
<1>13. ListingComplete'
  <2>1. ASSUME find.start_block < find.end_block PROVE Findable \subseteq ToSet(Sorted(all))
    <3> SUFFICES ASSUME NEW b \in Findable PROVE b \in ToSet(Sorted(all))
      OBVIOUS
    <3>1. b \in InRange
      BY DEF Findable
    <3>2. CASE b \in ToSet(r)
      BY <1>7, <3>2
    <3>3. CASE EpochEnd(b) /\ b <= find.head_at_call
      <4>1. b \in ToSet(ends)
        BY <2>1, <3>1, <3>3, WalkComplete DEF ends
      <4> QED BY <1>7, <4>1
    <3> QED BY <3>2, <3>3 DEF Findable, r
  <2>2. Findable' = Findable
    BY <1>8, <1>9 DEF Findable, EpochEnd, ToSet
  <2>3. ToSet(find'.all_blocks) = ToSet(Sorted(all))
    BY <1>8
  <2>4. ListingComplete' <=>
            (Done' /\ find'.start_block < find'.end_block =>
                 Findable' \subseteq ToSet(find'.all_blocks))
    BY DEF ListingComplete, ToSet
  <2> QED BY <1>8, <2>1, <2>2, <2>3, <2>4
<1> QED BY <1>2, <1>8, <1>9, <1>10, <1>11, <1>12, <1>13 DEF FInv, FindType, SearchOK

\* The walk and its searches, the indexer and the chain keep FInv.
THEOREM FindInvariance == FindSpec => []FInv
PROOF
<1>1. FInv /\ [FindNext]_findVars => FInv'
  <2> SUFFICES ASSUME FInv, [FindNext]_findVars PROVE FInv'
    OBVIOUS
  <2>1. CASE IndexerStep
    BY <2>1, IndexerStepFInv
  <2>2. CASE \E start \in Heights \ {0} : \E end \in start .. MaxBlock :
                 find_justifications_in_range(start, end)
    BY <2>2, CallFInv
  <2>3. CASE FindStep
    BY <2>3, NextEraFInv, PushEpochEndFInv, ReturnFInv DEF FindStep
  <2>4. CASE \E target \in AuthoritySetIds : OtherCall(target)
    BY <2>4, SearchAndChainFInv DEF OtherCall
  <2>5. CASE (SearchStep \/ AvailStep) /\ UNCHANGED <<redisVars, find>>
    BY <2>5, SearchAndChainFInv
  <2>6. CASE UNCHANGED findVars
    <3>1. UNCHANGED <<vars, find>> /\ UNCHANGED <<stored, indexed, writing>>
      BY <2>6 DEF findVars, redisVars
    <3>2. IInv' /\ RedisOK' /\ head \in Nat
      BY <3>1, SetIdFacts
         DEF FInv, IInv, TypeOK, ResultCorrect, RedisOK, EpochEnd, vars
    <3>3. find.pc = "search" => pc' # "idle"
      BY <3>1 DEF FInv, SearchOK, vars
    <3> QED BY <3>1, <3>2, <3>3, OtherStepFInv DEF vars
  <2> QED BY <2>1, <2>2, <2>3, <2>4, <2>5, <2>6 DEF FindNext
<1> QED BY <1>1, FindInitFInv, PTL DEF FindSpec

\* Whatever the chain, the indexer's interruptions and the growth of the
\* chain between the searches, find_justifications_in_range lists only blocks
\* of the range whose justification can be fetched.
THEOREM ListingJustified == FindSpec => []ListedAreJustified
PROOF
<1>1. FInv => ListedAreJustified
  BY DEF FInv
<1> QED BY <1>1, FindInvariance, PTL

\* The listing is in ascending order without a duplicate.
THEOREM ListingAscends == FindSpec => []ListedOnce
PROOF
<1>1. FInv => ListedOnce
  BY DEF FInv
<1> QED BY <1>1, FindInvariance, PTL

\* A range of more than one block has all its indexed and epoch end blocks in
\* the listing.
THEOREM NothingMissed == FindSpec => []ListingComplete
PROOF
<1>1. FInv => ListingComplete
  BY DEF FInv
<1> QED BY <1>1, FindInvariance, PTL
=============================================================================
