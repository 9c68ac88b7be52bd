------------------------ MODULE LastJustifiedBlock ------------------------
(***************************************************************************)
(* RpcDataFetcher::last_justified_block, circuits/input/mod.rs: the binary *)
(* search over the finalized chain for the epoch end block of an authority *)
(* set.  The operator, the rotate hint and find_justifications_in_range    *)
(* all depend on it.  The head is read once; the chain grows meanwhile.    *)
(*                                                                         *)
(* Block numbers are u32 and wrap.                                         *)
(***************************************************************************)
EXTENDS AvailChain

CONSTANT U32    \* number of values of a u32, 2^32 in the code

\* The sum low + high of two block numbers fits in a u32.
ASSUME WidthAssumption == U32 \in Nat /\ 2 * MaxBlock + 1 < U32

VARIABLES
    pc,                         \* "idle", "loop" or "done"
    target_authority_set_id,
    head_block,                 \* the finalized head when the search began
    low,
    high,
    epoch_end_block_number      \* the result

vars == <<head, pc, target_authority_set_id, head_block, low, high,
          epoch_end_block_number>>

U32Sub(x, y) == (x - y) % U32
U32Add(x, y) == (x + y) % U32

Mid == U32Add(low, high) \div 2

Init ==
    /\ head = 1
    /\ pc = "idle"
    /\ target_authority_set_id = 0
    /\ head_block = 0
    /\ low = 0
    /\ high = 0
    /\ epoch_end_block_number = 0

\* Mutant of Call: the search interval includes the block after the head.
CallPastHead(target) ==
    /\ pc # "loop"
    /\ pc' = "loop"
    /\ target_authority_set_id' = target
    /\ head_block' = head
    /\ low' = 0
    /\ high' = head + 1
    /\ epoch_end_block_number' = 0
    /\ UNCHANGED head

Call(target) ==
    /\ pc # "loop"
    /\ pc' = "loop"
    /\ target_authority_set_id' = target
    /\ head_block' = head
    /\ low' = 0
    /\ high' = head
    /\ epoch_end_block_number' = 0
    /\ UNCHANGED head

\* Mutant of IsBoundary: any block of the next set is taken.
AnyBlock == TRUE

\* Ordering::Equal, and the block before mid is in the target set.
IsBoundary ==
    \/ Mid = 0
    \/ SetId[Mid - 1] = target_authority_set_id

Found ==
    /\ pc = "loop" /\ low <= high
    /\ SetId[Mid] = target_authority_set_id + 1
    /\ IsBoundary
    /\ epoch_end_block_number' = Mid
    /\ pc' = "done"
    /\ UNCHANGED <<head, target_authority_set_id, head_block, low, high>>

\* Ordering::Equal otherwise, and Ordering::Greater.
SearchLower ==
    /\ pc = "loop" /\ low <= high
    /\ SetId[Mid] >= target_authority_set_id + 1
    /\ SetId[Mid] = target_authority_set_id + 1 => ~ IsBoundary
    /\ high' = U32Sub(Mid, 1)
    /\ UNCHANGED <<head, pc, target_authority_set_id, head_block, low,
                   epoch_end_block_number>>

\* Mutants of SearchHigher: one block is skipped; the interval need not shrink.
SearchTooHigh ==
    /\ pc = "loop" /\ low <= high
    /\ SetId[Mid] < target_authority_set_id + 1
    /\ low' = U32Add(Mid, 2)
    /\ UNCHANGED <<head, pc, target_authority_set_id, head_block, high,
                   epoch_end_block_number>>
SearchFromMid ==
    /\ pc = "loop" /\ low <= high
    /\ SetId[Mid] < target_authority_set_id + 1
    /\ low' = Mid
    /\ UNCHANGED <<head, pc, target_authority_set_id, head_block, high,
                   epoch_end_block_number>>

\* Ordering::Less.
SearchHigher ==
    /\ pc = "loop" /\ low <= high
    /\ SetId[Mid] < target_authority_set_id + 1
    /\ low' = U32Add(Mid, 1)
    /\ UNCHANGED <<head, pc, target_authority_set_id, head_block, high,
                   epoch_end_block_number>>

NotFound ==
    /\ pc = "loop" /\ low > high
    /\ pc' = "done"
    /\ UNCHANGED <<head, target_authority_set_id, head_block, low, high,
                   epoch_end_block_number>>

AvailStep ==
    /\ Finalize
    /\ UNCHANGED <<pc, target_authority_set_id, head_block, low, high,
                   epoch_end_block_number>>

SearchStep == Found \/ SearchLower \/ SearchHigher \/ NotFound

Next ==
    \/ \E target \in AuthoritySetIds : Call(target)
    \/ SearchStep
    \/ AvailStep

Spec == Init /\ [][Next]_vars /\ WF_vars(SearchStep)

-----------------------------------------------------------------------------
\* The search stays inside the finalized chain: neither bound wraps around
\* the u32 range or leaves 0 .. head + 1.
TypeOK ==
    /\ head \in Heights \ {0}
    /\ pc \in {"idle", "loop", "done"}
    /\ target_authority_set_id \in AuthoritySetIds
    /\ head_block \in Heights
    /\ head_block <= head
    /\ low \in 0 .. head_block + 1
    /\ high \in 0 .. head_block
    /\ epoch_end_block_number \in Heights

\* The search returns the epoch end block of the target set, or 0 if the
\* chain up to the head it started from has none: the narrowing of the
\* interval never loses the boundary and high never wraps below block 0.
ResultCorrect ==
    pc = "done" =>
        epoch_end_block_number =
            last_justified_block(target_authority_set_id, head_block)

\* The comment on the function: it returns 0 when the authority set at the
\* head is not beyond the target set, and only then.
ZeroIffCurrent ==
    pc = "done" =>
        (epoch_end_block_number = 0 <=>
            SetId[head_block] <= target_authority_set_id)

\* The loop ends for every chain and every target.
Terminates == pc = "loop" ~> pc = "done"
=============================================================================
