------------------------- MODULE FindJustifications -------------------------
(***************************************************************************)
(* RpcDataFetcher::find_justifications_in_range, circuits/input/mod.rs,    *)
(* with what it reads: the two Redis keys that the indexer writes one      *)
(* after the other (RedisClient::add_justification), and, through repeated *)
(* searches for epoch ends (LastJustifiedBlock), a chain that grows.       *)
(***************************************************************************)
EXTENDS LastJustifiedBlock, SequencesExt

CONSTANT Justified  \* blocks whose justification reaches the indexer

ASSUME JustifiedAssumption == Justified \subseteq Heights \ {0}

VARIABLES
    stored,     \* blocks whose justification is a JSON object in Redis
    indexed,    \* the sorted set justification:blocks
    writing,    \* the block between its two writes, 0 if there is none
    find        \* locals of the call of find_justifications_in_range

redisVars == <<stored, indexed, writing>>
findVars == <<vars, redisVars, find>>

FindInit ==
    /\ Init
    /\ stored = {} /\ indexed = {} /\ writing = 0
    /\ find = [pc |-> "idle"]

-----------------------------------------------------------------------------
(* The indexer.                                                            *)

\* Mutant of json_set: the index is written first.
zadd_first(b) ==
    /\ writing = 0 /\ b <= head /\ VerifiesAt(b)
    /\ indexed' = indexed \cup {b} /\ writing' = b
    /\ UNCHANGED <<vars, stored, find>>

\* A justification arrives, verifies, and the first key is written.
json_set(b) ==
    /\ writing = 0 /\ b <= head /\ VerifiesAt(b)
    /\ stored' = stored \cup {b} /\ writing' = b
    /\ UNCHANGED <<vars, indexed, find>>

zadd ==
    /\ writing # 0
    /\ indexed' = indexed \cup {writing} /\ writing' = 0
    /\ UNCHANGED <<vars, stored, find>>

\* Redis fails between the writes: expect panics and the indexer restarts.
IndexerPanic ==
    /\ writing # 0
    /\ writing' = 0
    /\ UNCHANGED <<vars, stored, indexed, find>>

IndexerStep == (\E b \in Justified : json_set(b)) \/ zadd \/ IndexerPanic

-----------------------------------------------------------------------------
(* The listing.                                                            *)

\* Mutant of start_era: the set after the start block.
start_era_at_block(start_block) == SetId[start_block]

start_era(start_block) == SetId[start_block - 1]

\* The place of blocks[i] once they are sorted; equal blocks keep their order.
Rank(blocks, i) ==
    Cardinality({j \in DOMAIN blocks : \/ blocks[j] < blocks[i]
                                       \/ blocks[j] = blocks[i] /\ j <= i})

Sorted(blocks) ==
    [k \in DOMAIN blocks |->
        blocks[CHOOSE i \in DOMAIN blocks : Rank(blocks, i) = k]]

get_blocks_in_range(start, end) == Sorted(SetToSeq(indexed \cap (start .. end)))

\* Redis is queried once, before the first era.  (Bound: one such call; the
\* methods take &mut self, so it does not overlap with other searches, which
\* may come before it.)  A range starts at block 1 or later: for block 0,
\* start_block - 1 is no block number.
find_justifications_in_range(start_block, end_block) ==
    /\ find.pc = "idle" /\ pc # "loop"
    /\ start_block - 1 <= head
    /\ find' = [pc |-> "era", start_block |-> start_block, end_block |-> end_block,
                redis_blocks |-> get_blocks_in_range(start_block, end_block),
                curr_block |-> start_block, curr_era |-> start_era(start_block),
                epoch_end_blocks |-> << >>, all_blocks |-> << >>,
                head_at_call |-> head]
    /\ UNCHANGED <<vars, redisVars>>

\* The while loop goes on: last_justified_block(curr_era) is called.
NextEra ==
    /\ find.pc = "era" /\ find.curr_block < find.end_block
    /\ Call(find.curr_era)
    /\ find' = [find EXCEPT !.pc = "search"]
    /\ UNCHANGED redisVars

\* Its result is an epoch end block in the range.
PushEpochEnd ==
    /\ find.pc = "search" /\ pc = "done"
    /\ epoch_end_block_number \in 1 .. find.end_block
    /\ find' = [find EXCEPT !.pc = "era",
                    !.epoch_end_blocks = Append(@, epoch_end_block_number),
                    !.curr_block = epoch_end_block_number,
                    !.curr_era = @ + 1]
    /\ UNCHANGED <<vars, redisVars>>

\* The loop is over: its condition is false, the era is the current one, or
\* it ends after the range.
Return ==
    /\ \/ find.pc = "era" /\ find.curr_block >= find.end_block
       \/ /\ find.pc = "search" /\ pc = "done"
          /\ epoch_end_block_number = 0 \/ epoch_end_block_number > find.end_block
    /\ find' = [find EXCEPT !.pc = "done",
                    !.all_blocks = Sorted(find.redis_blocks \o find.epoch_end_blocks)]
    /\ UNCHANGED <<vars, redisVars>>

FindStep == NextEra \/ PushEpochEnd \/ Return

\* Any other caller of last_justified_block.
OtherCall(target) ==
    /\ find.pc = "idle"
    /\ Call(target)
    /\ UNCHANGED <<redisVars, find>>

FindNext ==
    \/ IndexerStep
    \/ \E start \in Heights \ {0} : \E end \in start .. MaxBlock :
           find_justifications_in_range(start, end)
    \/ FindStep
    \/ \E target \in AuthoritySetIds : OtherCall(target)
    \/ (SearchStep \/ AvailStep) /\ UNCHANGED <<redisVars, find>>

FindSpec ==
    /\ FindInit /\ [][FindNext]_findVars
    /\ WF_findVars(SearchStep /\ UNCHANGED <<redisVars, find>>)
    /\ WF_findVars(FindStep)

-----------------------------------------------------------------------------
(* Correctness.                                                            *)

Done == find.pc = "done"
InRange == find.start_block .. find.end_block

\* Every block of the listing is in the range and its justification can be
\* fetched, whenever the indexer was interrupted between its two writes and
\* however the chain grew during the searches.
ListedAreJustified ==
    Done => \A i \in DOMAIN find.all_blocks :
                LET b == find.all_blocks[i]
                IN /\ b \in InRange
                   /\ b <= head
                   /\ EpochEnd(b) \/ b \in stored

\* No block is listed twice, although the blocks come from two sources: the
\* indexer never verifies the justification of an epoch end block.
ListedOnce ==
    Done => \A i, j \in DOMAIN find.all_blocks :
                i < j => find.all_blocks[i] < find.all_blocks[j]

\* The blocks that were indexed and the epoch end blocks that were final
\* when the function was called.
Findable ==
    {b \in InRange : \/ b \in ToSet(find.redis_blocks)
                     \/ EpochEnd(b) /\ b <= find.head_at_call}

\* In a range of more than one block nothing is missed, at either end of the
\* range or in an epoch of a single block.
ListingComplete ==
    Done /\ find.start_block < find.end_block =>
        Findable \subseteq ToSet(find.all_blocks)

\* The comment on find_justifications_in_range: "This includes justifications
\* in Redis and epoch end blocks within the given range of block numbers.
\* Includes start and end blocks."
IncludesStartAndEnd == Done => Findable \subseteq ToSet(find.all_blocks)

\* The walk over the eras ends, each search within it included.
FindTerminates == find.pc \in {"era", "search"} ~> Done
=============================================================================
