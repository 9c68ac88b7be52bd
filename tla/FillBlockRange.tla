--------------------------- MODULE FillBlockRange ---------------------------
(***************************************************************************)
(* The guardian's tool bin/fill_block_range.rs against the live contract:  *)
(* it reads the tree size, then the latest block, computes the calldata of *)
(* updateBlockRangeData, and posts it, or prints it to be posted later.    *)
(* Relayed proofs and other guardian transactions come in between.         *)
(***************************************************************************)
EXTENDS VectorX

VARIABLE fill   \* the tool: program counter, tree size read, calldata

fillVars == <<vars, fill>>

NotRunning == [pc |-> "idle", treeSize |-> 0, call |-> <<>>]

FillInit == Init /\ fill = NotRunning

read_tree_size ==
    /\ initialized
    /\ fill.pc = "idle"
    /\ fill' = [fill EXCEPT !.pc = "latest", !.treeSize = headerRangeCommitmentTreeSize]
    /\ UNCHANGED vars

\* The chain data of the range is final, so computing it is one step.
read_latest_block(end) ==
    /\ fill.pc = "latest"
    /\ fill' = [fill EXCEPT !.pc = "post",
                    !.call = get_block_range_data(fill.treeSize, latestBlock, end)]
    /\ UNCHANGED vars

post ==
    /\ fill.pc = "post"
    /\ updateBlockRangeData(fill.call)
    /\ fill' = NotRunning

\* The transaction reverts, or the printed calldata is not used.
give_up ==
    /\ fill.pc = "post"
    /\ fill' = NotRunning
    /\ UNCHANGED vars

ToolStep ==
    \/ read_tree_size
    \/ \E end \in FinalizedHeights : read_latest_block(end)
    \/ post
    \/ give_up

\* Everything else that happens to the contract.
ContractStep ==
    /\ AvailStep \/ InitializeStep \/ ConfigurationStep \/ GenesisStep
       \/ RequestStep \/ FulfilStep \/ Abandon
    /\ UNCHANGED fill

FillNext == ToolStep \/ ContractStep

FillSpec == FillInit /\ [][FillNext]_fillVars

-----------------------------------------------------------------------------
\* Between the reads of the tool and its transaction the contract may move
\* on; what is stored is still what was promised for it: every commitment is
\* of its own range, and calldata computed for an older head is refused, so
\* that the ranges tile and the authority set stays that of the head.
StaleCallHarmless ==
    /\ RangeCommitmentsCanonical
    /\ RangesTile
    /\ AuthorityWindow
=============================================================================
