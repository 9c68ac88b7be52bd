------------------------------- MODULE Events -------------------------------
(***************************************************************************)
(* The service bin/events.rs: it scans the Ethereum chain for the          *)
(* HeaderRangeCommitmentStored events of a deployment and stores their     *)
(* ranges in Redis, from which the Merkle proof endpoint answers.  A       *)
(* cursor in Redis says how far it got; a failed call makes it panic and   *)
(* start again from the cursor.                                            *)
(*                                                                         *)
(* An Ethereum block holds at most one event, known by its block number.   *)
(***************************************************************************)
EXTENDS Integers, Sequences, FiniteSetsExt

CONSTANTS
    EmittedSignature,   \* argument types of the deployment's event
    CursorStartBlock,   \* cursor_start_block in deployments.json
    BatchSize,          \* blocks per query, 50000 in the code
    MaxEthBlock,        \* bound: last Ethereum block
    MaxCrashes          \* bound: panics of the service

ASSUME EventsAssumption ==
    /\ EmittedSignature \in Seq({"uint32", "bytes32"})
    /\ CursorStartBlock \in Nat
    /\ BatchSize \in Nat \ {0}
    /\ MaxEthBlock \in Nat /\ MaxEthBlock >= CursorStartBlock
    /\ MaxCrashes \in Nat

VARIABLES
    ethBlock,   \* the latest Ethereum block
    logs,       \* blocks with an event of the contract
    cursor,     \* get_contract_cursor, None if it was never set
    ranges,     \* events whose range is stored in Redis
    service,    \* program counter and local values
    crashes

vars == <<ethBlock, logs, cursor, ranges, service, crashes>>

None == -1

Waiting == [pc |-> "wait", current_block |-> 0, curr_start_block |-> 0,
            pending |-> {}]

Init ==
    /\ ethBlock = CursorStartBlock
    /\ logs \in SUBSET {CursorStartBlock}
    /\ cursor = None
    /\ ranges = {}
    /\ service = Waiting
    /\ crashes = 0

\* Ethereum: external.
mine ==
    /\ ethBlock < MaxEthBlock
    /\ ethBlock' = ethBlock + 1
    /\ logs' \in {logs, logs \cup {ethBlock'}}
    /\ UNCHANGED <<cursor, ranges, service, crashes>>

-----------------------------------------------------------------------------
At(pc) == service.pc = pc
Outside == <<ethBlock, logs, crashes>>

get_block_number ==
    /\ At("wait")
    /\ service' = [service EXCEPT !.pc = "cursor", !.current_block = ethBlock]
    /\ UNCHANGED <<Outside, cursor, ranges>>

\* An error of Redis is taken for a cursor that was never set.
get_contract_cursor ==
    /\ At("cursor")
    /\ \E found \in {cursor, None} :
           LET from == IF found = None THEN CursorStartBlock ELSE found
           IN service' = IF service.current_block > from
                         THEN [service EXCEPT !.pc = "query", !.curr_start_block = from]
                         ELSE Waiting
    /\ UNCHANGED <<Outside, cursor, ranges>>

batch_end_block == Min({service.curr_start_block + BatchSize, service.current_block})

\* Mutant of header_range_filter: the tree size is taken for an argument.
header_range_filter_with_size ==
    <<"uint32", "uint32", "bytes32", "bytes32", "uint32">>

\* The signature the service asks for; its hash is the topic of the filter.
header_range_filter == <<"uint32", "uint32", "bytes32", "bytes32">>

get_logs(from, to) ==
    {b \in logs : from <= b /\ b <= to /\ EmittedSignature = header_range_filter}

\* Mutant of next_batch_start: batches do not overlap.
next_batch_start_after == batch_end_block + 1

\* The next batch starts at the last block of this one.
next_batch_start == batch_end_block

\* One round of the loop of store_events: the logs of the next batch.
store_events ==
    /\ At("query")
    /\ service.curr_start_block < service.current_block
    /\ service' = [service EXCEPT !.pc = "store",
                      !.pending = get_logs(service.curr_start_block, batch_end_block),
                      !.curr_start_block = next_batch_start]
    /\ UNCHANGED <<Outside, cursor, ranges>>

\* Storing a range that is there already changes nothing: the entry of the
\* sorted set is the range itself.
add_data_commitment_range ==
    /\ At("store") /\ service.pending # {}
    /\ LET log == Min(service.pending)
       IN /\ ranges' = ranges \cup {log}
          /\ service' = [service EXCEPT !.pending = service.pending \ {log}]
    /\ UNCHANGED <<Outside, cursor>>

end_of_batch ==
    /\ At("store") /\ service.pending = {}
    /\ service' = [service EXCEPT !.pc = "query"]
    /\ UNCHANGED <<Outside, cursor, ranges>>

set_contract_cursor ==
    /\ At("query")
    /\ service.curr_start_block >= service.current_block
    /\ cursor' = service.current_block
    /\ service' = Waiting
    /\ UNCHANGED <<Outside, ranges>>

\* A call to the node or to Redis fails, and the service is started again.
crash ==
    /\ crashes < MaxCrashes
    /\ crashes' = crashes + 1
    /\ service' = Waiting
    /\ UNCHANGED <<ethBlock, logs, cursor, ranges>>

ServiceStep ==
    \/ get_block_number \/ get_contract_cursor \/ store_events
    \/ add_data_commitment_range \/ end_of_batch \/ set_contract_cursor

Next == mine \/ ServiceStep \/ crash

Spec == Init /\ [][Next]_vars /\ WF_vars(ServiceStep) /\ WF_vars(mine)

-----------------------------------------------------------------------------
\* Every commitment event up to the cursor is stored, wherever a panic
\* interrupted the service and however the batches fall: the cursor is never
\* ahead of what was stored.
NothingSkipped == \A b \in logs : b <= cursor => b \in ranges

\* Every commitment event is stored some time.
EveryEventStored ==
    \A b \in CursorStartBlock .. MaxEthBlock : b \in logs ~> b \in ranges
=============================================================================
