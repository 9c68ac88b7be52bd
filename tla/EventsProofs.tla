---------------------------- MODULE EventsProofs ----------------------------
(***************************************************************************)
(* Proofs about the event service for every batch size, every start block, *)
(* any number of Ethereum blocks and any number of panics.                 *)
(*                                                                         *)
(* NothingSkipped is not inductive: it says nothing of the round that is   *)
(* under way.  IInv adds how far that round has come: at the head of the   *)
(* loop every event before the next batch is stored, and once a batch was  *)
(* read the events of its last block are stored or still to be stored.     *)
(***************************************************************************)
EXTENDS Events, TLAPS

ServiceType ==
    [pc : {"wait", "cursor", "query", "store"}, current_block : Nat,
     curr_start_block : Nat, pending : SUBSET Nat]

\* Ethereum and the cursor: events are in mined blocks that the deployment's
\* start block does not exclude, and the cursor is a mined block.
ChainAndCursor ==
    /\ ethBlock \in Nat
    /\ ethBlock >= CursorStartBlock
    /\ logs \subseteq CursorStartBlock .. ethBlock
    /\ cursor \in (0 .. ethBlock) \cup {None}
    /\ service \in ServiceType
    /\ service.current_block <= ethBlock

\* The head of the loop.  The first batch starts at the cursor, so the
\* events of its first block need not be stored: then a batch is to come.
QueryPoint ==
    At("query") =>
        /\ service.curr_start_block <= service.current_block
        /\ \A b \in logs : b < service.curr_start_block => b \in ranges
        /\ \/ service.curr_start_block < service.current_block
           \/ \A b \in logs : b <= service.curr_start_block => b \in ranges

\* A batch was read; curr_start_block is its last block already.
StorePoint ==
    At("store") =>
        /\ service.curr_start_block <= service.current_block
        /\ \A b \in logs : b <= service.curr_start_block =>
               b \in ranges \cup service.pending

IInv == ChainAndCursor /\ NothingSkipped /\ QueryPoint /\ StorePoint

\* The last block of a batch: it does not pass the block the round ends at,
\* and it lies beyond the first block of the batch.
LEMMA BatchEnd ==
    ASSUME service \in ServiceType,
           service.curr_start_block < service.current_block
    PROVE  /\ batch_end_block \in Nat
           /\ service.curr_start_block < batch_end_block
           /\ batch_end_block <= service.current_block
PROOF
<1> DEFINE x == service.curr_start_block + BatchSize
           y == service.current_block
<1>1. x \in Nat /\ y \in Nat /\ x > service.curr_start_block
      /\ service.curr_start_block \in Nat
  BY EventsAssumption DEF ServiceType
<1> HIDE DEF x, y
<1>2. \E z \in {x, y} : \A u \in {x, y} : z <= u
  BY <1>1
<1>3. Min({x, y}) \in {x, y} /\ \A u \in {x, y} : Min({x, y}) <= u
  BY <1>2 DEF Min
<1> QED BY <1>1, <1>3 DEF batch_end_block, x, y

\* A service that has just started satisfies the invariant.
LEMMA WaitingType == Waiting \in ServiceType
PROOF BY DEF Waiting, ServiceType

-----------------------------------------------------------------------------
\* Every action keeps the invariant, when the service asks for the events
\* that the contract emits.
LEMMA StepIInv ==
    ASSUME EmittedSignature = header_range_filter, IInv, [Next]_vars
    PROVE  IInv'
PROOF
<1> USE DEF At, Outside
<1> USE EventsAssumption
<1>1. CASE mine
  <2>1. /\ ethBlock' = ethBlock + 1
        /\ logs \subseteq logs' /\ logs' \subseteq logs \cup {ethBlock'}
        /\ UNCHANGED <<cursor, ranges, service>>
    BY <1>1 DEF mine
  <2>2. ChainAndCursor'
    BY <2>1 DEF IInv, ChainAndCursor, ServiceType, None
  <2>3. \A b \in logs' : b <= ethBlock => b \in logs
    BY <2>1 DEF IInv, ChainAndCursor
  <2>4. NothingSkipped'
    BY <2>1, <2>3 DEF IInv, ChainAndCursor, NothingSkipped, None
  <2>5. QueryPoint' /\ StorePoint'
    BY <2>1, <2>3 DEF IInv, ChainAndCursor, QueryPoint, StorePoint, ServiceType
  <2> QED BY <2>2, <2>4, <2>5 DEF IInv
<1>2. CASE get_block_number
  <2>1. /\ service' = [service EXCEPT !.pc = "cursor", !.current_block = ethBlock]
        /\ UNCHANGED <<ethBlock, logs, cursor, ranges>>
    BY <1>2 DEF get_block_number
  <2>2. service' \in ServiceType /\ service'.pc = "cursor"
        /\ service'.current_block = ethBlock
    <3>1. ethBlock \in Nat /\ service \in ServiceType
      BY DEF IInv, ChainAndCursor
    <3> QED BY <2>1, <3>1 DEF ServiceType
  <2>3. ChainAndCursor'
    BY <2>1, <2>2 DEF IInv, ChainAndCursor
  <2> QED BY <2>1, <2>2, <2>3 DEF IInv, NothingSkipped, QueryPoint, StorePoint
<1>3. CASE get_contract_cursor
  <2>0. PICK found \in {cursor, None} :
            LET from == IF found = None THEN CursorStartBlock ELSE found
            IN service' = IF service.current_block > from
                          THEN [service EXCEPT !.pc = "query", !.curr_start_block = from]
                          ELSE Waiting
    BY <1>3 DEF get_contract_cursor
  <2> DEFINE from == IF found = None THEN CursorStartBlock ELSE found
  <2>1. UNCHANGED <<ethBlock, logs, cursor, ranges>>
    BY <1>3 DEF get_contract_cursor
  <2>2. from \in Nat /\ \A b \in logs : b < from => b \in ranges
    BY DEF IInv, ChainAndCursor, NothingSkipped, None
  <2>3. CASE service.current_block > from
    <3>1. service' = [service EXCEPT !.pc = "query", !.curr_start_block = from]
      BY <2>0, <2>3
    <3> HIDE DEF from
    <3>2. ChainAndCursor'
      BY <2>1, <2>2, <3>1 DEF IInv, ChainAndCursor, ServiceType
    <3>3. QueryPoint' /\ StorePoint'
      BY <2>1, <2>2, <2>3, <3>1 DEF IInv, ChainAndCursor, ServiceType, QueryPoint,
                                    StorePoint
    <3> QED BY <2>1, <3>2, <3>3 DEF IInv, NothingSkipped
  <2>4. CASE ~ (service.current_block > from)
    <3>1. service' = Waiting
      BY <2>0, <2>4
    <3> QED BY <2>1, <3>1, WaitingType
            DEF IInv, ChainAndCursor, NothingSkipped, QueryPoint, StorePoint, Waiting
  <2> QED BY <2>3, <2>4
<1>4. CASE store_events
  <2>1. /\ service.pc = "query" /\ service.curr_start_block < service.current_block
        /\ service \in ServiceType
        /\ service' = [service EXCEPT !.pc = "store",
                          !.pending = get_logs(service.curr_start_block, batch_end_block),
                          !.curr_start_block = next_batch_start]
        /\ UNCHANGED <<ethBlock, logs, cursor, ranges>>
    BY <1>4 DEF store_events, IInv, ChainAndCursor
  <2>2. /\ next_batch_start = batch_end_block
        /\ batch_end_block \in Nat
        /\ batch_end_block <= service.current_block
    BY <2>1, BatchEnd DEF next_batch_start
  <2>3. get_logs(service.curr_start_block, batch_end_block) =
            {b \in logs : service.curr_start_block <= b /\ b <= batch_end_block}
    BY DEF get_logs
  <2> DEFINE batch == get_logs(service.curr_start_block, batch_end_block)
  <2> HIDE DEF batch
  <2>4. /\ service'.pc = "store" /\ service'.pending = batch
        /\ service'.curr_start_block = batch_end_block
        /\ service'.current_block = service.current_block
        /\ batch \subseteq Nat
        /\ service' \in ServiceType
    <3>1. batch \subseteq Nat
      <4>1. logs \subseteq Nat
        BY DEF IInv, ChainAndCursor
      <4>2. batch \subseteq logs
        BY <2>3 DEF batch
      <4> QED BY <4>1, <4>2
    <3>2. service' = [service EXCEPT !.pc = "store", !.pending = batch,
                                     !.curr_start_block = batch_end_block]
      BY <2>1, <2>2 DEF batch
    <3> QED BY <2>1, <2>2, <3>1, <3>2 DEF ServiceType
  <2>5. ChainAndCursor'
    BY <2>1, <2>4 DEF IInv, ChainAndCursor
  <2>6. StorePoint'
    <3> SUFFICES ASSUME NEW b \in logs, b <= batch_end_block
                 PROVE  b \in ranges \cup batch
      BY <2>1, <2>2, <2>4 DEF StorePoint
    <3>1. b \in Nat /\ service.curr_start_block \in Nat
      BY <2>1 DEF IInv, ChainAndCursor, ServiceType
    <3>2. CASE b < service.curr_start_block
      BY <3>2, <2>1 DEF IInv, QueryPoint
    <3>3. CASE service.curr_start_block <= b
      BY <3>3, <2>3 DEF batch
    <3> QED BY <3>1, <3>2, <3>3
  <2>7. QueryPoint' /\ NothingSkipped'
    BY <2>1, <2>4 DEF QueryPoint, IInv, NothingSkipped
  <2> QED BY <2>5, <2>6, <2>7 DEF IInv
<1>5. CASE add_data_commitment_range
  <2>1. PICK log :
            /\ ranges' = ranges \cup {log}
            /\ service' = [service EXCEPT !.pending = service.pending \ {log}]
            /\ UNCHANGED <<ethBlock, logs, cursor>>
    BY <1>5 DEF add_data_commitment_range
  <2>2. ChainAndCursor'
    BY <2>1 DEF IInv, ChainAndCursor, ServiceType
  <2>3. QueryPoint' /\ StorePoint' /\ NothingSkipped'
    BY <2>1 DEF IInv, ChainAndCursor, ServiceType, QueryPoint, StorePoint, NothingSkipped
  <2> QED BY <2>2, <2>3 DEF IInv
<1>6. CASE end_of_batch
  <2>1. /\ service.pc = "store" /\ service.pending = {}
        /\ service' = [service EXCEPT !.pc = "query"]
        /\ UNCHANGED <<ethBlock, logs, cursor, ranges>>
    BY <1>6 DEF end_of_batch
  <2>2. ChainAndCursor' /\ service'.pc = "query"
        /\ service'.curr_start_block = service.curr_start_block
        /\ service'.current_block = service.current_block
    BY <2>1 DEF IInv, ChainAndCursor, ServiceType
  <2>3. QueryPoint'
    BY <2>1, <2>2 DEF IInv, ChainAndCursor, ServiceType, QueryPoint, StorePoint
  <2> QED BY <2>1, <2>2, <2>3 DEF IInv, StorePoint, NothingSkipped
<1>7. CASE set_contract_cursor
  <2>1. /\ service.pc = "query"
        /\ service.curr_start_block >= service.current_block
        /\ cursor' = service.current_block
        /\ service' = Waiting
        /\ UNCHANGED <<ethBlock, logs, ranges>>
    BY <1>7 DEF set_contract_cursor
  <2>2. \A b \in logs : b <= service.current_block => b \in ranges
    BY <2>1 DEF IInv, ChainAndCursor, ServiceType, QueryPoint
  <2>3. NothingSkipped'
    BY <2>1, <2>2 DEF NothingSkipped
  <2>4. ChainAndCursor'
    BY <2>1, WaitingType DEF IInv, ChainAndCursor, ServiceType, Waiting
  <2> QED BY <2>1, <2>3, <2>4 DEF IInv, QueryPoint, StorePoint, Waiting
<1>8. CASE crash
  <2>1. service' = Waiting /\ UNCHANGED <<ethBlock, logs, cursor, ranges>>
    BY <1>8 DEF crash
  <2> QED BY <2>1, WaitingType
          DEF IInv, ChainAndCursor, NothingSkipped, QueryPoint, StorePoint, Waiting
<1>9. CASE UNCHANGED vars
  BY <1>9 DEF vars, IInv, ChainAndCursor, NothingSkipped, QueryPoint, StorePoint
<1> QED BY <1>1, <1>2, <1>3, <1>4, <1>5, <1>6, <1>7, <1>8, <1>9 DEF Next, ServiceStep

\* The cursor never runs ahead of the stored ranges, for a contract that
\* emits the event the service asks for: whichever batch a panic cut short,
\* the next start scans it again.
THEOREM CursorBehindRanges ==
    EmittedSignature = header_range_filter /\ Spec => []NothingSkipped
PROOF
<1> SUFFICES ASSUME EmittedSignature = header_range_filter
             PROVE  Spec => []NothingSkipped
  OBVIOUS
<1>1. Init => IInv
  BY EventsAssumption, WaitingType
     DEF Init, IInv, ChainAndCursor, NothingSkipped, QueryPoint, StorePoint, At,
         Waiting, None
<1>2. IInv /\ [Next]_vars => IInv'
  BY StepIInv
<1>3. IInv => NothingSkipped
  BY DEF IInv
<1> QED BY <1>1, <1>2, <1>3, PTL DEF Spec

\* Against a contract whose event has other argument types, such as the
\* five of IVectorX.sol, the service stores nothing at all: its filter
\* matches no event, while its cursor still advances.
THEOREM OtherEventNeverStored ==
    EmittedSignature # header_range_filter /\ Spec => [](ranges = {})
PROOF
<1> DEFINE Blind == ranges = {} /\ service \in ServiceType /\ service.pending = {}
                    /\ ethBlock \in Nat /\ cursor \in Nat \cup {None}
<1> SUFFICES ASSUME EmittedSignature # header_range_filter
             PROVE  Spec => [](ranges = {})
  OBVIOUS
<1>1. Init => Blind
  BY EventsAssumption, WaitingType DEF Init, Waiting
<1>2. ASSUME Blind, [Next]_vars PROVE Blind'
  <2> USE <1>2 DEF At, Outside
  <2>1. CASE mine \/ UNCHANGED vars
    BY <2>1 DEF mine, vars
  <2>2. CASE get_block_number
    <3>1. /\ service' = [service EXCEPT !.pc = "cursor", !.current_block = ethBlock]
          /\ UNCHANGED <<ethBlock, cursor, ranges>>
      BY <2>2 DEF get_block_number
    <3> QED BY <3>1 DEF ServiceType
  <2>6. CASE end_of_batch
    BY <2>6 DEF end_of_batch, ServiceType
  <2>7. CASE get_contract_cursor
    <3>0. PICK found \in {cursor, None} :
              LET from == IF found = None THEN CursorStartBlock ELSE found
              IN service' = IF service.current_block > from
                            THEN [service EXCEPT !.pc = "query", !.curr_start_block = from]
                            ELSE Waiting
      BY <2>7 DEF get_contract_cursor
    <3> DEFINE from == IF found = None THEN CursorStartBlock ELSE found
    <3>1. from \in Nat
      BY EventsAssumption
    <3>2. UNCHANGED <<ethBlock, cursor, ranges>>
      BY <2>7 DEF get_contract_cursor
    <3>3. \/ service' = Waiting
          \/ service' = [service EXCEPT !.pc = "query", !.curr_start_block = from]
      BY <3>0
    <3> HIDE DEF from
    <3>4. service' \in ServiceType /\ service'.pending = {}
      <4>1. CASE service' = Waiting
        BY <4>1, WaitingType DEF Waiting
      <4>2. CASE service' = [service EXCEPT !.pc = "query", !.curr_start_block = from]
        BY <4>2, <3>1 DEF ServiceType
      <4> QED BY <3>3, <4>1, <4>2
    <3> QED BY <3>2, <3>4
  <2>3. CASE store_events
    <3>1. get_logs(service.curr_start_block, batch_end_block) = {}
      BY DEF get_logs
    <3>2. next_batch_start \in Nat
      BY <2>3, BatchEnd DEF store_events, next_batch_start
    <3>3. /\ service' = [service EXCEPT !.pc = "store", !.pending = {},
                                        !.curr_start_block = next_batch_start]
          /\ UNCHANGED <<ethBlock, cursor, ranges>>
      BY <2>3, <3>1 DEF store_events
    <3> QED BY <3>2, <3>3 DEF ServiceType
  <2>4. CASE add_data_commitment_range
    BY <2>4 DEF add_data_commitment_range
  <2>5. CASE set_contract_cursor \/ crash
    BY <2>5, WaitingType DEF set_contract_cursor, crash, ServiceType, Waiting
  <2> QED BY <2>1, <2>2, <2>3, <2>4, <2>5, <2>6, <2>7 DEF Next, ServiceStep
<1>3. Blind => ranges = {}
  OBVIOUS
<1> HIDE DEF Blind
<1> QED BY <1>1, <1>2, <1>3, PTL DEF Spec
=============================================================================
