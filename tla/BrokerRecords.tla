----------------------------- MODULE BrokerRecords ----------------------------
(***************************************************************************)
(* The rows of the orders table against the orders of the day at Zerodha.   *)
(* src/live_trading/zerodha_sync.py compares them three times a day, one    *)
(* order after another by a snapshot, and gives those it does not know a    *)
(* row; meanwhile OrderManager places orders and follows those whose ids it *)
(* has, and the owner of the account trades by hand.                        *)
(***************************************************************************)
EXTENDS Integers, Sequences, FiniteSets

CONSTANTS
    Shapes,      \* symbol, side and quantity of an order
    Ended,       \* how orders end: "COMPLETE", "CANCELLED"
    MaxPlaced,   \* bound: orders of the program
    MaxManual,   \* bound: orders placed by hand, or by a GTT
    MaxRuns,     \* bound: runs of the sync
    MaxMishaps   \* bound: timeouts, crashes and failures of the database

ASSUME RecordsConstants ==
    /\ Ended \cap {"OPEN", "PENDING", "PENDING_VERIFICATION", "FAILED"} = {}
    /\ MaxPlaced \in Nat /\ MaxManual \in Nat /\ MaxRuns \in Nat /\ MaxMishaps \in Nat

VARIABLES
    broker,      \* Zerodha's orders; row is the one an order was placed for, or 0
    rows,        \* the table; id is the order's number at Zerodha, or 0
    flight,      \* rows whose place_order() has not ended
    run,         \* the sync: "idle", "look", "search", "write" or "done"
    snapshot,    \* the statuses it has fetched
    next,        \* the order it is at
    target,      \* the row it is about to write, 0 for a new one
    failed,      \* the orders it could not reconcile
    overlapped,  \* history: a run met an order whose placement was not settled
    runs, mishaps

syncVars == <<run, snapshot, next, target, failed, runs>>
recordsVars == <<broker, rows, flight, syncVars, overlapped, mishaps>>

Rows == DOMAIN rows
Orders == DOMAIN broker
OrderOf(r) == {o \in Orders : broker[o].row = r}
HasId(o) == {r \in Rows : rows[r].id = o}
Stuck(shape) == {r \in Rows : rows[r] = [shape |-> shape, id |-> 0,
                                         status |-> "PENDING", by |-> "app"]}
First(S) == CHOOSE r \in S : \A q \in S : r <= q
Placed == {r \in Rows : rows[r].by = "app"}
Manual == {o \in Orders : broker[o].row = 0}
Inserted == {r \in Rows : rows[r].by = "sync"}

\* The placements that have not come to an end.
Unsettled == flight \cup {r \in Rows : rows[r].status = "PENDING_VERIFICATION"}

RowStatuses ==
    {"PENDING", "PENDING_VERIFICATION", "FAILED", "OPEN", "COMPLETED"} \cup Ended

RecordsTypeOK ==
    /\ broker \in Seq([shape : Shapes, row : Nat, status : {"OPEN"} \cup Ended])
    /\ rows \in Seq([shape : Shapes, id : Nat, status : RowStatuses,
                     by : {"app", "sync"}])
    /\ \A o \in Orders : broker[o].row \in {0} \cup Rows
    /\ \A r \in Rows : rows[r].id \in {0} \cup Orders
    /\ flight \subseteq Rows /\ run \in {"idle", "look", "search", "write", "done"}
    /\ snapshot \in Seq({"OPEN"} \cup Ended) /\ DOMAIN snapshot \subseteq Orders
    /\ target \in {0} \cup Rows
    /\ next \in 1 .. Len(snapshot) + 1 /\ failed \subseteq DOMAIN snapshot
    /\ overlapped \in BOOLEAN /\ runs \in 0 .. MaxRuns /\ mishaps \in 0 .. MaxMishaps

RecordsInit ==
    /\ broker = <<>> /\ rows = <<>> /\ flight = {}
    /\ run = "idle" /\ snapshot = <<>> /\ next = 1 /\ target = 0 /\ failed = {}
    /\ overlapped = FALSE /\ runs = 0 /\ mishaps = 0

Mishap == mishaps < MaxMishaps /\ mishaps' = mishaps + 1

Running == run \notin {"idle", "done"}

-----------------------------------------------------------------------------
(* Zerodha.                                                                *)

ByHand(shape) ==
    /\ Cardinality(Manual) < MaxManual
    /\ broker' = Append(broker, [shape |-> shape, status |-> "OPEN", row |-> 0])
    /\ UNCHANGED <<rows, flight, syncVars, overlapped, mishaps>>

\* An order is filled or cancelled.
Ends(o, status) ==
    /\ broker[o].status = "OPEN" /\ broker' = [broker EXCEPT ![o].status = status]
    /\ UNCHANGED <<rows, flight, syncVars, overlapped, mishaps>>

-----------------------------------------------------------------------------
(* OrderManager.                                                           *)

SetRow(r, id, status) ==
    rows' = [rows EXCEPT ![r].id = id, ![r].status = status]

\* place_order() writes the row, then calls the broker.
Place(shape) ==
    /\ Cardinality(Placed) < MaxPlaced
    /\ rows' = Append(rows, [shape |-> shape, id |-> 0, status |-> "PENDING",
                             by |-> "app"])
    /\ flight' = flight \cup {Len(rows) + 1}
    /\ overlapped' = (overlapped \/ Running)
    /\ UNCHANGED <<broker, syncVars, mishaps>>

Accepted(r) ==
    /\ r \in flight /\ OrderOf(r) = {}
    /\ broker' = Append(broker, [shape |-> rows[r].shape, status |-> "OPEN", row |-> r])
    /\ UNCHANGED <<rows, flight, syncVars, overlapped, mishaps>>

\* place_order() ends: with the order's id, with an exception, in doubt, or without
\* having written the row.
Placement(r) ==
    /\ r \in flight /\ flight' = flight \ {r}
    /\ \/ \E o \in OrderOf(r) : SetRow(r, o, "OPEN") /\ UNCHANGED mishaps
       \/ /\ OrderOf(r) = {} /\ SetRow(r, rows[r].id, "FAILED") /\ UNCHANGED mishaps
       \/ SetRow(r, rows[r].id, "PENDING_VERIFICATION") /\ Mishap
       \/ UNCHANGED rows /\ Mishap
    /\ UNCHANGED <<broker, syncVars, overlapped>>

\* _retry_pending_verification_orders()
Verify(r) ==
    /\ rows[r].status = "PENDING_VERIFICATION"
    /\ IF OrderOf(r) = {} THEN SetRow(r, rows[r].id, "FAILED")
       ELSE \E o \in OrderOf(r) : SetRow(r, o, "OPEN")
    /\ UNCHANGED <<broker, flight, syncVars, overlapped, mishaps>>

\* _map_broker_status()
MapBrokerStatus(status) == IF status = "COMPLETE" THEN "COMPLETED" ELSE status

\* sync_orders(), of the orders that are open in the table.
Follow(r) ==
    /\ rows[r].status = "OPEN" /\ rows[r].id # 0
    /\ SetRow(r, rows[r].id, MapBrokerStatus(broker[rows[r].id].status))
    /\ UNCHANGED <<broker, flight, syncVars, overlapped, mishaps>>

-----------------------------------------------------------------------------
(* The sync.                                                               *)

\* _map_status()
MapStatus(status) == IF status = "COMPLETE" THEN "COMPLETED" ELSE status

\* kite.orders()
Fetch ==
    /\ ~Running /\ runs < MaxRuns
    /\ run' = "look" /\ runs' = runs + 1
    /\ snapshot' = [o \in Orders |-> broker[o].status]
    /\ next' = 1 /\ target' = 0 /\ failed' = {}
    /\ overlapped' = (overlapped \/ Unsettled # {})
    /\ UNCHANGED <<broker, rows, flight, mishaps>>

Current == MapStatus(snapshot[next])

\* The next order is looked up by its id.
Look ==
    /\ run = "look" /\ next <= Len(snapshot)
    /\ LET known == HasId(next) IN
       /\ target' = IF known = {} THEN 0 ELSE First(known)
       /\ IF known = {} THEN run' = "search" /\ UNCHANGED next
          ELSE IF rows[First(known)].status # Current
          THEN run' = "write" /\ UNCHANGED next
          ELSE run' = "look" /\ next' = next + 1
    /\ UNCHANGED <<broker, rows, flight, snapshot, failed, overlapped, runs, mishaps>>

\* Mutant: as it was before 2026-09-25, no row waits for an order.
SearchNone ==
    /\ run = "search" /\ run' = "write"
    /\ UNCHANGED <<broker, rows, flight, snapshot, next, target, failed, overlapped,
                   runs, mishaps>>

\* One that is not known may belong to a row that place_order() could not finish.
Search ==
    /\ run = "search" /\ run' = "write"
    /\ LET stuck == Stuck(broker[next].shape) IN
       target' = IF stuck = {} THEN 0 ELSE First(stuck)
    /\ UNCHANGED <<broker, rows, flight, snapshot, next, failed, overlapped, runs,
                   mishaps>>

\* The row is written, or a new one created.
Write ==
    /\ run = "write" /\ run' = "look" /\ next' = next + 1
    /\ IF target = 0
       THEN rows' = Append(rows, [shape |-> broker[next].shape, id |-> next,
                                  status |-> Current, by |-> "sync"])
       ELSE SetRow(target, next, Current)
    /\ UNCHANGED <<broker, flight, snapshot, target, failed, overlapped, runs, mishaps>>

\* An exception passes over the order.
Fails ==
    /\ Running /\ next <= Len(snapshot) /\ Mishap
    /\ failed' = failed \cup {next} /\ next' = next + 1 /\ run' = "look"
    /\ UNCHANGED <<broker, rows, flight, snapshot, target, overlapped, runs>>

Finish ==
    /\ run = "look" /\ next > Len(snapshot) /\ run' = "done"
    /\ UNCHANGED <<broker, rows, flight, snapshot, next, target, failed, overlapped,
                   runs, mishaps>>

Sync == Fetch \/ Look \/ Search \/ Write \/ Fails \/ Finish

\* Bound: a behaviour is followed until a run meets an unsettled placement.
\* Nothing is claimed any more once a run has met a placement that was not settled: the
\* behaviour ends there.
RecordsNext ==
    /\ ~overlapped
    /\ \/ \E shape \in Shapes : ByHand(shape) \/ Place(shape)
       \/ \E o \in Orders, status \in Ended : Ends(o, status)
       \/ \E r \in Rows : Accepted(r) \/ Placement(r) \/ Verify(r) \/ Follow(r)
       \/ Sync

RecordsSpec == RecordsInit /\ [][RecordsNext]_recordsVars

-----------------------------------------------------------------------------
\* A run that met no unsettled placement leaves every order that it could reconcile in
\* one row, whatever the others did (sync_orders_from_zerodha()).
AccountedOnce ==
    run = "done" /\ ~overlapped =>
        \A o \in DOMAIN snapshot \ failed : Cardinality(HasId(o)) = 1

\* It has inserted no more rows than orders were placed outside the program: those of
\* the program are given back to the rows that wait for them (comment at the search).
InsertedAreManual == ~overlapped => Cardinality(Inserted) <= Cardinality(Manual)

\* A row that sync_orders() does not look at any more says what became of its order,
\* though a run may have written a status that was out of date (_map_status()).
RowsAreFollowed ==
    ~overlapped =>
        \A r \in Rows :
            rows[r].id = 0 \/ rows[r].status \in
                {"OPEN", MapBrokerStatus(broker[rows[r].id].status)}

\* What a run has looked at, the rows say as the broker does.
RecordsMatch == AccountedOnce /\ InsertedAreManual /\ RowsAreFollowed
=============================================================================
