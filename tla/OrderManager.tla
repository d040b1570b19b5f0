---------------------------- MODULE OrderManager ----------------------------
(***************************************************************************)
(* The order lifecycle of src/orders/order_manager.py: place_order(),      *)
(* expire_stale_orders() with its retry, sync_orders(), the manual         *)
(* cancel_order(), and the broker they talk to.                            *)
(*                                                                         *)
(* Everything runs on one asyncio loop, so a coroutine is interrupted only *)
(* at an await.  Each coroutine is a program counter here, and each action *)
(* is the code between two awaits that matter: one read or write of the    *)
(* orders table, or one broker call, with the synchronous code around it.  *)
(* An audit write is an await too: what follows it is an action of its own *)
(* where another coroutine can tell the difference.                        *)
(*                                                                         *)
(* Capital is counted in lots at a unit price.  A row has a                *)
(* broker_order_id exactly when it has been OPEN, so that column is not    *)
(* kept.                                                                   *)
(***************************************************************************)
EXTENDS Integers, FiniteSets

CONSTANTS
    Symbols,               \* option contracts
    Strategies,            \* strategy names
    MultiLegStrategies,    \* those of _MULTI_LEG_STRATEGIES
    NoStrategy,            \* strategy_name=None
    Requests,              \* of each caller, the place_order() arguments it uses
    NoRequest,             \* a value that is none
    Callers,               \* coroutines that place orders, one call at a time
    SignalCycle,           \* the caller that also runs expire_stale_orders()
    OrderSync,             \* the scheduler's 30-second sync job
    Admins,                \* concurrent DELETE /orders/{id} handlers
    MaxRequests,           \* bound: orders placed by callers (not retries)
    Budget,                \* lots a strategy may deploy
    Env                    \* what the environment may do, a subset of EnvEvents

EnvEvents == { "orders_age",           \* an order rests longer than the expiry
               "place_times_out",      \* wait_for() gives up on place_order()
               "late_landing",         \* ... and the worker thread lands later
               "response_lost",        \* place_order() raises after landing
               "get_orders_fails",     \* broker.get_orders() raises
               "cancel_fails",         \* broker.cancel_order() raises or hangs
               "broker_rejects",       \* a resting order is rejected (RMS)
               "broker_cancels",       \* a resting order is cancelled elsewhere
               "db_write_fails",       \* the OPEN write fails three times
               "context_lost",         \* no ORDER_RECEIVED audit row is found
               "risk_rejects",         \* a check other than the budget fails
               "crash" }               \* the process dies and restarts

Request == [symbol : Symbols, side : {"BUY", "SELL"}, quantity : Nat \ {0},
            strategy : Strategies \cup {NoStrategy},
            spreadLeg : BOOLEAN, exit : BOOLEAN]

NoLock == "no lock"

ASSUME ConstantsOK ==
    /\ SignalCycle \in Callers
    /\ OrderSync \notin Callers
    /\ NoLock \notin Callers \cup {OrderSync}
    /\ Requests \in [Callers -> SUBSET Request]
    /\ NoRequest \notin Request
    /\ NoStrategy \notin Strategies
    /\ MultiLegStrategies \subseteq Strategies
    /\ MaxRequests \in Nat
    /\ Budget \in Nat
    /\ Env \subseteq EnvEvents

Ids == 1 .. 2 * MaxRequests      \* at most one retry per order
NoOrder == 0
Syncers == {OrderSync, SignalCycle}

Terminal == {"COMPLETED", "CANCELLED", "REJECTED", "FAILED", "EXPIRED",
             "REJECTED_BY_RISK"}
Statuses == Terminal \cup {"absent", "PENDING", "OPEN", "PENDING_VERIFICATION"}
BrokerStatuses == {"none", "open", "complete", "cancelled", "rejected"}

VARIABLES
    \* the orders table, with the audit row written beside each order
    status,       \* order_status
    req,          \* the arguments recorded for the order
    recorded,     \* filled_quantity
    origin,       \* is_retry, as the id of the order retried (NoOrder if none)
    aged,         \* orders created more than ORDER_EXPIRY_MINUTES ago
    \* the broker
    wire,         \* the place call of an order: "idle", "sent" or "landed"
    live,         \* the broker's status of an order
    filled,       \* lots the broker has filled
    \* RiskManager._strategy_deployed, and what each order added to and took
    \* from it (history, read only by the properties)
    deployed, reserved, released,
    \* place_order(), one call per caller
    pc, arg, argOrigin, cur,
    \* sync_orders() and its lock
    lock, syncPc, todo, reply, syncCur,
    \* expire_stale_orders()
    expPc, expTodo, expCur, expFilled,
    \* cancel_order()
    admPc, admCur, admFilled

tableVars  == <<status, req, recorded, origin, aged>>
brokerVars == <<wire, live, filled>>
riskVars   == <<deployed, reserved, released>>
placeVars  == <<pc, arg, argOrigin, cur>>
syncVars   == <<lock, syncPc, todo, reply, syncCur>>
expireVars == <<expPc, expTodo, expCur, expFilled>>
adminVars  == <<admPc, admCur, admFilled>>
vars == <<tableVars, brokerVars, riskVars, placeVars, syncVars, expireVars,
          adminVars>>

NoReply == [o \in Ids |-> [status |-> "none", filled |-> 0]]

Rows == {o \in Ids : status[o] # "absent"}

TableOK ==
    /\ status \in [Ids -> Statuses]
    /\ req \in [Ids -> Request \cup {NoRequest}]
    /\ \A o \in Rows : req[o] \in Request
    /\ recorded \in [Ids -> Nat]
    /\ origin \in [Ids -> Ids \cup {NoOrder}]
    /\ aged \subseteq Ids

BrokerOK ==
    /\ wire \in [Ids -> {"idle", "sent", "landed"}]
    /\ live \in [Ids -> BrokerStatuses]
    /\ filled \in [Ids -> Nat]

RiskOK ==
    /\ deployed \in [Strategies -> Nat]
    /\ reserved \in [Ids -> Nat]
    /\ released \in [Ids -> Nat]

Working == {"broker", "persist", "reserve", "verify"}

PlaceOK ==
    /\ pc \in [Callers -> {"idle", "check", "create"} \cup Working]
    /\ arg \in [Callers -> Request \cup {NoRequest}]
    /\ argOrigin \in [Callers -> Ids \cup {NoOrder}]
    /\ cur \in [Callers -> Ids \cup {NoOrder}]
    /\ \A c \in Callers : /\ pc[c] \in {"check", "create"} => arg[c] \in Request
                          /\ pc[c] \in Working => cur[c] \in Rows

SyncOK ==
    /\ lock \in Syncers \cup {NoLock}
    /\ syncPc \in [Syncers -> {"idle", "want", "fetch", "apply", "release"}]
    /\ todo \in [Syncers -> SUBSET Ids]
    /\ reply \in [Syncers -> [Ids -> [status : BrokerStatuses, filled : Nat]]]
    /\ syncCur \in [Syncers -> Ids \cup {NoOrder}]
    /\ \A s \in Syncers : /\ todo[s] \subseteq Rows
                          /\ syncPc[s] = "release" => syncCur[s] \in Rows

ExpireOK ==
    /\ expPc \in {"idle", "verify", "reserve", "scan", "cancel", "skip",
                  "expire", "release"}
    /\ expTodo \subseteq Rows
    /\ expCur \in Ids \cup {NoOrder}
    /\ expPc \in {"reserve", "skip", "expire", "release"} => expCur \in Rows
    /\ expFilled \in Nat

AdminOK ==
    /\ admPc \in [Admins -> {"idle", "cancel", "write", "release"}]
    /\ admCur \in [Admins -> Ids \cup {NoOrder}]
    /\ admFilled \in [Admins -> Nat]
    /\ \A a \in Admins : admPc[a] # "idle" => admCur[a] \in Rows

TypeOK == TableOK /\ BrokerOK /\ RiskOK /\ PlaceOK /\ SyncOK /\ ExpireOK
            /\ AdminOK

Init ==
    /\ status = [o \in Ids |-> "absent"]
    /\ req = [o \in Ids |-> NoRequest]
    /\ recorded = [o \in Ids |-> 0]
    /\ origin = [o \in Ids |-> NoOrder]
    /\ aged = {}
    /\ wire = [o \in Ids |-> "idle"]
    /\ live = [o \in Ids |-> "none"]
    /\ filled = [o \in Ids |-> 0]
    /\ deployed = [s \in Strategies |-> 0]
    /\ reserved = [o \in Ids |-> 0]
    /\ released = [o \in Ids |-> 0]
    /\ pc = [c \in Callers |-> "idle"]
    /\ arg = [c \in Callers |-> NoRequest]
    /\ argOrigin = [c \in Callers |-> NoOrder]
    /\ cur = [c \in Callers |-> NoOrder]
    /\ lock = NoLock
    /\ syncPc = [s \in Syncers |-> "idle"]
    /\ todo = [s \in Syncers |-> {}]
    /\ reply = [s \in Syncers |-> NoReply]
    /\ syncCur = [s \in Syncers |-> NoOrder]
    /\ expPc = "idle"
    /\ expTodo = {}
    /\ expCur = NoOrder
    /\ expFilled = 0
    /\ admPc = [a \in Admins |-> "idle"]
    /\ admCur = [a \in Admins |-> NoOrder]
    /\ admFilled = [a \in Admins |-> 0]

-----------------------------------------------------------------------------
(* The orders table, the audit context and the deployed capital.           *)

May(event) == event \in Env

OrderMax(a, b) == IF a >= b THEN a ELSE b

SetStatus(o, s) == status' = [status EXCEPT ![o] = s]

WithStatus(s) == {o \in Ids : status[o] = s}

\* What _get_retry_context() tells of an order whose audit row is found.
ContextFound == IF May("context_lost") THEN BOOLEAN ELSE {TRUE}

\* BUY, with a strategy, and not a spread leg: the one kind of order whose
\* capital is tracked by this class (the engine tracks the structures').
TracksCapital(r) == r.side = "BUY" /\ r.strategy # NoStrategy /\ ~r.spreadLeg

AddDeployedCapital(o, n) ==
    /\ deployed' = [deployed EXCEPT ![req[o].strategy] = @ + n]
    /\ reserved' = [reserved EXCEPT ![o] = @ + n]
    /\ UNCHANGED released

ReleaseDeployedCapital(o, n) ==
    /\ deployed' = [deployed EXCEPT ![req[o].strategy] = OrderMax(0, @ - n)]
    /\ released' = [released EXCEPT ![o] = @ + n]
    /\ UNCHANGED reserved

AddIfTracked(o) ==
    IF TracksCapital(req[o])
    THEN AddDeployedCapital(o, req[o].quantity)
    ELSE UNCHANGED riskVars

\* fill is the filled_quantity of the row as the caller last read it.
ReleaseIfTracked(o, fill, found) ==
    IF found /\ TracksCapital(req[o])
    THEN ReleaseDeployedCapital(o, OrderMax(0, req[o].quantity - fill))
    ELSE UNCHANGED riskVars

\* Mutant: the broker's own spelling reaches the table.
MapBrokerStatusRaw(s) == IF s = "open" THEN "OPEN" ELSE s

MapBrokerStatus(s) ==
    CASE s = "complete"  -> "COMPLETED"
      [] s = "cancelled" -> "CANCELLED"
      [] s = "rejected"  -> "REJECTED"
      [] OTHER           -> "OPEN"

-----------------------------------------------------------------------------
(* place_order().  A call that is refused, rejected or done leaves its     *)
(* caller idle.                                                            *)

Goto(c, label) == pc' = [pc EXCEPT ![c] = label]

\* A caller starts a call; the bound counts orders and calls not yet written.
PlaceOrder(c, r) ==
    /\ pc[c] = "idle"
    /\ c = SignalCycle => expPc = "idle"
    /\ Cardinality({o \in Rows : origin[o] = NoOrder})
         + Cardinality({d \in Callers : pc[d] \in {"check", "create"}
                                          /\ argOrigin[d] = NoOrder})
         < MaxRequests
    /\ Goto(c, "check")
    /\ arg' = [arg EXCEPT ![c] = r]
    /\ argOrigin' = [argOrigin EXCEPT ![c] = NoOrder]
    /\ UNCHANGED <<cur, tableVars, brokerVars, riskVars, syncVars, expireVars,
                   adminVars>>

\* Step 0: a new order is refused while one rests OPEN on the same contract.
\* Mutant: only filled orders are looked at, as the callers' guards do.
RestingOnFilled(symbol) ==
    {o \in Ids : status[o] = "COMPLETED" /\ req[o].symbol = symbol}

RestingOn(symbol) == {o \in Ids : status[o] = "OPEN" /\ req[o].symbol = symbol}

PlaceCheck(c) ==
    /\ pc[c] = "check"
    /\ Goto(c, IF arg[c].exit \/ RestingOn(arg[c].symbol) = {}
               THEN "create" ELSE "idle")
    /\ UNCHANGED <<arg, argOrigin, cur, tableVars, brokerVars, riskVars,
                   syncVars, expireVars, adminVars>>

\* validate_trade(), as far as this module's state decides it.
OverBudget(r) ==
    TracksCapital(r) /\ deployed[r.strategy] + r.quantity > Budget

RiskRejects(r) == ~r.exit /\ (OverBudget(r) \/ May("risk_rejects"))
RiskAccepts(r) == r.exit \/ ~OverBudget(r)

\* Steps 1 and 2: the row, its audit entry, and the risk decision.
CreateRow(c, o, s) ==
    /\ pc[c] = "create"
    /\ status[o] = "absent"
    /\ \A p \in Ids : p < o => status[p] # "absent"
    /\ SetStatus(o, s)
    /\ req' = [req EXCEPT ![o] = arg[c]]
    /\ origin' = [origin EXCEPT ![o] = argOrigin[c]]
    /\ UNCHANGED <<recorded, aged, live, filled, arg, argOrigin, riskVars,
                   syncVars, expireVars, adminVars>>

PlaceRejectedByRisk(c) ==
    \E o \in Ids :
        /\ CreateRow(c, o, "REJECTED_BY_RISK")
        /\ RiskRejects(arg[c])
        /\ Goto(c, "idle")
        /\ UNCHANGED <<cur, wire>>

\* ... and step 3 begins: the call is handed to a worker thread.
PlaceRoute(c) ==
    \E o \in Ids :
        /\ CreateRow(c, o, "PENDING")
        /\ RiskAccepts(arg[c])
        /\ Goto(c, "broker")
        /\ cur' = [cur EXCEPT ![c] = o]
        /\ wire' = [wire EXCEPT ![o] = "sent"]

\* The broker call raises: the order is FAILED.  The last attempt's answer
\* may be what was lost.
PlaceRefused(c) ==
    /\ pc[c] = "broker"
    /\ wire[cur[c]] = "sent" \/ May("response_lost")
    /\ wire' = [wire EXCEPT ![cur[c]] = "idle"]
    /\ SetStatus(cur[c], "FAILED")
    /\ Goto(c, "idle")
    /\ UNCHANGED <<req, recorded, origin, aged, live, filled, arg, argOrigin,
                   cur, riskVars, syncVars, expireVars, adminVars>>

PlaceReturned(c) ==
    /\ pc[c] = "broker"
    /\ wire[cur[c]] = "landed"
    /\ wire' = [wire EXCEPT ![cur[c]] = "idle"]
    /\ Goto(c, "persist")
    /\ UNCHANGED <<live, filled, arg, argOrigin, cur, tableVars, riskVars,
                   syncVars, expireVars, adminVars>>

\* The immediate fill reconciliation, then the OPEN write.
PlacePersist(c) ==
    /\ pc[c] = "persist"
    /\ SetStatus(cur[c], "OPEN")
    /\ \/ recorded' = [recorded EXCEPT ![cur[c]] = filled[cur[c]]]
       \/ May("get_orders_fails") /\ UNCHANGED recorded
    /\ Goto(c, "reserve")
    /\ UNCHANGED <<req, origin, aged, arg, argOrigin, cur, brokerVars, riskVars,
                   syncVars, expireVars, adminVars>>

\* The OPEN write failed three times: the row stays PENDING, and the call
\* returns before the capital is added.
PlacePersistFails(c) ==
    /\ pc[c] = "persist"
    /\ May("db_write_fails")
    /\ Goto(c, "idle")
    /\ UNCHANGED <<arg, argOrigin, cur, tableVars, brokerVars, riskVars,
                   syncVars, expireVars, adminVars>>

\* After the ORDER_ROUTED (or ORDER_TIMEOUT_RECONCILED) audit write.
PlaceReserve(c) ==
    /\ pc[c] = "reserve"
    /\ AddIfTracked(cur[c])
    /\ Goto(c, "idle")
    /\ UNCHANGED <<arg, argOrigin, cur, tableVars, brokerVars, syncVars,
                   expireVars, adminVars>>

\* wait_for() gives up.  A request that had not landed is lost, unless the
\* worker thread, which cannot be stopped, still delivers it later.
PlaceTimesOut(c) ==
    /\ pc[c] = "broker"
    /\ May("place_times_out")
    /\ \/ wire' = [wire EXCEPT ![cur[c]] = "idle"]
       \/ May("late_landing") /\ wire[cur[c]] = "sent" /\ UNCHANGED wire
    /\ Goto(c, "verify")
    /\ UNCHANGED <<live, filled, arg, argOrigin, cur, tableVars, riskVars,
                   syncVars, expireVars, adminVars>>

\* _reconcile_after_timeout(): is the tag among the broker's orders?
AtBroker(o) == live[o] \in {"open", "complete"}

\* Mutant: a check that could not be made counts as "not there".
PlaceVerifyGuesses(c) ==
    /\ pc[c] = "verify"
    /\ \/ /\ AtBroker(cur[c])
          /\ SetStatus(cur[c], "OPEN")
          /\ Goto(c, "reserve")
       \/ /\ ~AtBroker(cur[c]) \/ May("get_orders_fails")
          /\ SetStatus(cur[c], "FAILED")
          /\ Goto(c, "idle")
    /\ UNCHANGED <<req, recorded, origin, aged, arg, argOrigin, cur, brokerVars,
                   riskVars, syncVars, expireVars, adminVars>>

PlaceVerify(c) ==
    /\ pc[c] = "verify"
    /\ \/ /\ AtBroker(cur[c])
          /\ SetStatus(cur[c], "OPEN")
          /\ Goto(c, "reserve")
       \/ /\ ~AtBroker(cur[c])
          /\ SetStatus(cur[c], "FAILED")
          /\ Goto(c, "idle")
       \/ /\ May("get_orders_fails")
          /\ SetStatus(cur[c], "PENDING_VERIFICATION")
          /\ Goto(c, "idle")
    /\ UNCHANGED <<req, recorded, origin, aged, arg, argOrigin, cur, brokerVars,
                   riskVars, syncVars, expireVars, adminVars>>

-----------------------------------------------------------------------------
(* sync_orders(), run by the scheduler's job and by the signal cycle.      *)

SyncGoto(s, label) == syncPc' = [syncPc EXCEPT ![s] = label]

WantsSync(s) == syncPc[s] = (IF s = OrderSync THEN "idle" ELSE "want")

\* The signal cycle's own sync finds nothing OPEN.
SyncNothingOpen(s) ==
    /\ syncPc[s] = "want"
    /\ lock = NoLock
    /\ WithStatus("OPEN") = {}
    /\ SyncGoto(s, "idle")
    /\ UNCHANGED <<lock, todo, reply, syncCur, tableVars, brokerVars, riskVars,
                   placeVars, expireVars, adminVars>>

\* Mutant: no lock.
SyncSnapshotUnlocked(s) ==
    /\ WantsSync(s)
    /\ WithStatus("OPEN") # {}
    /\ todo' = [todo EXCEPT ![s] = WithStatus("OPEN")]
    /\ SyncGoto(s, "fetch")
    /\ UNCHANGED <<lock, reply, syncCur, tableVars, brokerVars, riskVars,
                   placeVars, expireVars, adminVars>>

SyncSnapshot(s) ==
    /\ WantsSync(s)
    /\ lock = NoLock
    /\ WithStatus("OPEN") # {}
    /\ lock' = s
    /\ todo' = [todo EXCEPT ![s] = WithStatus("OPEN")]
    /\ SyncGoto(s, "fetch")
    /\ UNCHANGED <<reply, syncCur, tableVars, brokerVars, riskVars, placeVars,
                   expireVars, adminVars>>

SyncFetch(s) ==
    /\ syncPc[s] = "fetch"
    /\ reply' = [reply EXCEPT ![s] = [o \in Ids |->
           IF o \in todo[s] THEN [status |-> live[o], filled |-> filled[o]]
                            ELSE NoReply[o]]]
    /\ SyncGoto(s, "apply")
    /\ UNCHANGED <<lock, todo, syncCur, tableVars, brokerVars, riskVars,
                   placeVars, expireVars, adminVars>>

\* Mutant: the lock is not released on this path.
SyncFetchFailsLocked(s) ==
    /\ syncPc[s] = "fetch"
    /\ May("get_orders_fails")
    /\ todo' = [todo EXCEPT ![s] = {}]
    /\ SyncGoto(s, "idle")
    /\ UNCHANGED <<lock, reply, syncCur, tableVars, brokerVars, riskVars,
                   placeVars, expireVars, adminVars>>

\* get_orders() raised: logged, and the sync ends without an error.
SyncFetchFails(s) ==
    /\ syncPc[s] = "fetch"
    /\ May("get_orders_fails")
    /\ lock' = NoLock
    /\ todo' = [todo EXCEPT ![s] = {}]
    /\ SyncGoto(s, "idle")
    /\ UNCHANGED <<reply, syncCur, tableVars, brokerVars, riskVars, placeVars,
                   expireVars, adminVars>>

\* Order o of the snapshot is dealt with; the last one frees the lock.
SyncDone(s, o) ==
    /\ todo' = [todo EXCEPT ![s] = @ \ {o}]
    /\ syncCur' = [syncCur EXCEPT ![s] = NoOrder]
    /\ IF todo[s] = {o}
       THEN /\ lock' = NoLock
            /\ SyncGoto(s, "idle")
            /\ reply' = [reply EXCEPT ![s] = NoReply]
       ELSE SyncGoto(s, "apply") /\ UNCHANGED <<lock, reply>>

\* The snapshot's order_status is OPEN, so a status is written only when the
\* broker's maps to another one; the fill is written every time.
SyncWrite(s, o) ==
    LET new == MapBrokerStatus(reply[s][o].status) IN
    /\ status' = IF new # "OPEN" THEN [status EXCEPT ![o] = new] ELSE status
    /\ recorded' = [recorded EXCEPT ![o] = reply[s][o].filled]
    /\ UNCHANGED <<req, origin, aged>>

SyncApply(s) ==
    \E o \in todo[s] :
        /\ syncPc[s] = "apply"
        /\ SyncWrite(s, o)
        /\ IF reply[s][o].status \in {"rejected", "cancelled"}
           THEN /\ SyncGoto(s, "release")
                /\ syncCur' = [syncCur EXCEPT ![s] = o]
                /\ UNCHANGED <<lock, todo, reply>>
           ELSE SyncDone(s, o)
        /\ UNCHANGED <<brokerVars, riskVars, placeVars, expireVars, adminVars>>

\* After two more awaits, the audit write and the context lookup.
SyncRelease(s) ==
    /\ syncPc[s] = "release"
    /\ \E found \in ContextFound :
           ReleaseIfTracked(syncCur[s], recorded[syncCur[s]], found)
    /\ SyncDone(s, syncCur[s])
    /\ UNCHANGED <<tableVars, brokerVars, placeVars, expireVars, adminVars>>

-----------------------------------------------------------------------------
(* expire_stale_orders(), run by the signal cycle between its placements.  *)

SignalIdle == pc[SignalCycle] = "idle" /\ syncPc[SignalCycle] = "idle"

WantSync == syncPc' = [syncPc EXCEPT ![SignalCycle] = "want"]

ExpireBegin ==
    /\ expPc = "idle"
    /\ SignalIdle
    /\ expTodo' = WithStatus("PENDING_VERIFICATION")
    /\ expPc' = "verify"
    /\ UNCHANGED <<expCur, expFilled, tableVars, brokerVars, riskVars,
                   placeVars, syncVars, adminVars>>

\* _retry_pending_verification_orders(), one order.
ExpireVerify(o) ==
    /\ expPc = "verify"
    /\ o \in expTodo
    /\ expTodo' = expTodo \ {o}
    /\ \/ /\ AtBroker(o)
          /\ SetStatus(o, "OPEN")
          /\ expPc' = "reserve"
          /\ expCur' = o
       \/ /\ ~AtBroker(o)
          /\ SetStatus(o, "FAILED")
          /\ UNCHANGED <<expPc, expCur>>
       \/ /\ May("get_orders_fails")
          /\ UNCHANGED <<status, expPc, expCur>>
    /\ UNCHANGED <<req, recorded, origin, aged, expFilled, brokerVars, riskVars,
                   placeVars, syncVars, adminVars>>

\* _add_capital_if_should_have_been_deployed()
ExpireVerifiedReserve ==
    /\ expPc = "reserve"
    /\ \E found \in ContextFound :
           IF found THEN AddIfTracked(expCur) ELSE UNCHANGED riskVars
    /\ expPc' = "verify"
    /\ expCur' = NoOrder
    /\ UNCHANGED <<expTodo, expFilled, tableVars, brokerVars, placeVars,
                   syncVars, adminVars>>

ExpireVerifyDone ==
    /\ expPc = "verify"
    /\ expTodo = {}
    /\ WantSync
    /\ expPc' = "scan"
    /\ UNCHANGED <<lock, todo, reply, syncCur, expTodo, expCur, expFilled,
                   tableVars, brokerVars, riskVars, placeVars, adminVars>>

ExpireScan ==
    /\ expPc = "scan"
    /\ SignalIdle
    /\ expTodo' = WithStatus("OPEN") \cap aged
    /\ expPc' = IF expTodo' = {} THEN "idle" ELSE "cancel"
    /\ UNCHANGED <<expCur, expFilled, tableVars, brokerVars, riskVars,
                   placeVars, syncVars, adminVars>>

\* Both outcomes of the cancel are followed by a sync.
ExpireCancelOk(o) ==
    /\ expPc = "cancel"
    /\ SignalIdle
    /\ o \in expTodo
    /\ live[o] = "open"
    /\ live' = [live EXCEPT ![o] = "cancelled"]
    /\ expCur' = o
    /\ expPc' = "expire"
    /\ WantSync
    /\ UNCHANGED <<wire, filled, lock, todo, reply, syncCur, expTodo, expFilled,
                   tableVars, riskVars, placeVars, adminVars>>

\* Nothing left to cancel, or the call failed with or without effect.
ExpireCancelFails(o) ==
    /\ expPc = "cancel"
    /\ SignalIdle
    /\ o \in expTodo
    /\ \/ live[o] # "open" /\ UNCHANGED live
       \/ May("cancel_fails") /\ UNCHANGED live
       \/ /\ May("cancel_fails")
          /\ live[o] = "open"
          /\ live' = [live EXCEPT ![o] = "cancelled"]
    /\ expCur' = o
    /\ expPc' = "skip"
    /\ WantSync
    /\ UNCHANGED <<wire, filled, lock, todo, reply, syncCur, expTodo, expFilled,
                   tableVars, riskVars, placeVars, adminVars>>

\* The loop moves on from order expCur.
ExpireNext ==
    /\ expTodo' = expTodo \ {expCur}
    /\ expPc' = IF expTodo' = {} THEN "idle" ELSE "cancel"
    /\ expCur' = NoOrder
    /\ expFilled' = 0

\* Mutant: an order whose cancel failed and is still OPEN is expired all the
\* same.
ExpireSkipExpires ==
    /\ expPc = "skip"
    /\ SignalIdle
    /\ IF status[expCur] = "OPEN"
       THEN expPc' = "expire" /\ UNCHANGED <<expTodo, expCur, expFilled>>
       ELSE ExpireNext
    /\ UNCHANGED <<tableVars, brokerVars, riskVars, placeVars, syncVars,
                   adminVars>>

\* Whatever the refreshed row says, the order is left for the next cycle.
ExpireSkip ==
    /\ expPc = "skip"
    /\ SignalIdle
    /\ ExpireNext
    /\ UNCHANGED <<tableVars, brokerVars, riskVars, placeVars, syncVars,
                   adminVars>>

\* The row is fetched again and marked EXPIRED; its status is not looked at.
ExpireMark ==
    /\ expPc = "expire"
    /\ SignalIdle
    /\ SetStatus(expCur, "EXPIRED")
    /\ expFilled' = recorded[expCur]
    /\ expPc' = "release"
    /\ UNCHANGED <<req, recorded, origin, aged, expTodo, expCur, brokerVars,
                   riskVars, placeVars, syncVars, adminVars>>

\* Mutant: the whole order is resubmitted, filled or not.
RemainingAll == req[expCur].quantity

Remaining == req[expCur].quantity - expFilled

RetryEligible ==
    /\ Remaining > 0
    /\ ~req[expCur].spreadLeg
    /\ origin[expCur] = NoOrder
    /\ req[expCur].exit \/ req[expCur].strategy \notin MultiLegStrategies

\* After the audit write and the context lookup: the capital of what is not
\* filled is released, and the rest resubmitted once.
ExpireRelease ==
    /\ expPc = "release"
    /\ \E found \in ContextFound :
        /\ IF found /\ Remaining > 0 /\ TracksCapital(req[expCur])
           THEN ReleaseDeployedCapital(expCur, Remaining)
           ELSE UNCHANGED riskVars
        /\ IF found /\ RetryEligible
           THEN /\ Goto(SignalCycle, "check")
                /\ arg' = [arg EXCEPT ![SignalCycle] =
                              [req[expCur] EXCEPT !.quantity = Remaining]]
                /\ argOrigin' = [argOrigin EXCEPT ![SignalCycle] = expCur]
           ELSE UNCHANGED <<pc, arg, argOrigin>>
    /\ ExpireNext
    /\ UNCHANGED <<cur, tableVars, brokerVars, syncVars, adminVars>>

-----------------------------------------------------------------------------
(* cancel_order(), from DELETE /orders/{id}.                               *)

\* Only a row that is OPEN has a broker_order_id and is not terminal.
CancelOrder(a, o) ==
    /\ admPc[a] = "idle"
    /\ status[o] = "OPEN"
    /\ admPc' = [admPc EXCEPT ![a] = "cancel"]
    /\ admCur' = [admCur EXCEPT ![a] = o]
    /\ UNCHANGED <<admFilled, tableVars, brokerVars, riskVars, placeVars, syncVars,
                   expireVars>>

CancelAtBroker(a) ==
    /\ admPc[a] = "cancel"
    /\ \/ /\ live[admCur[a]] = "open"
          /\ live' = [live EXCEPT ![admCur[a]] = "cancelled"]
          /\ admPc' = [admPc EXCEPT ![a] = "write"]
       \/ /\ \/ live[admCur[a]] # "open" /\ UNCHANGED live
             \/ May("cancel_fails") /\ UNCHANGED live
             \/ /\ May("cancel_fails")
                /\ live[admCur[a]] = "open"
                /\ live' = [live EXCEPT ![admCur[a]] = "cancelled"]
          /\ admPc' = [admPc EXCEPT ![a] = "idle"]
    /\ UNCHANGED <<wire, filled, admCur, admFilled, tableVars, riskVars,
                   placeVars, syncVars, expireVars>>

CancelWrite(a) ==
    /\ admPc[a] = "write"
    /\ SetStatus(admCur[a], "CANCELLED")
    /\ admPc' = [admPc EXCEPT ![a] = "release"]
    /\ admFilled' = [admFilled EXCEPT ![a] = recorded[admCur[a]]]
    /\ UNCHANGED <<req, recorded, origin, aged, admCur, brokerVars, riskVars,
                   placeVars, syncVars, expireVars>>

CancelRelease(a) ==
    /\ admPc[a] = "release"
    /\ \E found \in ContextFound :
           ReleaseIfTracked(admCur[a], admFilled[a], found)
    /\ admPc' = [admPc EXCEPT ![a] = "idle"]
    /\ admFilled' = [admFilled EXCEPT ![a] = 0]
    /\ UNCHANGED <<admCur, tableVars, brokerVars, placeVars, syncVars,
                   expireVars>>

-----------------------------------------------------------------------------
(* The broker and the clock.                                               *)

\* A place call reaches the broker: the order rests until it is filled.
BrokerLand(o) ==
    /\ wire[o] = "sent"
    /\ wire' = [wire EXCEPT ![o] = "landed"]
    /\ live' = [live EXCEPT ![o] = "open"]
    /\ UNCHANGED <<filled, tableVars, riskVars, placeVars, syncVars, expireVars,
                   adminVars>>

BrokerFill(o) ==
    /\ live[o] = "open"
    /\ filled' = [filled EXCEPT ![o] = @ + 1]
    /\ live' = IF filled[o] + 1 >= req[o].quantity
               THEN [live EXCEPT ![o] = "complete"] ELSE live
    /\ UNCHANGED <<wire, tableVars, riskVars, placeVars, syncVars, expireVars,
                   adminVars>>

BrokerCloses(o) ==
    /\ live[o] = "open"
    /\ \/ May("broker_rejects") /\ live' = [live EXCEPT ![o] = "rejected"]
       \/ May("broker_cancels") /\ live' = [live EXCEPT ![o] = "cancelled"]
    /\ UNCHANGED <<wire, filled, tableVars, riskVars, placeVars, syncVars,
                   expireVars, adminVars>>

\* An order grows older than ORDER_EXPIRY_MINUTES.
Age(o) ==
    /\ May("orders_age")
    /\ status[o] = "OPEN"
    /\ o \notin aged
    /\ aged' = aged \cup {o}
    /\ UNCHANGED <<status, req, recorded, origin, brokerVars, riskVars,
                   placeVars, syncVars, expireVars, adminVars>>

\* os._exit(1): every coroutine and every worker thread is gone, and so is
\* the capital counted in memory.  The table and the broker stay.
Crash ==
    /\ May("crash")
    /\ wire' = [o \in Ids |-> "idle"]
    /\ deployed' = [s \in Strategies |-> 0]
    /\ reserved' = [o \in Ids |-> 0]
    /\ released' = [o \in Ids |-> 0]
    /\ pc' = [c \in Callers |-> "idle"]
    /\ lock' = NoLock
    /\ syncPc' = [s \in Syncers |-> "idle"]
    /\ todo' = [s \in Syncers |-> {}]
    /\ reply' = [s \in Syncers |-> NoReply]
    /\ syncCur' = [s \in Syncers |-> NoOrder]
    /\ expPc' = "idle"
    /\ expTodo' = {}
    /\ expCur' = NoOrder
    /\ expFilled' = 0
    /\ admPc' = [a \in Admins |-> "idle"]
    /\ UNCHANGED <<tableVars, live, filled, arg, argOrigin, cur, admCur,
                   admFilled>>

-----------------------------------------------------------------------------
PlaceStep(c) ==
    \/ PlaceCheck(c)    \/ PlaceRejectedByRisk(c)  \/ PlaceRoute(c)
    \/ PlaceRefused(c)  \/ PlaceReturned(c)        \/ PlacePersist(c)
    \/ PlacePersistFails(c) \/ PlaceReserve(c)
    \/ PlaceTimesOut(c) \/ PlaceVerify(c)

SyncStep(s) ==
    \/ SyncNothingOpen(s) \/ SyncSnapshot(s) \/ SyncFetch(s)
    \/ SyncFetchFails(s)  \/ SyncApply(s)    \/ SyncRelease(s)

ExpireStep ==
    \/ ExpireBegin \/ ExpireVerifiedReserve \/ ExpireVerifyDone \/ ExpireScan
    \/ ExpireSkip  \/ ExpireMark            \/ ExpireRelease
    \/ \E o \in Ids : \/ ExpireVerify(o)
                      \/ ExpireCancelOk(o)
                      \/ ExpireCancelFails(o)

CancelStep(a) ==
    \/ CancelAtBroker(a) \/ CancelWrite(a) \/ CancelRelease(a)
    \/ \E o \in Ids : CancelOrder(a, o)

EnvStep ==
    \/ Crash
    \/ \E o \in Ids : BrokerLand(o) \/ BrokerFill(o) \/ BrokerCloses(o) \/ Age(o)

Next ==
    \/ \E c \in Callers : PlaceStep(c) \/ \E r \in Requests[c] : PlaceOrder(c, r)
    \/ \E s \in Syncers : SyncStep(s)
    \/ ExpireStep
    \/ \E a \in Admins : CancelStep(a)
    \/ EnvStep

Spec == Init /\ [][Next]_vars
=============================================================================
