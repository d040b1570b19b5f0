--------------------------- MODULE SingleLegExits ----------------------------
(***************************************************************************)
(* The life of the long options that the trading engine holds one by one:  *)
(* entry, exit by rule, by reversal, by hand and at square-off, and what a *)
(* restart makes of them (src/live_trading/live_trading_engine.py, with    *)
(* the Zerodha broker).                                                    *)
(*                                                                         *)
(* The options are those of one underlying.  place_order() is taken as     *)
(* OrderManager has it: a call ends with the order OPEN, not placed, or in *)
(* doubt.  Prices decide when to exit; here an exit is possible always.    *)
(***************************************************************************)
EXTENDS Integers, FiniteSets

CONSTANTS
    Contracts,        \* option contracts of one underlying, one per type
    NoContract,       \* a value that is none
    Cycle,            \* run_signal_cycle(), which never overlaps itself
    Admins,           \* POST /admin/positions/{contract}/close handlers
    MaxConcurrent,    \* _max_concurrent_intraday
    MaxDailyOrders,   \* _max_daily_orders
    Budget,           \* the strategy's budget, in lots
    MaxOrders,        \* bound: orders that matter at one time
    MaxHeld,          \* bound: lots of a contract, long or short
    MaxRestarts,      \* bound: crashes
    MaxNights,        \* bound: changes of the day
    Env               \* what the environment may do, a subset of EnvEvents

EnvEvents == { "orders_age",       \* an entry rests longer than the expiry
               "entry_doubtful",   \* a timeout, and the order cannot be looked
               "exit_doubtful",    \* up: of an entry, of an exit
               "entry_rejected",   \* an order that was accepted is rejected by
               "exit_rejected",    \* the risk management of the broker
               "positions_fail",   \* broker.get_positions() raises
               "journal_fails" }   \* _log_trade_open() returns None

Closers == {Cycle} \cup Admins
Ids == 1 .. MaxOrders

ASSUME SingleLegConstants ==
    /\ Cycle \notin Admins
    /\ NoContract \notin Contracts
    /\ IsFiniteSet(Contracts)
    /\ MaxConcurrent \in Nat /\ MaxDailyOrders \in Nat /\ Budget \in Nat
    /\ MaxOrders \in Nat
    /\ MaxHeld \in Nat /\ MaxRestarts \in Nat /\ MaxNights \in Nat
    /\ Env \subseteq EnvEvents

NoOrder == 0

VARIABLES
    \* the broker and the orders table
    held,       \* net quantity of a contract
    order,      \* the orders: what was asked, whether it opens a position, the
                \* order_status, and the fate, what the exchange made of it
    \* the engine's memory
    journaled,  \* the contracts of _single_leg_journals
    pending,    \* _pending_single_leg_exit_orders
    exited,     \* the underlying is in _exited_today
    count,      \* _today_order_count
    saved,      \* the copy of these four in Redis
    deployed,   \* RiskManager._strategy_deployed, in lots
    \* the coroutines
    pc, mode, snap, todo, at, ord,
    target,     \* the contract that the cycle wants to enter
    \* the clock and history
    clock, restarts, nights,
    others      \* history: contracts that a handler, or the reconciliation
                \* after a restart, has set out to close

brokerVars == <<held, order>>
memoryVars == <<journaled, pending, exited, count>>
localVars  == <<pc, mode, snap, todo, at, ord, target>>
clockVars  == <<clock, restarts, nights>>
vars == <<brokerVars, memoryVars, saved, deployed, localVars, clockVars, others>>

May(event) == event \in Env

Blank == [contract |-> NoContract, side |-> "BUY", lots |-> 0, entry |-> FALSE,
          status |-> "absent", fate |-> "none"]

Final == {"absent", "COMPLETED", "REJECTED", "EXPIRED", "FAILED"}
Statuses == Final \cup {"PENDING", "OPEN", "PENDING_VERIFICATION"}
Fates == {"none", "flying", "resting", "filled", "lost", "killed"}

\* "resolve" to "release" are the steps of _execute_single_leg_exit() and of its
\* three copies; an entry goes from "entry" over "buy", "sent" and "journal".
Labels == {"idle", "verify", "scan", "resolve", "place", "sent", "release",
           "entry", "buy", "journal", "restore"}

Modes == {"exit", "reversal", "squareoff", "orphan", "entry", "manual"}

Memory == [journaled : SUBSET Contracts,
           pending : [Contracts -> Ids \cup {NoOrder}],
           exited : BOOLEAN, count : Nat]

Rows == [contract : Contracts \cup {NoContract}, side : {"BUY", "SELL"},
         lots : Nat, entry : BOOLEAN, status : Statuses, fate : Fates]

BrokerOK == held \in [Contracts -> Int] /\ order \in [Ids -> Rows]

MemoryOK ==
    /\ [journaled |-> journaled, pending |-> pending, exited |-> exited,
        count |-> count] \in Memory
    /\ saved \in Memory
    /\ deployed \in Nat

LocalsOK ==
    /\ pc \in [Closers -> Labels]
    /\ mode \in [Closers -> Modes]
    /\ snap \in [Closers -> [Contracts -> Int]]
    /\ todo \in [Closers -> SUBSET Contracts]
    /\ at \in [Closers -> Contracts \cup {NoContract}]
    /\ ord \in [Closers -> Ids \cup {NoOrder}]
    /\ target \in Contracts \cup {NoContract}

ClockOK ==
    /\ clock \in {"open", "squareoff", "closed"}
    /\ restarts \in 0 .. MaxRestarts /\ nights \in 0 .. MaxNights
    /\ others \subseteq Contracts

TypeOK == BrokerOK /\ MemoryOK /\ LocalsOK /\ ClockOK

Flat == [c \in Contracts |-> 0]

Init ==
    /\ held = Flat
    /\ order = [i \in Ids |-> Blank]
    /\ journaled = {}
    /\ pending = [c \in Contracts |-> NoOrder]
    /\ exited = FALSE
    /\ count = 0
    /\ saved = [journaled |-> {}, pending |-> [c \in Contracts |-> NoOrder],
                exited |-> FALSE, count |-> 0]
    /\ deployed = 0
    /\ pc = [p \in Closers |-> "idle"]
    /\ mode = [p \in Closers |-> IF p = Cycle THEN "exit" ELSE "manual"]
    /\ snap = [p \in Closers |-> Flat]
    /\ todo = [p \in Closers |-> {}]
    /\ at = [p \in Closers |-> NoContract]
    /\ ord = [p \in Closers |-> NoOrder]
    /\ target = NoContract
    /\ clock = "open"
    /\ restarts = 0 /\ nights = 0
    /\ others = {}

-----------------------------------------------------------------------------
(* Helpers.                                                                *)

\* No coroutine is running.
Quiet == \A p \in Closers : pc[p] = "idle"

Goto(p, label) == pc' = [pc EXCEPT ![p] = label]

Abs(n) == IF n < 0 THEN -n ELSE n

Signed(o) == IF o.side = "BUY" THEN o.lots ELSE -o.lots

\* _persist_state(), after the changes of the same action.
Persist == saved' = [journaled |-> journaled', pending |-> pending',
                     exited |-> exited', count |-> count']

\* What _safe_get_positions() returns: nothing, when the broker cannot be asked.
Positions == {held} \cup (IF May("positions_fail") THEN {Flat} ELSE {})

\* A finished order that no dictionary and no coroutine refers to any more
\* (nobody ever reads a row that a crash has left PENDING).
Unused(i) ==
    /\ order[i].status \in Final \cup {"PENDING"}
    /\ order[i].fate \notin {"flying", "resting"}
    /\ \A c \in Contracts : pending[c] # i /\ saved.pending[c] # i
    /\ \A p \in Closers : pc[p] # "idle" => ord[p] # i

\* Mutant: it does not stop at zero.
ReleasedFreely(n) == deployed - n

\* release_deployed_capital() stops at zero.
Released(n) == IF deployed > n THEN deployed - n ELSE 0

\* A handler answers; the cycle goes on with the next position.
Leave(p) ==
    /\ Goto(p, IF p = Cycle THEN "scan" ELSE "idle")
    /\ at' = [at EXCEPT ![p] = NoContract]
    /\ ord' = [ord EXCEPT ![p] = NoOrder]

\* The lots held in these contracts, long or short, one by one.
LotsIn(contracts) == UNION {{c} \X (1 .. Abs(held[c])) : c \in contracts}

\* What _rebuild_deployed_capital() counts: journals with a position.
Rebuilt == Cardinality(LotsIn(journaled))

NextSlot == CHOOSE i \in Ids : Unused(i)

SendOrder(p, c, side, lots, entry) ==
    /\ \E i \in Ids : Unused(i)
    /\ order' = [order EXCEPT ![NextSlot] =
                    [contract |-> c, side |-> side, lots |-> lots,
                     entry |-> entry, status |-> "PENDING", fate |-> "flying"]]
    /\ ord' = [ord EXCEPT ![p] = NextSlot]
    /\ Goto(p, "sent")

\* The answer to order i is lost, and perhaps its request too.
Doubt(i) ==
    \E fate \in {order[i].fate} \cup
                (IF order[i].fate = "flying" THEN {"lost"} ELSE {}) :
        order' = [order EXCEPT ![i].status = "PENDING_VERIFICATION",
                               ![i].fate = fate]

\* The position of at[p] counts as closed: its journal is popped, and if there
\* was one, the close is logged and its capital released.
Settle(p) ==
    /\ journaled' = journaled \ {at[p]}
    /\ IF at[p] \in journaled
       THEN Goto(p, "release") /\ UNCHANGED <<at, ord>>
       ELSE Leave(p)

-----------------------------------------------------------------------------
(* The minute job: run_signal_cycle(), _check_open_option_exits() and      *)
(* _square_off_all().                                                      *)

StartCycle ==
    /\ clock = "open"
    /\ pc[Cycle] = "idle"
    /\ Goto(Cycle, "verify")
    /\ UNCHANGED <<brokerVars, memoryVars, saved, deployed, mode, snap, todo, at,
                   ord, target, clockVars, others>>

\* A doubtful order, in expire_stale_orders(), when the broker can be asked.
Verify(i) ==
    /\ pc[Cycle] = "verify"
    /\ order[i].status = "PENDING_VERIFICATION"
    /\ IF order[i].fate \in {"resting", "filled"}
       THEN /\ order' = [order EXCEPT ![i].status = "OPEN"]
            /\ deployed' = IF order[i].entry THEN deployed + order[i].lots
                                             ELSE deployed
       ELSE /\ order' = [order EXCEPT ![i].status = "FAILED", ![i].fate = "lost"]
            /\ UNCHANGED deployed
    /\ UNCHANGED <<held, memoryVars, saved, localVars, clockVars, others>>

\* A stale entry.  That the rest is placed again and rests in its stead is as
\* if it had not been stale.
ExpireStale(i) ==
    /\ pc[Cycle] = "verify"
    /\ May("orders_age")
    /\ order[i].status = "OPEN" /\ order[i].fate = "resting"
    /\ order' = [order EXCEPT ![i].status = "EXPIRED", ![i].fate = "killed"]
    /\ deployed' = Released(order[i].lots)
    /\ UNCHANGED <<held, memoryVars, saved, localVars, clockVars, others>>

\* The positions that the exit rules are applied to, one after another.
\* Without an answer of the broker there are none, and no entries either.
ReadPositions ==
    /\ pc[Cycle] = "verify"
    /\ mode' = [mode EXCEPT ![Cycle] = "exit"]
    /\ \/ /\ snap' = [snap EXCEPT ![Cycle] = held]
          /\ todo' = [todo EXCEPT ![Cycle] = {c \in Contracts : held[c] > 0}]
          /\ Goto(Cycle, "scan")
       \/ /\ May("positions_fail")
          /\ Goto(Cycle, "idle")
          /\ UNCHANGED <<snap, todo>>
    /\ UNCHANGED <<brokerVars, memoryVars, saved, deployed, at, ord, target,
                   clockVars, others>>

\* Mutant: the square-off is tried once.
SquareOffOnce ==
    /\ clock = "squareoff"
    /\ pc[Cycle] = "idle" /\ mode[Cycle] # "squareoff"
    /\ \E positions \in Positions :
        /\ snap' = [snap EXCEPT ![Cycle] = positions]
        /\ todo' = [todo EXCEPT ![Cycle] = {c \in Contracts : positions[c] # 0}]
    /\ mode' = [mode EXCEPT ![Cycle] = "squareoff"]
    /\ Goto(Cycle, "scan")
    /\ UNCHANGED <<brokerVars, memoryVars, saved, deployed, at, ord, target,
                   clockVars, others>>

\* In the window of the square-off, the cycle does nothing else.
SquareOff ==
    /\ clock = "squareoff"
    /\ pc[Cycle] = "idle"
    /\ \E positions \in Positions :
        /\ snap' = [snap EXCEPT ![Cycle] = positions]
        /\ todo' = [todo EXCEPT ![Cycle] = {c \in Contracts : positions[c] # 0}]
    /\ mode' = [mode EXCEPT ![Cycle] = "squareoff"]
    /\ Goto(Cycle, "scan")
    /\ UNCHANGED <<brokerVars, memoryVars, saved, deployed, at, ord, target,
                   clockVars, others>>

\* No rule says EXIT; or the position belongs to another strategy than the
\* one whose signal reverses.
Hold(c) ==
    /\ pc[Cycle] = "scan" /\ c \in todo[Cycle]
    /\ \/ mode[Cycle] = "exit"
       \/ mode[Cycle] = "reversal" /\ c \in journaled
    /\ todo' = [todo EXCEPT ![Cycle] = @ \ {c}]
    /\ UNCHANGED <<brokerVars, memoryVars, saved, deployed, pc, mode, snap, at,
                   ord, target, clockVars, others>>

ScanDone(m) ==
    /\ pc[Cycle] = "scan" /\ mode[Cycle] = m /\ todo[Cycle] = {}
    /\ UNCHANGED <<brokerVars, memoryVars, snap, todo, at, ord, target, clockVars,
                   others>>

ExitsDone ==
    /\ ScanDone("exit")
    /\ Goto(Cycle, "entry")
    /\ UNCHANGED <<mode, saved, deployed>>

SquareOffDone ==
    /\ ScanDone("squareoff")
    /\ Goto(Cycle, "idle")
    /\ Persist
    /\ UNCHANGED <<mode, deployed>>

-----------------------------------------------------------------------------
(* One exit: _execute_single_leg_exit(), and its copies in the reversal,   *)
(* the square-off and the reconciliation after a restart.                  *)

\* Up to the first await.  A position that the engine has lost is closed
\* without a look at the exits in doubt.
Exit(p, c) ==
    /\ pc[p] = "scan" /\ c \in todo[p]
    /\ todo' = [todo EXCEPT ![p] = @ \ {c}]
    /\ at' = [at EXCEPT ![p] = c]
    /\ IF pending[c] # NoOrder /\ mode[p] # "orphan"
       THEN Goto(p, "resolve") /\ ord' = [ord EXCEPT ![p] = pending[c]]
       ELSE Goto(p, "place") /\ UNCHANGED ord
    /\ others' = IF p = Cycle /\ mode[p] # "orphan" THEN others
                 ELSE others \cup {c}
    /\ UNCHANGED <<brokerVars, memoryVars, saved, deployed, mode, snap, target,
                   clockVars>>

\* Mutant: an order in doubt is not waited for.
ResolveAtOnce(p) ==
    /\ pc[p] = "resolve"
    /\ pending' = [pending EXCEPT ![at[p]] = NoOrder]
    /\ Goto(p, "place")
    /\ ord' = [ord EXCEPT ![p] = NoOrder]
    /\ saved' = [saved EXCEPT !.pending = pending']
    /\ UNCHANGED <<brokerVars, journaled, exited, count, deployed, mode, snap,
                   todo, at, target, clockVars, others>>

Bad == {"REJECTED", "FAILED"}

\* _resolve_pending_exit_order(), and what the exit does with its answer.
Resolve(p) ==
    /\ pc[p] = "resolve"
    /\ \/ /\ order[ord[p]].status = "PENDING_VERIFICATION"
          /\ Leave(p)
          /\ UNCHANGED <<journaled, pending, saved>>
       \/ /\ order[ord[p]].status # "PENDING_VERIFICATION"
          /\ pending' = [pending EXCEPT ![at[p]] = NoOrder]
          /\ saved' = [journaled |-> journaled, pending |-> pending',
                       exited |-> exited, count |-> count]
          /\ IF order[ord[p]].status \in Bad
             THEN /\ Goto(p, "place")
                  /\ ord' = [ord EXCEPT ![p] = NoOrder]
                  /\ UNCHANGED <<journaled, at>>
             ELSE Settle(p)
    /\ UNCHANGED <<brokerVars, exited, count, deployed, mode, snap, todo, target,
                   clockVars, others>>

\* A market order for the quantity of the snapshot.  The cycle and the handler
\* only ever sell; the other two turn the position round.
Place(p) ==
    /\ pc[p] = "place"
    /\ SendOrder(p, at[p],
                 IF snap[p][at[p]] < 0 /\ mode[p] \in {"squareoff", "orphan"}
                 THEN "BUY" ELSE "SELL",
                 Abs(snap[p][at[p]]), FALSE)
    /\ UNCHANGED <<held, memoryVars, saved, deployed, mode, snap, todo, at, target,
                   clockVars, others>>

\* place_order() returns an order that the broker has taken.
ExitTaken(p) ==
    /\ pc[p] = "sent" /\ mode[p] # "entry"
    /\ order[ord[p]].fate # "flying"
    /\ order' = [order EXCEPT ![ord[p]].status = "OPEN"]
    /\ IF mode[p] = "orphan" THEN Leave(p) /\ UNCHANGED journaled ELSE Settle(p)
    /\ UNCHANGED <<held, pending, exited, count, saved, deployed, mode, snap, todo,
                   target, clockVars, others>>

\* Mutant: a failed exit closes the position all the same.
ExitFailedCloses(p) ==
    /\ pc[p] = "sent" /\ mode[p] # "entry"
    /\ order[ord[p]].fate = "flying"
    /\ order' = [order EXCEPT ![ord[p]].status = "FAILED",
                              ![ord[p]].fate = "lost"]
    /\ IF mode[p] = "orphan" THEN Leave(p) /\ UNCHANGED journaled ELSE Settle(p)
    /\ UNCHANGED <<held, pending, exited, count, saved, deployed, mode, snap, todo,
                   target, clockVars, others>>

\* It was refused, or is not there when it is looked for after a timeout.
ExitFailed(p) ==
    /\ pc[p] = "sent" /\ mode[p] # "entry"
    /\ order[ord[p]].fate = "flying"
    /\ order' = [order EXCEPT ![ord[p]].status = "FAILED",
                              ![ord[p]].fate = "lost"]
    /\ Leave(p)
    /\ UNCHANGED <<held, memoryVars, saved, deployed, mode, snap, todo, target,
                   clockVars, others>>

\* Mutant: it is remembered in memory only.
ExitDoubtfulUnsaved(p) ==
    /\ pc[p] = "sent" /\ mode[p] # "entry"
    /\ May("exit_doubtful")
    /\ Doubt(ord[p])
    /\ IF mode[p] = "orphan"
       THEN UNCHANGED <<memoryVars, saved>>
       ELSE /\ pending' = [pending EXCEPT ![at[p]] = ord[p]]
            /\ UNCHANGED <<journaled, exited, count, saved>>
    /\ Leave(p)
    /\ UNCHANGED <<held, deployed, mode, snap, todo, target, clockVars, others>>

\* A timeout, and the order cannot be looked for: it is remembered.
ExitDoubtful(p) ==
    /\ pc[p] = "sent" /\ mode[p] # "entry"
    /\ May("exit_doubtful")
    /\ Doubt(ord[p])
    /\ IF mode[p] = "orphan"
       THEN UNCHANGED <<memoryVars, saved>>
       ELSE /\ pending' = [pending EXCEPT ![at[p]] = ord[p]]
            /\ UNCHANGED <<journaled, exited, count>>
            /\ Persist
    /\ Leave(p)
    /\ UNCHANGED <<held, deployed, mode, snap, todo, target, clockVars, others>>

\* After _log_trade_close(): the capital, the mark of a loss (not in the
\* reversal and the square-off), and the copy in Redis (not in the square-off).
Release(p) ==
    /\ pc[p] = "release"
    /\ deployed' = Released(Abs(snap[p][at[p]]))
    /\ exited' \in {exited, exited \/ mode[p] \in {"exit", "manual"}}
    /\ UNCHANGED <<journaled, pending, count>>
    /\ IF mode[p] = "squareoff" THEN UNCHANGED saved ELSE Persist
    /\ Leave(p)
    /\ UNCHANGED <<brokerVars, mode, snap, todo, target, clockVars, others>>

-----------------------------------------------------------------------------
(* The manual close, close_single_leg_position().                          *)

ManualClose(p, c) ==
    /\ p # Cycle /\ clock # "closed"
    /\ pc[p] = "idle"
    /\ c \in journaled
    /\ held[c] # 0 /\ held[c] > -MaxHeld
    /\ snap' = [snap EXCEPT ![p] = held]
    /\ todo' = [todo EXCEPT ![p] = {c}]
    /\ Goto(p, "scan")
    /\ UNCHANGED <<brokerVars, memoryVars, saved, deployed, mode, at, ord, target,
                   clockVars, others>>

-----------------------------------------------------------------------------
(* An entry: _process_signal() and the reversal before it.                 *)

\* A signal for c: the positions of the other type are read to be closed.
Signal(c) ==
    /\ pc[Cycle] = "entry"
    /\ ~exited /\ count < MaxDailyOrders
    /\ \E positions \in Positions :
        /\ snap' = [snap EXCEPT ![Cycle] = positions]
        /\ todo' = [todo EXCEPT ![Cycle] =
                        {d \in Contracts \ {c} : positions[d] > 0}]
    /\ target' = c
    /\ mode' = [mode EXCEPT ![Cycle] = "reversal"]
    /\ Goto(Cycle, "scan")
    /\ UNCHANGED <<brokerVars, memoryVars, saved, deployed, at, ord, clockVars,
                   others>>

ReversalDone ==
    /\ ScanDone("reversal")
    /\ Goto(Cycle, "buy")
    /\ mode' = [mode EXCEPT ![Cycle] = "entry"]
    /\ UNCHANGED <<saved, deployed>>

\* The end of the cycle: no signal any more.
NoSignal ==
    /\ pc[Cycle] = "entry"
    /\ Goto(Cycle, "idle")
    /\ target' = NoContract
    /\ UNCHANGED <<brokerVars, memoryVars, saved, deployed, mode, snap, todo, at,
                   ord, clockVars, others>>

\* One of the many gates is shut.
GateShut ==
    /\ pc[Cycle] = "buy"
    /\ Goto(Cycle, "entry")
    /\ UNCHANGED <<brokerVars, memoryVars, saved, deployed, mode, snap, todo, at,
                   ord, target, clockVars, others>>

\* _has_open_option(), the cap, the budget, and the duplicate guard's look at the
\* OPEN rows.
Buy ==
    /\ pc[Cycle] = "buy"
    /\ \E positions \in Positions : positions[target] <= 0
    /\ held[target] < MaxHeld
    /\ Cardinality({i \in Ids : Unused(i)}) > Cardinality(Closers)
    /\ Cardinality(journaled) < MaxConcurrent
    /\ deployed < Budget
    /\ \A i \in Ids : order[i].status = "OPEN" => order[i].contract # target
    /\ SendOrder(Cycle, target, "BUY", 1, TRUE)
    /\ at' = [at EXCEPT ![Cycle] = target]
    /\ UNCHANGED <<held, memoryVars, saved, deployed, mode, snap, todo, target,
                   clockVars, others>>

BackToEntry ==
    /\ Goto(Cycle, "entry")
    /\ at' = [at EXCEPT ![Cycle] = NoContract]
    /\ ord' = [ord EXCEPT ![Cycle] = NoOrder]

\* Mutant: an entry that rests is not journaled.
EntryTakenIfFilled ==
    /\ pc[Cycle] = "sent" /\ mode[Cycle] = "entry"
    /\ order[ord[Cycle]].fate # "flying"
    /\ order' = [order EXCEPT ![ord[Cycle]].status = "OPEN"]
    /\ deployed' = deployed + 1
    /\ count' = count + 1
    /\ IF order[ord[Cycle]].fate = "filled"
       THEN Goto(Cycle, "journal") /\ UNCHANGED <<at, ord>>
       ELSE BackToEntry
    /\ UNCHANGED <<held, journaled, pending, exited, saved, mode, snap, todo,
                   target, clockVars, others>>

\* The order rests at the broker, or has been filled already.
EntryTaken ==
    /\ pc[Cycle] = "sent" /\ mode[Cycle] = "entry"
    /\ order[ord[Cycle]].fate # "flying"
    /\ order' = [order EXCEPT ![ord[Cycle]].status = "OPEN"]
    /\ deployed' = deployed + 1
    /\ count' = count + 1
    /\ Goto(Cycle, "journal")
    /\ UNCHANGED <<held, journaled, pending, exited, saved, mode, snap, todo, at,
                   ord, target, clockVars, others>>

EntryNotTaken ==
    /\ pc[Cycle] = "sent" /\ mode[Cycle] = "entry"
    /\ \/ /\ order[ord[Cycle]].fate = "flying"
          /\ order' = [order EXCEPT ![ord[Cycle]].status = "FAILED",
                                    ![ord[Cycle]].fate = "lost"]
       \/ May("entry_doubtful") /\ Doubt(ord[Cycle])
    /\ BackToEntry
    /\ UNCHANGED <<held, memoryVars, saved, deployed, mode, snap, todo, target,
                   clockVars, others>>

\* After _log_trade_open().
Journal ==
    /\ pc[Cycle] = "journal"
    /\ UNCHANGED <<pending, exited, count>>
    /\ \/ journaled' = journaled \cup {at[Cycle]} /\ Persist
       \/ May("journal_fails") /\ UNCHANGED <<journaled, saved>>
    /\ BackToEntry
    /\ UNCHANGED <<brokerVars, deployed, mode, snap, todo, target, clockVars,
                   others>>

-----------------------------------------------------------------------------
(* The broker, the order job, the clock, and restarts.                     *)

\* A request that arrives.  A market order is filled at once.
Land(i) ==
    /\ order[i].fate = "flying" /\ clock # "closed"
    /\ \/ /\ order[i].entry
          /\ order' = [order EXCEPT ![i].fate = "resting"]
          /\ UNCHANGED held
       \/ /\ ~order[i].entry
          /\ order' = [order EXCEPT ![i].fate = "filled"]
          /\ held' = [held EXCEPT ![order[i].contract] = @ + Signed(order[i])]
       \/ /\ May(IF order[i].entry THEN "entry_rejected" ELSE "exit_rejected")
          /\ order' = [order EXCEPT ![i].fate = "killed"]
          /\ UNCHANGED held
    /\ UNCHANGED <<memoryVars, saved, deployed, localVars, clockVars, others>>

Fill(i) ==
    /\ order[i].fate = "resting" /\ clock # "closed"
    /\ order' = [order EXCEPT ![i].fate = "filled"]
    /\ held' = [held EXCEPT ![order[i].contract] = @ + Signed(order[i])]
    /\ UNCHANGED <<memoryVars, saved, deployed, localVars, clockVars, others>>

\* sync_orders(), one order.
Sync(i) ==
    /\ order[i].status = "OPEN"
    /\ \/ /\ order[i].fate = "filled"
          /\ order' = [order EXCEPT ![i].status = "COMPLETED"]
          /\ UNCHANGED deployed
       \/ /\ order[i].fate = "killed"
          /\ order' = [order EXCEPT ![i].status = "REJECTED"]
          /\ deployed' = IF order[i].entry THEN Released(order[i].lots)
                                           ELSE deployed
    /\ UNCHANGED <<held, memoryVars, saved, localVars, clockVars, others>>

\* The window of the square-off, and then the close of the exchange, which
\* cancels what rests.
LateInTheDay ==
    /\ \/ /\ clock = "open" /\ clock' = "squareoff"
          /\ UNCHANGED order
       \/ /\ clock = "squareoff" /\ clock' = "closed"
          /\ order' = [i \in Ids |-> IF order[i].fate = "resting"
                                     THEN [order[i] EXCEPT !.fate = "killed"]
                                     ELSE order[i]]
    /\ UNCHANGED <<held, memoryVars, saved, deployed, localVars, restarts, nights,
                   others>>

\* The resets of the evening, and on_market_open().  The order job, which runs
\* every 30 seconds all night, has seen how each order has ended.
NextDay ==
    /\ clock = "closed"
    /\ Quiet
    /\ \A i \in Ids : order[i].status # "OPEN"
    /\ clock' = "open"
    /\ nights < MaxNights /\ nights' = nights + 1
    /\ order' = [i \in Ids |-> IF order[i].fate = "flying"
                               THEN [order[i] EXCEPT !.fate = "lost"] ELSE order[i]]
    /\ exited' = FALSE
    /\ count' = 0
    /\ saved' = [saved EXCEPT !.exited = FALSE, !.count = 0]
    /\ deployed' = Rebuilt
    /\ UNCHANGED <<held, journaled, pending, localVars, restarts, others>>

\* The process dies, with its requests, and comes back with what Redis has.
Crash ==
    /\ restarts < MaxRestarts
    /\ restarts' = restarts + 1
    /\ order' = [i \in Ids |-> IF order[i].fate = "flying"
                               THEN [order[i] EXCEPT !.fate = "lost"] ELSE order[i]]
    /\ journaled' = saved.journaled
    /\ pending' = saved.pending
    /\ exited' = saved.exited
    /\ count' = saved.count
    /\ deployed' = 0
    /\ pc' = [p \in Closers |-> IF p = Cycle THEN "restore" ELSE "idle"]
    /\ at' = [p \in Closers |-> NoContract]
    /\ ord' = [p \in Closers |-> NoOrder]
    /\ UNCHANGED <<held, saved, mode, snap, todo, target, clock, nights,
                   others>>

\* _reconcile_broker_positions(): positions without a journal are closed.
FindOrphans ==
    /\ pc[Cycle] = "restore"
    /\ \E positions \in Positions :
        /\ snap' = [snap EXCEPT ![Cycle] = positions]
        /\ todo' = [todo EXCEPT ![Cycle] =
                        {c \in Contracts \ journaled : positions[c] # 0}]
    /\ mode' = [mode EXCEPT ![Cycle] = "orphan"]
    /\ Goto(Cycle, "scan")
    /\ UNCHANGED <<brokerVars, memoryVars, saved, deployed, at, ord, target,
                   clockVars, others>>

RestoreDone ==
    /\ ScanDone("orphan")
    /\ Goto(Cycle, "idle")
    /\ deployed' = Rebuilt
    /\ UNCHANGED <<mode, saved>>

-----------------------------------------------------------------------------
ExitStep(p) ==
    \/ \E c \in Contracts : Exit(p, c)
    \/ Resolve(p) \/ Place(p) \/ ExitTaken(p) \/ ExitFailed(p) \/ ExitDoubtful(p)
    \/ Release(p)

CycleStep ==
    \/ StartCycle \/ ReadPositions \/ ExitsDone
    \/ SquareOff \/ SquareOffDone
    \/ ReversalDone \/ NoSignal \/ GateShut \/ Buy \/ EntryTaken \/ EntryNotTaken
    \/ Journal
    \/ FindOrphans \/ RestoreDone
    \/ \E c \in Contracts : Hold(c) \/ Signal(c)
    \/ \E i \in Ids : Verify(i) \/ ExpireStale(i)

EnvStep ==
    \/ LateInTheDay \/ NextDay \/ Crash
    \/ \E i \in Ids : Land(i) \/ Fill(i) \/ Sync(i)

Next ==
    \/ CycleStep
    \/ \E p \in Closers : ExitStep(p)
    \/ \E p \in Admins, c \in Contracts : ManualClose(p, c)
    \/ EnvStep

Spec == Init /\ [][Next]_vars

\* The cycle runs every minute and awaits nothing for ever; the signals of a
\* cycle come to an end; and of a market order that is sent again and again,
\* one arrives.
FairSpec ==
    /\ Spec
    /\ WF_vars(CycleStep \/ ExitStep(Cycle))
    /\ SF_vars(NoSignal)
    /\ SF_vars(\E i \in Ids : ~order[i].entry /\ Land(i))

-----------------------------------------------------------------------------
(* Properties.                                                             *)

\* The engine on its own (no handler, no reconciliation) never sells an option
\* that it does not hold: an exit is not sent again while the fate of the last
\* one is open, and an exit uses the quantity of positions that were read after
\* the exits before it.
NeverOversold == \A c \in Contracts : held[c] < 0 => c \in others

\* A position is booked as closed only for an order that the exchange has
\* taken, never for one that failed or is in doubt, whoever closes it.
CloseWasAccepted ==
    \A p \in Closers : pc[p] = "release" =>
        order[ord[p]].fate \notin {"flying", "lost"}

\* An exit in doubt is not forgotten, and no other takes its place, until its
\* outcome is known, also not over a restart.
DoubtIsRemembered ==
    [][\A c \in Contracts \ others' :
          /\ pending[c] # NoOrder
          /\ order[pending[c]].status = "PENDING_VERIFICATION"
          => pending'[c] = pending[c]]_vars

\* Between two cycles, the engine has a journal for every option it holds: the
\* manual close, the capital and the restart all go by the journals.
HeldIsJournaled == Quiet => \A c \in Contracts : held[c] > 0 => c \in journaled

\* Between two cycles, the capital counted as deployed covers the journaled
\* positions: none is released for an exit that left lots behind.
DeployedCoversHeld ==
    Quiet => deployed >= Cardinality(LotsIn({c \in journaled : held[c] > 0}))

\* What is held has its journal and its capital.
BooksCoverHeld == HeldIsJournaled /\ DeployedCoversHeld

\* A single-leg position that is open in the square-off window is closed in it:
\* an exit that fails is tried again in every cycle.
SquareOffCloses == \A c \in Contracts :
    (clock = "squareoff" /\ held[c] > 0) ~> (held[c] <= 0 \/ clock # "squareoff")

\* The cycle books no exit of a position that is still there.
NoFictitiousExit == \A c \in Contracts \ others :
    pc[Cycle] = "release" /\ at[Cycle] = c => held[c] <= 0
=============================================================================
