------------------------- MODULE StructureLifecycle --------------------------
(***************************************************************************)
(* The life of a credit spread or an iron condor on one underlying: entry  *)
(* leg by leg, exit leg by leg, square-off, the stop order (GTT) that the  *)
(* exchange keeps for each short leg, and what a restart makes of a        *)
(* structure (src/live_trading/live_trading_engine.py, with Zerodha).      *)
(*                                                                         *)
(* A structure is a row of legs, each short leg followed by its hedge.     *)
(* Why it is entered or left is the matter of StructureRules: here both    *)
(* are possible always.  Of place_order() only its outcomes are left, as   *)
(* OrderManager has them; an order has a number here when its outcome is   *)
(* not known with the answer.                                              *)
(***************************************************************************)
EXTENDS Integers, FiniteSets

CONSTANTS
    Cycle,            \* run_signal_cycle(), which never overlaps itself
    Fast,             \* _run_exit_checks_only(), every ten seconds
    NoOne,            \* nobody holds _exit_cycle_lock
    Scenes,           \* the environments looked at, see IsScene
    MaxDailyOrders,   \* _max_daily_orders
    MaxOrders,        \* bound: orders at one time whose outcome matters
    MaxHeld           \* bound: lots of a contract, long or short

Kinds == { "spread", "condor" }

Events == { "entries_rest",    \* an entry waits at the exchange for its price
            "entry_doubtful",  \* a timeout, and the order cannot be looked up
            "exit_doubtful",
            "entry_fails", "exit_fails",
            "positions_fail",  \* broker.get_positions() raises
            "gtt_fires",
            "fast" }           \* the ten-second job runs

\* A kind of structure, what may happen, and bounds: crashes, changes of the day.
IsScene(s) ==
    /\ s.kind \in Kinds /\ s.may \subseteq Events
    /\ s.restarts \in Nat /\ s.nights \in Nat

Procs == {Cycle, Fast}
Ids == 1 .. MaxOrders
NoOrder == 0

ASSUME StructureConstants ==
    /\ Cycle # Fast /\ NoOne \notin Procs
    /\ \A s \in Scenes : IsScene(s)
    /\ MaxDailyOrders \in Nat /\ MaxOrders \in Nat /\ MaxHeld \in Nat

VARIABLES
    scene,      \* the one of Scenes that this behaviour is about
    \* the broker and the orders table
    held,       \* net quantity of a leg's contract, in lots
    order,      \* the orders: status as in the table, fate at the exchange
    gtt,        \* the short legs with a stop order at the exchange
    \* the engine's memory
    struct,     \* the entry in _active_spreads or _active_condors
    pending,    \* _pending_single_leg_exit_orders, of the square-off
    exited,     \* the underlying is in _exited_today
    count,      \* _today_order_count
    saved,      \* the copy of these in Redis
    deployed,   \* capital of the strategy, in structures, one of them elsewhere
    lock,       \* who holds _exit_cycle_lock
    run,        \* the coroutines: where they are, and their local variables
    \* the clock and history
    dte,        \* days to expiry: many, below the minimum, or none
    clock, restarts, nights,
    alerted     \* a message asked the operator to close a leg by hand

brokerVars == <<held, order, gtt>>
memoryVars == <<struct, pending, exited, count>>
engineVars == <<memoryVars, saved, deployed>>
worldVars  == <<scene, dte, clock, restarts, nights>>
vars == <<brokerVars, engineVars, lock, run, worldVars, alerted>>

May(event) == event \in scene.may

Elsewhere == 1

AllLegs == 1 .. 4
SpreadLegs == {1, 2}
CondorLegs == AllLegs
Legs == IF scene.kind = "spread" THEN SpreadLegs ELSE CondorLegs
IsShort(l) == l % 2 = 1
Shorts == {l \in Legs : IsShort(l)}
NoLeg == 0
Flat == [l \in AllLegs |-> 0]

\* +1 buys, -1 sells.
Opening(l) == IF IsShort(l) THEN -1 ELSE 1

Blank == [leg |-> 1, lots |-> 0, status |-> "absent", fate |-> "none"]
Statuses == {"absent", "OPEN", "PENDING_VERIFICATION", "FAILED"}
Fates == {"none", "flying", "resting", "filled", "lost"}

NoPending == [l \in AllLegs |-> NoOrder]
NoStruct == [tracked |-> FALSE, done |-> {}, pend |-> NoPending, stops |-> {}]
Pendings == [AllLegs -> Ids \cup {NoOrder}]
Memory == [struct : [tracked : BOOLEAN, done : SUBSET AllLegs, pend : Pendings,
                     stops : SUBSET AllLegs],
           pending : Pendings, exited : BOOLEAN, count : Nat]

\* A structure is opened by "entry" and closed by "exit" or "squareoff"; the
\* other modes take back an entry that failed, and close what a restart finds.
Modes == {"entry", "unwind", "exit", "squareoff", "orphan", "flatten"}
Labels == {"idle", "verify", "check", "entries", "scan", "resolve", "place",
           "sent", "booked", "track", "drop", "restore", "rebuild", "restored"}

\* Local variables of a coroutine: the positions it has read, the legs it has to
\* do and those it takes for closed, the leg it is at and its order in doubt, and
\* whether the square-off found a structure that ends today.
Locals == [pc : Labels, mode : Modes, known : BOOLEAN, qty : [AllLegs -> Int],
           todo : SUBSET AllLegs, ok : SUBSET AllLegs, at : AllLegs \cup {NoLeg},
           id : Ids \cup {NoOrder}, due : BOOLEAN]
Idle == [pc |-> "idle", mode |-> "exit", known |-> TRUE, qty |-> Flat,
         todo |-> {}, ok |-> {}, at |-> NoLeg, id |-> NoOrder, due |-> FALSE]

BrokerOK ==
    /\ held \in [AllLegs -> Int]
    /\ order \in [Ids -> [leg : AllLegs, lots : Int, status : Statuses, fate : Fates]]
    /\ gtt \subseteq Shorts

MemoryOK ==
    /\ [struct |-> struct, pending |-> pending, exited |-> exited,
        count |-> count] \in Memory
    /\ saved \in Memory
    /\ deployed \in Nat

RunOK == lock \in Procs \cup {NoOne} /\ run \in [Procs -> Locals]

WorldOK ==
    /\ scene \in Scenes
    /\ dte \in {"far", "near", "last"}
    /\ clock \in {"open", "squareoff", "closed"}
    /\ restarts \in 0 .. scene.restarts /\ nights \in 0 .. scene.nights
    /\ alerted \in BOOLEAN

TypeOK == BrokerOK /\ MemoryOK /\ RunOK /\ WorldOK

Init ==
    /\ scene \in Scenes
    /\ held = Flat
    /\ order = [i \in Ids |-> Blank]
    /\ gtt = {}
    /\ struct = NoStruct /\ pending = NoPending /\ exited = FALSE /\ count = 0
    /\ saved = [struct |-> NoStruct, pending |-> NoPending, exited |-> FALSE,
                count |-> 0]
    /\ deployed = Elsewhere
    /\ lock = NoOne
    /\ run = [p \in Procs |-> Idle]
    /\ dte = "far" /\ clock = "open" /\ restarts = 0 /\ nights = 0
    /\ alerted = FALSE

-----------------------------------------------------------------------------
(* Helpers.                                                                *)

Quiet == \A p \in Procs : run[p].pc = "idle"

At(p, label) == run[p].pc = label
In(p, mode)  == run[p].mode = mode

Become(p, locals) == run' = [run EXCEPT ![p] = locals]
Goto(p, label) == run' = [run EXCEPT ![p].pc = label]

Abs(n) == IF n < 0 THEN -n ELSE n

\* _persist_state(), after the changes of the same action.  Bound: the copy is
\* kept as long as a crash is still possible.
Persist == saved' = IF restarts < scene.restarts
                    THEN [struct |-> struct', pending |-> pending',
                          exited |-> exited', count |-> count']
                    ELSE saved

\* What _safe_get_positions() returns, with the flag that it sets.
Positions ==
    {[known |-> TRUE, qty |-> held]} \cup
    (IF May("positions_fail") THEN {[known |-> FALSE, qty |-> Flat]} ELSE {})

\* An order that nobody will look at.
Settled(i) ==
    /\ order[i].status # "PENDING_VERIFICATION"
    /\ order[i].fate \notin {"flying", "resting"}
    /\ \A l \in AllLegs : i \notin {struct.pend[l], saved.struct.pend[l],
                                   pending[l], saved.pending[l]}
    /\ \A p \in Procs : run[p].id # i

\* The table with a new order, in the place of one that is settled.
Slot == CHOOSE i \in Ids : Settled(i)
CanRecord == \E i \in Ids : Settled(i)
WithOrder(row) ==
    [i \in Ids |-> IF i = Slot THEN row
                   ELSE IF Settled(i) THEN Blank ELSE order[i]]

\* release_deployed_capital(), of one structure, stops at zero.
Released == IF deployed > 0 THEN deployed - 1 ELSE 0

\* A walk over legs, one after another.
Walk(p, m, legs, positions) ==
    Become(p, [Idle EXCEPT !.pc = "scan", !.mode = m, !.todo = legs,
                           !.known = positions.known, !.qty = positions.qty])
NoPositions == [known |-> TRUE, qty |-> Flat]

\* The broker's positions come in any order, the legs of a structure in theirs.
IsNext(p, l) ==
    /\ At(p, "scan") /\ l \in run[p].todo
    /\ run[p].mode \in {"squareoff", "orphan"} \/ \A k \in run[p].todo : l <= k

\* Leg l is dealt with.
Onward(p, l, closed) ==
    Become(p, [run[p] EXCEPT !.pc = "scan", !.todo = @ \ {l}, !.at = NoLeg,
                             !.id = NoOrder, !.qty[l] = 0,
                             !.ok = IF closed THEN @ \cup {l} ELSE @])

WalkDone(p, m) == At(p, "scan") /\ In(p, m) /\ run[p].todo = {}

\* After the exits the cycle goes on to its entries.
Leave(p) ==
    /\ lock' = IF lock = p THEN NoOne ELSE lock
    /\ Become(p, [Idle EXCEPT
                    !.pc = IF p = Cycle /\ In(p, "exit") THEN "entries" ELSE "idle"])

-----------------------------------------------------------------------------
(* The minute job up to the exits, and the ten-second job.                 *)

StartCycle ==
    /\ clock = "open" /\ At(Cycle, "idle")
    /\ Goto(Cycle, "verify")
    /\ UNCHANGED <<brokerVars, engineVars, lock, worldVars, alerted>>

\* expire_stale_orders(): an order in doubt is looked up.
Verify(i) ==
    /\ At(Cycle, "verify")
    /\ order[i].status = "PENDING_VERIFICATION"
    /\ order' = IF order[i].fate = "filled"
                THEN [order EXCEPT ![i].status = "OPEN"]
                ELSE [order EXCEPT ![i].status = "FAILED", ![i].fate = "lost"]
    /\ UNCHANGED <<held, gtt, engineVars, lock, run, worldVars, alerted>>

\* A leg that still waits for its price is cancelled, and not sent again.
ExpireStale(i) ==
    /\ At(Cycle, "verify")
    /\ order[i].fate = "resting"
    /\ order' = [order EXCEPT ![i] = Blank]
    /\ UNCHANGED <<held, gtt, engineVars, lock, run, worldVars, alerted>>

\* The cycle waits for the lock.
TakeLock ==
    /\ At(Cycle, "verify")
    /\ lock = NoOne /\ lock' = Cycle
    /\ Goto(Cycle, "check")
    /\ UNCHANGED <<brokerVars, engineVars, worldVars, alerted>>

\* The scheduler is not started before the engine has restored its state (lifespan()).
Restoring ==
    \/ run[Cycle].pc \in {"restore", "rebuild", "restored"}
    \/ run[Cycle].mode \in {"orphan", "flatten"}

\* The ten-second job passes when it is taken.
FastJob ==
    /\ May("fast") /\ At(Fast, "idle") /\ ~Restoring
    /\ clock = "open" /\ struct.tracked
    /\ lock = NoOne /\ lock' = Fast
    /\ Goto(Fast, "check")
    /\ UNCHANGED <<brokerVars, engineVars, worldVars, alerted>>

\* Below the minimum of days to expiry there is always a reason to exit.
NoExitReason(p) ==
    /\ At(p, "check")
    /\ struct.tracked => dte = "far"
    /\ Leave(p)
    /\ UNCHANGED <<brokerVars, engineVars, worldVars, alerted>>

\* A rule says exit, and the positions are read.
ExitReason(p) ==
    /\ At(p, "check") /\ struct.tracked
    /\ \E positions \in Positions : Walk(p, "exit", Legs, positions)
    /\ UNCHANGED <<brokerVars, engineVars, lock, worldVars, alerted>>

-----------------------------------------------------------------------------
(* Closing one leg: _close_leg(), and its copies in the other modes.       *)

\* Mutant: positions that could not be read count as none.
CountsAsClosedUnknown(p, l) == l \in struct.done \/ run[p].qty[l] = 0

\* It has been closed before, or the broker shows no position.
CountsAsClosed(p, l) ==
    l \in struct.done \/ (run[p].known /\ run[p].qty[l] = 0)

LegIsClosed(p, l) ==
    /\ IsNext(p, l) /\ In(p, "exit")
    /\ CountsAsClosed(p, l)
    /\ Onward(p, l, TRUE)
    /\ UNCHANGED <<brokerVars, engineVars, lock, worldVars, alerted>>

\* The exits and the square-off remember their orders in doubt apart.
InDoubt(p, l) == CASE In(p, "exit") -> struct.pend[l]
                   [] In(p, "squareoff") -> pending[l]
                   [] OTHER -> NoOrder

CloseLeg(p, l) ==
    /\ IsNext(p, l) /\ ~In(p, "entry")
    /\ In(p, "exit") => ~CountsAsClosed(p, l)
    /\ Become(p, [run[p] EXCEPT
                    !.at = l, !.id = InDoubt(p, l),
                    !.pc = IF InDoubt(p, l) = NoOrder THEN "place" ELSE "resolve"])
    /\ UNCHANGED <<brokerVars, engineVars, lock, worldVars, alerted>>

\* The order that was in doubt is no longer remembered.
Forget(p, l) ==
    IF In(p, "exit")
    THEN /\ struct' = [struct EXCEPT !.pend[l] = NoOrder]
         /\ UNCHANGED <<pending, exited, count, saved>>
    ELSE /\ pending' = [pending EXCEPT ![l] = NoOrder]
         /\ UNCHANGED <<struct, exited, count>>
         /\ Persist

\* Mutant: an order that failed is waited for.
ResolveWaits(p) ==
    /\ At(p, "resolve")
    /\ LET l == run[p].at IN
       IF order[run[p].id].status = "OPEN"
       THEN Forget(p, l) /\ Onward(p, l, TRUE)
       ELSE Onward(p, l, FALSE) /\ UNCHANGED <<memoryVars, saved>>
    /\ UNCHANGED <<brokerVars, deployed, lock, worldVars, alerted>>

\* _resolve_pending_exit_order(): an order that failed is sent again.
Resolve(p) ==
    /\ At(p, "resolve")
    /\ LET l == run[p].at
           status == order[run[p].id].status
       IN  IF status = "PENDING_VERIFICATION"
           THEN Onward(p, l, FALSE) /\ UNCHANGED <<memoryVars, saved>>
           ELSE /\ Forget(p, l)
                /\ IF status = "FAILED"
                   THEN Become(p, [run[p] EXCEPT !.pc = "place", !.id = NoOrder])
                   ELSE Onward(p, l, TRUE)
    /\ UNCHANGED <<brokerVars, deployed, lock, worldVars, alerted>>

\* What the order at leg l buys.  A structure's leg is opened and closed by the
\* lot, the rest by what the broker says is held.
Lots(p) == LET l == run[p].at IN
    CASE In(p, "entry") -> Opening(l)
      [] run[p].mode \in {"exit", "unwind"} -> -Opening(l)
      [] OTHER -> -run[p].qty[l]

Place(p) ==
    /\ At(p, "place")
    /\ Abs(held[run[p].at] + Lots(p)) <= MaxHeld
    /\ Goto(p, "sent")
    /\ UNCHANGED <<brokerVars, engineVars, lock, worldVars, alerted>>

Sent(p) == At(p, "sent") /\ ~In(p, "entry")

\* Any status but a bad one counts as closed.
CloseTaken(p) ==
    /\ Sent(p)
    /\ held' = [held EXCEPT ![run[p].at] = @ + Lots(p)]
    /\ Onward(p, run[p].at, TRUE)
    /\ UNCHANGED <<order, gtt, engineVars, lock, worldVars, alerted>>

\* An unwind that fails is reported to the operator.
CloseFailed(p) ==
    /\ Sent(p) /\ May("exit_fails")
    /\ Onward(p, run[p].at, FALSE)
    /\ alerted' = (alerted \/ In(p, "unwind"))
    /\ UNCHANGED <<brokerVars, engineVars, lock, worldVars>>

\* The answer is lost, and perhaps the request, which may be late as well.
DoubtfulRow(p) ==
    \E fate \in {"filled", "flying", "lost"} :
        /\ order' = WithOrder([leg |-> run[p].at, lots |-> Lots(p),
                               status |-> "PENDING_VERIFICATION", fate |-> fate])
        /\ held' = IF fate = "filled" THEN [held EXCEPT ![run[p].at] = @ + Lots(p)]
                   ELSE held

\* An exit remembers the order in the structure, to be saved at its end, and the
\* square-off in a dictionary of its own.  The unwind of a spread takes the
\* order for good; that of a condor reports it.
CloseDoubtful(p) ==
    /\ Sent(p) /\ May("exit_doubtful") /\ CanRecord
    /\ DoubtfulRow(p)
    /\ LET l == run[p].at IN
       /\ CASE In(p, "exit") ->
                 /\ struct' = [struct EXCEPT !.pend[l] = Slot]
                 /\ UNCHANGED <<pending, exited, count, saved>>
            [] In(p, "squareoff") ->
                 /\ pending' = [pending EXCEPT ![l] = Slot]
                 /\ UNCHANGED <<struct, exited, count>>
                 /\ Persist
            [] OTHER -> UNCHANGED <<memoryVars, saved>>
       /\ Onward(p, l, In(p, "unwind") /\ scene.kind = "spread")
    /\ alerted' = (alerted \/ (In(p, "unwind") /\ scene.kind = "condor"))
    /\ UNCHANGED <<gtt, deployed, lock, worldVars>>

-----------------------------------------------------------------------------
(* The end of an exit, written twice in the code: for a spread, with its   *)
(* two legs, and for a condor, with its four.                              *)

\* _cancel_gtt() of these legs, as far as their ids are known.
CancelStops(legs) == gtt' = gtt \ (legs \cap struct.stops)

\* Mutant: what has been closed is not remembered.
ExitPartlyForgets(kind, p) ==
    /\ scene.kind = kind
    /\ WalkDone(p, "exit") /\ run[p].ok # Legs
    /\ CancelStops(run[p].ok)
    /\ struct' = [struct EXCEPT !.stops = @ \ run[p].ok]
    /\ UNCHANGED <<pending, exited, count>>
    /\ Persist
    /\ Leave(p)
    /\ UNCHANGED <<held, order, deployed, worldVars, alerted>>

\* Mutant: the stop order of a closed leg stays.
ExitPartlyKeepsStops(kind, p) ==
    /\ scene.kind = kind
    /\ WalkDone(p, "exit") /\ run[p].ok # Legs
    /\ struct' = [struct EXCEPT !.done = @ \cup run[p].ok]
    /\ UNCHANGED <<gtt, pending, exited, count>>
    /\ Persist
    /\ Leave(p)
    /\ UNCHANGED <<held, order, deployed, worldVars, alerted>>

\* Some leg is still open: what has been closed is remembered, and its stop
\* order cancelled.
ExitPartly(kind, p) ==
    /\ scene.kind = kind
    /\ WalkDone(p, "exit") /\ run[p].ok # Legs
    /\ CancelStops(run[p].ok)
    /\ struct' = [struct EXCEPT !.done = @ \cup run[p].ok, !.stops = @ \ run[p].ok]
    /\ UNCHANGED <<pending, exited, count>>
    /\ Persist
    /\ Leave(p)
    /\ UNCHANGED <<held, order, deployed, worldVars, alerted>>

SpreadExitPartly(p) == ExitPartly("spread", p)
CondorExitPartly(p) == ExitPartly("condor", p)

\* Mutant: the capital is not released.
ExitFullyUnreleased(kind, p) ==
    /\ scene.kind = kind
    /\ WalkDone(p, "exit") /\ run[p].ok = Legs
    /\ CancelStops(Legs)
    /\ Goto(p, "drop")
    /\ UNCHANGED <<held, order, memoryVars, saved, deployed, lock, worldVars, alerted>>

\* All legs are closed: the capital, the journal, and the stop orders.
ExitFully(kind, p) ==
    /\ scene.kind = kind
    /\ WalkDone(p, "exit") /\ run[p].ok = Legs
    /\ deployed' = Released
    /\ CancelStops(Legs)
    /\ Goto(p, "drop")
    /\ UNCHANGED <<held, order, memoryVars, saved, lock, worldVars, alerted>>

SpreadExitFully(p) == ExitFully("spread", p)
CondorExitFully(p) == ExitFully("condor", p)

\* The structure is deleted; after a loss the underlying is left alone for the
\* day.  If another coroutine has deleted it, this one ends with a KeyError.
Drop(p) ==
    /\ At(p, "drop")
    /\ IF struct.tracked
       THEN /\ struct' = NoStruct
            /\ exited' \in {exited, exited \/ In(p, "exit")}
            /\ UNCHANGED <<pending, count>>
            /\ Persist
       ELSE UNCHANGED <<memoryVars, saved>>
    /\ Leave(p)
    /\ UNCHANGED <<brokerVars, deployed, worldVars, alerted>>

-----------------------------------------------------------------------------
(* The square-off, which does not take the lock.                           *)

\* Its own days to expiry decide, not those of the current month.
EndsToday == struct.tracked /\ dte = "last"

\* Mutant: only a structure that ends today is closed.
SquareOffTracked ==
    /\ clock = "squareoff" /\ At(Cycle, "idle")
    /\ \E positions \in Positions :
        Become(Cycle, [Idle EXCEPT
            !.pc = "scan", !.mode = "squareoff", !.due = EndsToday,
            !.known = positions.known, !.qty = positions.qty,
            !.todo = IF EndsToday THEN {l \in Legs : positions.qty[l] # 0} ELSE {}])
    /\ UNCHANGED <<brokerVars, engineVars, lock, worldVars, alerted>>

\* A structure that does not end today keeps its legs.
SquareOff ==
    /\ clock = "squareoff" /\ At(Cycle, "idle")
    /\ \E positions \in Positions :
        Become(Cycle, [Idle EXCEPT
            !.pc = "scan", !.mode = "squareoff", !.due = EndsToday,
            !.known = positions.known, !.qty = positions.qty,
            !.todo = IF struct.tracked /\ ~EndsToday THEN {}
                     ELSE {l \in Legs : positions.qty[l] # 0}])
    /\ UNCHANGED <<brokerVars, engineVars, lock, worldVars, alerted>>

\* A structure that ends today is dropped if each of its legs was closed in this
\* very cycle, and reported if not.
SquareOffStructure(kind) ==
    /\ scene.kind = kind
    /\ WalkDone(Cycle, "squareoff")
    /\ run[Cycle].due /\ struct.tracked
    /\ run[Cycle].ok = Legs
    /\ CancelStops(Legs)
    /\ deployed' = Released
    /\ Goto(Cycle, "drop")
    /\ UNCHANGED <<held, order, memoryVars, saved, lock, worldVars, alerted>>

SquareOffSpread == SquareOffStructure("spread")
SquareOffCondor == SquareOffStructure("condor")

SquareOffDone ==
    /\ WalkDone(Cycle, "squareoff")
    /\ ~(run[Cycle].due /\ struct.tracked /\ run[Cycle].ok = Legs)
    /\ alerted' = (alerted \/ (run[Cycle].due /\ struct.tracked))
    /\ UNCHANGED memoryVars
    /\ Persist
    /\ Become(Cycle, Idle)
    /\ UNCHANGED <<brokerVars, deployed, lock, worldVars>>

-----------------------------------------------------------------------------
(* An entry: _process_credit_spread() and _process_iron_condor().          *)

NoEntry ==
    /\ At(Cycle, "entries")
    /\ Become(Cycle, Idle)
    /\ UNCHANGED <<brokerVars, engineVars, lock, worldVars, alerted>>

\* All gates are passed.  The expiry chosen is weeks away; bound: its contracts
\* are ones in which nothing has been left behind.
Enter ==
    /\ At(Cycle, "entries")
    /\ held = Flat /\ gtt = {} /\ \A i \in Ids : Settled(i)
    /\ ~struct.tracked /\ ~exited /\ count < MaxDailyOrders
    /\ Walk(Cycle, "entry", Legs, NoPositions)
    /\ dte' = "far"
    /\ UNCHANGED <<brokerVars, engineVars, lock, scene, clock, restarts, nights,
                   alerted>>

PlaceLeg(l) ==
    /\ IsNext(Cycle, l) /\ In(Cycle, "entry")
    /\ Become(Cycle, [run[Cycle] EXCEPT !.at = l, !.pc = "sent"])
    /\ UNCHANGED <<brokerVars, engineVars, lock, worldVars, alerted>>

\* The legs that were placed are taken back.
Unwind == Walk(Cycle, "unwind", run[Cycle].ok, NoPositions)

\* The risk manager refuses it, and it is not tried again today: of a spread this
\* holds for the first leg, of a condor for any.
LegRefused(l) ==
    /\ IsNext(Cycle, l) /\ In(Cycle, "entry") /\ May("entry_fails")
    /\ exited' = (exited \/ l = 1 \/ scene.kind = "condor")
    /\ Unwind
    /\ UNCHANGED <<brokerVars, struct, pending, count, saved, deployed, lock,
                   worldVars, alerted>>

EntrySent(kind) == At(Cycle, "sent") /\ In(Cycle, "entry") /\ scene.kind = kind

LegTaken(kind) ==
    /\ EntrySent(kind)
    /\ \/ /\ held' = [held EXCEPT ![run[Cycle].at] = @ + Lots(Cycle)]
          /\ UNCHANGED order
       \/ /\ May("entries_rest") /\ CanRecord
          /\ order' = WithOrder([leg |-> run[Cycle].at, lots |-> Lots(Cycle),
                                 status |-> "OPEN", fate |-> "resting"])
          /\ UNCHANGED held
    /\ Onward(Cycle, run[Cycle].at, TRUE)
    /\ UNCHANGED <<gtt, engineVars, lock, worldVars, alerted>>

SpreadLegTaken == LegTaken("spread")
CondorLegTaken == LegTaken("condor")

\* Mutant: the legs that were placed stay.
LegNotTakenStays(kind) ==
    /\ EntrySent(kind)
    /\ \/ May("entry_fails") /\ UNCHANGED <<order, held>>
       \/ May("entry_doubtful") /\ CanRecord /\ DoubtfulRow(Cycle)
    /\ Become(Cycle, Idle)
    /\ UNCHANGED <<gtt, engineVars, lock, worldVars, alerted>>

\* Any status but OPEN ends the entry, also that of an order in doubt.
LegNotTaken(kind) ==
    /\ EntrySent(kind)
    /\ \/ May("entry_fails") /\ UNCHANGED <<order, held>>
       \/ May("entry_doubtful") /\ CanRecord /\ DoubtfulRow(Cycle)
    /\ Unwind
    /\ UNCHANGED <<gtt, engineVars, lock, worldVars, alerted>>

SpreadLegNotTaken == LegNotTaken("spread")
CondorLegNotTaken == LegNotTaken("condor")

\* After a spread has been taken back the underlying is left alone today,
\* except when that failed.
UnwindDone ==
    /\ WalkDone(Cycle, "unwind")
    /\ exited' = (exited \/ (scene.kind = "spread" /\ run[Cycle].ok = {1}))
    /\ Become(Cycle, Idle)
    /\ UNCHANGED <<brokerVars, struct, pending, count, saved, deployed, lock,
                   worldVars, alerted>>

\* _log_trade_open(), and the capital.
Book(kind) ==
    /\ scene.kind = kind
    /\ WalkDone(Cycle, "entry")
    /\ count' = count + Cardinality(Legs)
    /\ deployed' = deployed + 1
    /\ Goto(Cycle, "booked")
    /\ UNCHANGED <<brokerVars, struct, pending, exited, saved, lock, worldVars, alerted>>

BookSpread == Book("spread")
BookCondor == Book("condor")

\* Mutant: the hedges get stop orders too.
PlaceStopsForAll ==
    /\ At(Cycle, "booked")
    /\ \E stops \in {{}, Legs} :
        /\ gtt' = gtt \cup stops
        /\ Become(Cycle, [run[Cycle] EXCEPT !.pc = "track", !.ok = stops])
    /\ UNCHANGED <<held, order, engineVars, lock, worldVars, alerted>>

\* _place_gtt_backstop(), which may fail, for each short leg.
PlaceStops ==
    /\ At(Cycle, "booked")
    /\ \E stops \in {{}, Shorts} :
        /\ gtt' = gtt \cup stops
        /\ Become(Cycle, [run[Cycle] EXCEPT !.pc = "track", !.ok = stops])
    /\ UNCHANGED <<held, order, engineVars, lock, worldVars, alerted>>

\* Under the lock the structure is tracked.
Track(kind) ==
    /\ scene.kind = kind
    /\ At(Cycle, "track") /\ lock = NoOne
    /\ struct' = [NoStruct EXCEPT !.tracked = TRUE, !.stops = run[Cycle].ok]
    /\ UNCHANGED <<pending, exited, count>>
    /\ Persist
    /\ Become(Cycle, Idle)
    /\ UNCHANGED <<brokerVars, deployed, lock, worldVars, alerted>>

TrackSpread == Track("spread")
TrackCondor == Track("condor")

-----------------------------------------------------------------------------
(* The exchange and the clock.                                             *)

Arrives(i) ==
    /\ clock # "closed"
    /\ order' = [order EXCEPT ![i].fate = "filled"]
    /\ held' = [held EXCEPT ![order[i].leg] = @ + order[i].lots]
    /\ UNCHANGED <<gtt, engineVars, lock, run, worldVars, alerted>>

\* A request that was given up arrives late.
Land(i) == order[i].fate = "flying" /\ Arrives(i)

Fill(i) == order[i].fate = "resting" /\ Arrives(i)

\* The price of a short leg jumps: its stop order buys it back.
StopFires(l) ==
    /\ May("gtt_fires") /\ l \in gtt /\ clock # "closed"
    /\ held[l] < MaxHeld
    /\ gtt' = gtt \ {l}
    /\ held' = [held EXCEPT ![l] = @ + 1]
    /\ UNCHANGED <<order, engineVars, lock, run, worldVars, alerted>>

LateInTheDay ==
    /\ clock # "closed"
    /\ clock' = IF clock = "open" THEN "squareoff" ELSE "closed"
    /\ UNCHANGED <<brokerVars, engineVars, lock, run, scene, dte, restarts, nights,
                   alerted>>

\* What rests at the exchange, or is on its way to it.
AtExchange(fate) ==
    [i \in Ids |-> IF order[i].fate \in {"resting", "flying"}
                   THEN [order[i] EXCEPT !.fate = fate] ELSE order[i]]

\* The resets of the evening and on_market_open().  What ended yesterday is gone,
\* and what rests at the exchange ends with the day.
NextDay ==
    /\ clock = "closed" /\ clock' = "open" /\ Quiet
    /\ nights < scene.nights /\ nights' = nights + 1
    /\ \/ dte = "far" /\ dte' \in {"far", "near"}
       \/ dte = "near" /\ dte' \in {"near", "last"}
       \/ dte = "last" /\ UNCHANGED dte
    /\ IF dte = "last" THEN held' = Flat /\ gtt' = {} ELSE UNCHANGED <<held, gtt>>
    /\ exited' = FALSE /\ count' = 0
    /\ saved' = [saved EXCEPT !.exited = FALSE, !.count = 0]
    /\ deployed' = Elsewhere + (IF struct.tracked THEN 1 ELSE 0)
    /\ order' = AtExchange("lost")
    /\ UNCHANGED <<struct, pending, lock, run, scene, restarts, alerted>>

-----------------------------------------------------------------------------
(* A restart: _restore_state() and the two reconciliations.                *)

\* An order that is being sent has arrived, or does not.
Crash ==
    /\ restarts < scene.restarts /\ restarts' = restarts + 1
    /\ \/ UNCHANGED held
       \/ \E p \in Procs :
            /\ At(p, "sent")
            /\ held' = [held EXCEPT ![run[p].at] = @ + Lots(p)]
    /\ struct' = saved.struct /\ pending' = saved.pending
    /\ exited' = saved.exited /\ count' = saved.count
    /\ deployed' = 0
    /\ lock' = NoOne
    /\ run' = [p \in Procs |-> IF p = Cycle THEN [Idle EXCEPT !.pc = "restore"]
                               ELSE Idle]
    /\ UNCHANGED <<order, gtt, saved, scene, dte, clock, nights, alerted>>

\* _reconcile_broker_positions(): what no structure tracks is closed.
FindOrphans ==
    /\ At(Cycle, "restore")
    /\ \E positions \in Positions :
        Walk(Cycle, "orphan", IF struct.tracked THEN {}
                              ELSE {l \in Legs : positions.qty[l] # 0}, positions)
    /\ UNCHANGED <<brokerVars, engineVars, lock, worldVars, alerted>>

OrphansDone ==
    /\ WalkDone(Cycle, "orphan")
    /\ Become(Cycle, [Idle EXCEPT !.pc = "rebuild"])
    /\ UNCHANGED <<brokerVars, engineVars, lock, worldVars, alerted>>

\* A stop order has fired while nobody watched: a hedge without its short leg.
LostItsShort(positions) ==
    /\ struct.tracked /\ positions.known
    /\ \E l \in Shorts : positions.qty[l] = 0 /\ positions.qty[l + 1] # 0

\* _reconcile_partially_closed_multi_leg_legs(): all its legs are closed.
FindHalfClosed ==
    /\ At(Cycle, "rebuild")
    /\ \E positions \in Positions :
        IF LostItsShort(positions)
        THEN Walk(Cycle, "flatten", {l \in Legs : positions.qty[l] # 0}, positions)
        ELSE Goto(Cycle, "restored")
    /\ UNCHANGED <<brokerVars, engineVars, lock, worldVars, alerted>>

\* The structure goes, whatever has become of the orders; Redis keeps it until
\* the next time something is saved.
HalfClosedDone(kind) ==
    /\ scene.kind = kind
    /\ WalkDone(Cycle, "flatten")
    /\ CancelStops(Legs)
    /\ struct' = NoStruct
    /\ Become(Cycle, [Idle EXCEPT !.pc = "restored"])
    /\ UNCHANGED <<held, order, pending, exited, count, saved, deployed, lock,
                   worldVars, alerted>>

HalfSpreadDone == HalfClosedDone("spread")
HalfCondorDone == HalfClosedDone("condor")

\* _rebuild_deployed_capital().
Restored ==
    /\ At(Cycle, "restored")
    /\ deployed' = Elsewhere + (IF struct.tracked THEN 1 ELSE 0)
    /\ Become(Cycle, Idle)
    /\ UNCHANGED <<brokerVars, memoryVars, saved, lock, worldVars, alerted>>

-----------------------------------------------------------------------------
LegStep(p) ==
    \/ \E l \in Legs : LegIsClosed(p, l) \/ CloseLeg(p, l)
    \/ Resolve(p) \/ Place(p) \/ CloseTaken(p) \/ CloseFailed(p)
    \/ CloseDoubtful(p)

ExitStep(p) ==
    \/ NoExitReason(p) \/ ExitReason(p) \/ Drop(p)
    \/ SpreadExitPartly(p) \/ CondorExitPartly(p)
    \/ SpreadExitFully(p) \/ CondorExitFully(p)

SquareOffStep ==
    SquareOff \/ SquareOffSpread \/ SquareOffCondor \/ SquareOffDone

EntryStep ==
    \/ NoEntry \/ Enter \/ \E l \in Legs : PlaceLeg(l) \/ LegRefused(l)
    \/ SpreadLegTaken \/ CondorLegTaken \/ SpreadLegNotTaken \/ CondorLegNotTaken
    \/ UnwindDone \/ BookSpread \/ BookCondor
    \/ PlaceStops \/ TrackSpread \/ TrackCondor

RestoreStep ==
    \/ FindOrphans \/ OrphansDone \/ FindHalfClosed
    \/ HalfSpreadDone \/ HalfCondorDone \/ Restored

CycleStep ==
    \/ StartCycle \/ TakeLock
    \/ SquareOffStep \/ EntryStep \/ RestoreStep
    \/ LegStep(Cycle) \/ ExitStep(Cycle)

Next ==
    \/ CycleStep
    \/ \E i \in Ids : Verify(i) \/ ExpireStale(i) \/ Land(i) \/ Fill(i)
    \/ FastJob \/ LegStep(Fast) \/ ExitStep(Fast)
    \/ \E l \in Shorts : StopFires(l)
    \/ LateInTheDay \/ NextDay \/ Crash

Spec == Init /\ [][Next]_vars

\* The scheduler calls the cycle again and again.  The broker does not refuse a
\* closing order for ever, nor keep an order in doubt for ever.
FairSpec ==
    /\ Spec
    /\ WF_vars(CycleStep)
    /\ WF_vars(LegStep(Fast) \/ ExitStep(Fast))
    /\ SF_vars(CloseTaken(Cycle)) /\ SF_vars(CloseTaken(Fast))
    /\ \A i \in Ids : SF_vars(Verify(i))

-----------------------------------------------------------------------------
(* What must hold.                                                         *)

\* A leg of a structure that is still tracked is never closed twice, whatever
\* exits failed or are in doubt: a short leg is never bought to a long position,
\* nor a hedge sold short (_close_leg()).  A stop order that fires during the
\* exit does that.
NeverOverclosed ==
    struct.tracked /\ ~May("gtt_fires") => \A l \in Legs : Opening(l) * held[l] >= 0

\* The capital of a structure is counted exactly as long as it is tracked: an
\* entry adds it once, one of the ways out releases it once, and a restart
\* counts again (add_deployed_capital(), release_deployed_capital()).
OneCount == Quiet => deployed = Elsewhere + (IF struct.tracked THEN 1 ELSE 0)

\* A stop order stays at the exchange only as long as the short leg it guards
\* has not been closed by the engine, which would otherwise buy that leg again.
\* A restart between the stop order and the structure that remembers it loses it.
StopsGuard ==
    Quiet /\ restarts = 0 => \A l \in gtt : struct.tracked /\ l \notin struct.done

\* When an entry breaks off, a short leg is not left without the operator's
\* knowing: it is taken back, or a message asks to close it by hand.  An entry in
\* doubt, or one that waits, and is filled later is not reported.
Naked(l) == held[l] < 0 /\ held[l + 1] = 0
NakedIsReported ==
    Quiet /\ restarts = 0 /\ ~struct.tracked
        /\ ~May("entry_doubtful") /\ ~May("entries_rest") =>
        \A l \in Shorts : Naked(l) => alerted

\* A structure is deleted by an exit or a square-off only when the broker holds
\* none of its legs any more.  (A reconciliation deletes it without looking, and
\* an entry that still waits for its price counts as a closed leg.)
DroppedIsFlat ==
    [][\A p \in Procs :
        At(p, "drop") /\ ~In(p, "flatten") /\ struct.tracked /\ ~struct'.tracked
        /\ ~May("entries_rest") /\ ~May("gtt_fires") =>
            \A l \in Legs : held[l] = 0]_vars

\* A structure with too few days left is closed while the market is open,
\* however many of its closing orders fail or are in doubt.
DueIsClosed ==
    struct.tracked /\ dte = "near" /\ clock = "open" ~>
        ~struct.tracked \/ clock # "open"

\* A leg that belongs to no structure, for instance of an entry in doubt that
\* was filled after all, is closed by the square-off before the day ends, if
\* its orders are not in doubt.
LeftoversAreClosed ==
    ~May("exit_doubtful") /\ ~struct.tracked /\ clock = "squareoff"
        /\ (\E l \in Legs : held[l] # 0)
    ~> clock # "squareoff" \/ held = Flat \/ struct.tracked
=============================================================================
