-------------------------- MODULE OrderProperties ---------------------------
(***************************************************************************)
(* What should hold of the order lifecycle of OrderManager.                *)
(***************************************************************************)
EXTENDS OrderManager

\* As many lots as the numbers of f add up to.
LotsIn(f) == Cardinality(UNION {{o} \X (1 .. f[o]) : o \in DOMAIN f})

\* A row in a terminal status is an order the broker can no longer fill, and
\* will not receive: expire_stale_orders(), sync_orders(), cancel_order() and
\* the timeout handler close a row only once its order is dead, or what is
\* later filled would go untracked.
ClosedRowsAreDead ==
    \A o \in Ids : status[o] \in Terminal => live[o] # "open" /\ wire[o] # "sent"

\* A closed row is right when it is written, and stays so: a terminal one is
\* never reopened, and a COMPLETED one never changes, as no coroutine writes
\* back a status it read before another one closed the row.
ClosedRowsAreFinal ==
    [][/\ ClosedRowsAreDead'
       /\ \A o \in Ids :
            /\ status[o] \in Terminal => status'[o] \in Terminal
            /\ status[o] = "COMPLETED" => status'[o] = "COMPLETED"]_vars

\* The promise of OrderLedger, with the rows as the book and the broker's
\* orders as the market.
Ledger == INSTANCE OrderLedger WITH
    Orders <- Ids,
    book   <- [o \in Ids |-> IF status[o] = "absent" THEN "absent"
                             ELSE IF status[o] \in Terminal THEN "closed"
                             ELSE "working"],
    market <- [o \in Ids |-> IF live[o] = "none" THEN "none"
                             ELSE IF live[o] = "open" THEN "resting"
                             ELSE "gone"]

ImplementsLedger == Ledger!Spec

\* The lots the broker fills for an order and its retry together never exceed
\* what was asked for: expire_stale_orders() resubmits only the remainder.
NeverOverfilled ==
    \A o \in Rows : origin[o] = NoOrder =>
        filled[o] + LotsIn([r \in {r \in Ids : origin[r] = o} |-> filled[r]])
            <= req[o].quantity

\* The duplicate guard of place_order() (step 0): one entry at most rests at
\* the broker on a contract.
OneRestingEntryPerContract ==
    \A o, p \in Ids :
        /\ live[o] = "open" /\ live[p] = "open"
        /\ ~req[o].exit /\ ~req[p].exit
        /\ req[o].symbol = req[p].symbol
        => o = p

\* An order's reserved capital is given back at most once, whoever discovers
\* that the order died: what _sync_orders_lock is for.
ReleasedAtMostOnce ==
    \A o \in Rows : released[o] <= req[o].quantity

\* What an order holds of its strategy's budget once its calls are over.
Exposure(o) ==
    IF ~TracksCapital(req[o]) THEN 0
    ELSE CASE status[o] \in {"OPEN", "COMPLETED"} -> req[o].quantity
           [] status[o] \in {"CANCELLED", "REJECTED", "EXPIRED"} -> recorded[o]
           [] OTHER -> 0

Quiet ==
    /\ \A c \in Callers : pc[c] = "idle"
    /\ \A s \in Syncers : syncPc[s] \in {"idle", "want"}
    /\ \A a \in Admins : admPc[a] = "idle"
    /\ expPc \notin {"reserve", "release"}

\* When no call is in the middle of its bookkeeping, the capital counted
\* against a strategy covers every order that holds some: validate_trade()
\* never sees a budget freer than it is.
BudgetCoversExposure ==
    Quiet => \A s \in Strategies :
        deployed[s] >=
            LotsIn([o \in {o \in Rows : req[o].strategy = s} |-> Exposure(o)])

-----------------------------------------------------------------------------
(* Why closed rows are dead, as an inductive invariant.                    *)

Tracked(o) == status[o] \in Terminal \cup {"OPEN"}

\* The table against the broker: a request in flight is PENDING, and closed
\* or filled means the same in both.
TableFollowsBroker ==
    \A o \in Ids :
        /\ status[o] = "absent" => live[o] = "none" /\ wire[o] = "idle"
        /\ wire[o] = "sent" => status[o] = "PENDING" /\ live[o] = "none"
        /\ status[o] \in Terminal => live[o] # "open"
        /\ status[o] = "COMPLETED" => live[o] = "complete"

\* place_order() works on a PENDING row of its own until it writes its fate.
CallsOwnTheirRows ==
    \A c \in Callers : pc[c] \in {"broker", "persist", "verify"} =>
        /\ status[cur[c]] = "PENDING"
        /\ pc[c] # "broker" => wire[cur[c]] # "sent"
        /\ \A d \in Callers : pc[d] \in {"broker", "persist", "verify"}
                               /\ cur[d] = cur[c] => d = c

\* What sync_orders() holds is stale only in the direction that is harmless:
\* a final status in its reply is still the broker's.
RepliesStayTrue ==
    \A s \in Syncers : \A o \in todo[s] :
        /\ Tracked(o)
        /\ syncPc[s] \in {"apply", "release"}
             /\ reply[s][o].status \in {"complete", "cancelled", "rejected"}
           => live[o] = reply[s][o].status

ExpiryIsSafe ==
    /\ expPc \in {"verify", "reserve"} =>
           \A o \in expTodo : status[o] = "PENDING_VERIFICATION"
    /\ expPc \in {"cancel", "skip", "expire", "release"} =>
           \A o \in expTodo : Tracked(o)
    /\ expPc \in {"skip", "expire", "release"} => Tracked(expCur)
    /\ expPc = "expire" => live[expCur] = "cancelled"

CancelIsSafe ==
    \A a \in Admins :
        /\ admPc[a] # "idle" => Tracked(admCur[a])
        /\ admPc[a] = "write" => live[admCur[a]] = "cancelled"

\* The inductive strengthening of ClosedRowsAreDead.
RowsInv == TableFollowsBroker /\ CallsOwnTheirRows /\ RepliesStayTrue
             /\ ExpiryIsSafe /\ CancelIsSafe

-----------------------------------------------------------------------------
(* Fairness: the scheduler restarts its jobs for ever and every await       *)
(* returns (a broker call within BROKER_TIMEOUT_SEC), hence weak fairness   *)
(* of each coroutine; asyncio.Lock is first come, first served, and a       *)
(* broker asked again and again answers some time, hence strong fairness of *)
(* taking the lock and of the broker calls that succeed; and the watchdog   *)
(* does not restart the process for ever.                                   *)
Fairness ==
    /\ \A c \in Callers : WF_vars(PlaceStep(c))
    /\ \A s \in Syncers :
         /\ WF_vars(SyncStep(s))
         /\ SF_vars(SyncSnapshot(s) \/ SyncNothingOpen(s))
         /\ SF_vars(SyncFetch(s))
    /\ WF_vars(ExpireStep)
    /\ \A o \in Ids :
         /\ SF_vars(ExpireVerify(o) /\ status'[o] # status[o])
         /\ SF_vars(ExpireCancelOk(o))
    /\ ~[]<><<Crash>>_vars

FairSpec == Spec /\ Fairness

\* An order that has rested too long leaves OPEN: no cycle skips it for ever.
StaleOrdersClose ==
    \A o \in Ids : status[o] = "OPEN" /\ o \in aged ~> status[o] # "OPEN"

\* An order whose fate was unknown is settled once the broker can be asked.
VerificationSettles ==
    \A o \in Ids :
        status[o] = "PENDING_VERIFICATION" ~> status[o] # "PENDING_VERIFICATION"

\* No order is left for ever where the next cycle would have to settle it.
OrdersSettle == StaleOrdersClose /\ VerificationSettles
=============================================================================
