----------------------------- MODULE MCOrderRaces ------------------------------
(***************************************************************************)
(* OrderManager in three environments, and the limits of the risk manager  *)
(* over whole cycles, checked in one run: who calls, and what may happen,  *)
(* depends on the part.                                                    *)
(*   "callers": the signal cycle and POST /orders, with a broker that does *)
(*              not answer in time, rejects and cancels, and no order that *)
(*              rests long enough to be stale;                             *)
(*   "stale":   the signal cycle alone, with orders that go stale;         *)
(*   "faults":  one order of the signal cycle and its retry, cancelled by  *)
(*              DELETE /orders/{id} as well, with every fault that lets    *)
(*              answers stay true, and crashes;                            *)
(*   "limits":  RiskLimits, with orders as its own actions.                *)
(***************************************************************************)
EXTENDS MCOrderManager, TLC

CONSTANTS CallersBudget, CallersEnv, StaleBudget, StaleEnv

VARIABLES
    part,
    held, resting, lost, step, known, counted, loss, kill, limited, unseen, blind,
    due, ignored, entries, failures                               \* RiskLimits

CycleOnly(requests) ==
    [c \in Callers |-> IF c = SignalCycle THEN requests[c] ELSE {}]
StaleRequests == CycleOnly(MixedRequests)
FaultRequests == CycleOnly(AllRequests)

\* Requests, Budget and Env are those of "faults".
Both == INSTANCE OrderManager WITH
    Requests <- MixedRequests, Budget <- CallersBudget, Env <- CallersEnv
Stale == INSTANCE OrderManager WITH
    Requests <- StaleRequests, Budget <- StaleBudget, Env <- StaleEnv

\* Orders placed, and about to be, that are not retries.
FirstOrders ==
    Cardinality({o \in Rows : origin[o] = NoOrder})
      + Cardinality({c \in Callers : pc[c] \in {"check", "create"}
                                       /\ argOrigin[c] = NoOrder})

\* A call and a put of names of one sector, and a spread of a name of none.
Sectors == (call :> "Banking" @@ put :> "Banking" @@ spread :> "UNKNOWN")
Limits == INSTANCE RiskLimits WITH
    Contracts <- {call, put, spread}, Sector <- Sectors,
    Legs <- (call :> 1 @@ put :> 1 @@ spread :> 2),
    SectorCap <- 1, PositionCap <- 2, MaxEntries <- 3, MaxFaults <- 1

ASSUME LimitsAssumption == Limits!LimitsConstants

limitState == <<held, resting, lost, step, known, counted, loss, kill, limited, unseen,
                blind, due, ignored, entries, failures>>

RacesInit ==
    /\ part \in {"callers", "stale", "faults", "limits"}
    /\ Init /\ Limits!LimitsInit /\ (part = "limits" \/ ~limited)

OrdersNext ==
    \/ part = "callers" /\ Both!Next /\ UNCHANGED adminVars
    \/ part = "stale" /\ Stale!Next /\ UNCHANGED adminVars
    \/ part = "faults" /\ Next /\ FirstOrders' <= 1

RacesNext ==
    \/ OrdersNext /\ UNCHANGED <<part, limitState>>
    \/ part = "limits" /\ Limits!LimitsNext /\ UNCHANGED <<part, vars>>

RacesSpec == RacesInit /\ [][RacesNext]_<<part, vars, limitState>>

\* What a stale order has filled is not bought again by its retry, as long as the sync
\* before the retry reaches the broker (expire_stale_orders()).
BoughtOnce == part # "faults" => NeverOverfilled

\* Of an order that does not go stale, capital is released at most once, whoever of the
\* two syncs and callers finds out that it died; and what the orders hold is always
\* counted, whatever times out.
CapitalIsCounted == part = "callers" => ReleasedAtMostOnce /\ BudgetCoversExposure

\* With one caller, one entry rests on a contract, also while it is cancelled and retried.
OneRestingEntry == part = "stale" => OneRestingEntryPerContract

\* An entry keeps to the limits that validate_trade() checks, several awaits before the
\* entry it allows is counted.  The budget of a strategy, with one caller:
BudgetHolds == part = "stale" => \A s \in Strategies : deployed[s] <= StaleBudget

\* and the sector cap, the number of positions and the daily loss, from cycle to cycle.
LimitsHold ==
    BudgetHolds /\ Limits!LimitsTypeOK /\ Limits!CapsHold /\ Limits!LossIsHeeded
=============================================================================
