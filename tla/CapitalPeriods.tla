--------------------------- MODULE CapitalPeriods ----------------------------
(***************************************************************************)
(* src/portfolio/capital_periods.py: expiry-to-expiry capital periods.     *)
(* rollover_if_needed() runs at every start of the process and as a daily  *)
(* job; it closes the periods that are over, carries their result into the *)
(* next one and hands the capital to the risk manager.                     *)
(*                                                                         *)
(* A process is one call of rollover_if_needed(), with an action for each  *)
(* of its database sessions: the calls exclude each other with a lock, but *)
(* a session that fails, or a crash, leaves what the earlier ones wrote.   *)
(***************************************************************************)
EXTENDS Integers, Sequences

CONSTANTS
    LastDay,         \* bound: the days are 1 .. LastDay
    Months,          \* the calendar months, consecutive numbers
    MonthOf,         \* the month of each day
    Expiry,          \* the expiry day of each month
    Amounts,         \* what the trades of one day may earn
    Default,         \* settings.INITIAL_CAPITAL
    Legacy,          \* the table at the start: empty, or its one open period
    Startup,         \* the call in the lifespan of the process
    DailyJob,        \* the call of the 08:00 job
    Faults           \* a subset of {"db_fails", "crash"}

Days == 1 .. LastDay
Calls == {Startup, DailyJob}
NoCall == "no call"

Period == [start : Int, end : Nat, capital : Int, closed : BOOLEAN,
           pnl : Int, ending : Int]

\* A day comes after the expiry of the month before, and before that of the
\* month after.
ASSUME CalendarOK ==
    /\ LastDay \in Nat \ {0}
    /\ Months \subseteq Int
    /\ MonthOf \in [Days -> Months]
    /\ Expiry \in [Months -> Int]
    /\ \A d \in Days :
          LET m == MonthOf[d] IN
          /\ m - 1 \in Months /\ m + 1 \in Months
          /\ Expiry[m - 1] < d /\ d <= Expiry[m + 1]
    /\ \A m, n \in Months : m < n => Expiry[m] < Expiry[n]

\* The row at the start, if any, was made on an earlier day, or on the first.
ASSUME CapitalOK ==
    /\ Amounts \subseteq Int
    /\ Default \in Int /\ Default > 0
    /\ Legacy \in Seq(Period) /\ Len(Legacy) <= 1
    /\ \A i \in DOMAIN Legacy :
          /\ ~Legacy[i].closed
          /\ Legacy[i].start <= Legacy[i].end
          /\ \E m \in Months : Legacy[i].end = Expiry[m]
          /\ Legacy[i].start <= 1
    /\ Startup # DailyJob /\ NoCall \notin Calls
    /\ Faults \subseteq {"db_fails", "crash"}

VARIABLES
    today,          \* the calendar
    journal,        \* trade_journal: what all trades earned that have exited up
                    \* to the end of each day
    periods,        \* capital_periods, in the order of their ids
    riskCapital,    \* RiskManager.initial_capital
    lock,           \* _rollover_lock
    pc, day,        \* of each call, with the day it was made
    active,         \* the period a call works on, 0 if none
    earned,         \* the sum that _close_period() has read
    next            \* the row that _create_period() is about to insert

callVars == <<lock, pc, day, active, earned, next>>
vars == <<today, journal, periods, riskCapital, callVars>>

NewRow(start, end, capital) ==
    [start |-> start, end |-> end, capital |-> capital, closed |-> FALSE,
     pnl |-> 0, ending |-> 0]
NoRow == NewRow(0, 0, 0)

TypeOK ==
    /\ today \in Days
    /\ journal \in [0 .. LastDay -> Int]
    /\ periods \in Seq(Period)
    /\ riskCapital \in Int
    /\ lock \in Calls \cup {NoCall}
    /\ pc \in [Calls -> {"idle", "wait", "get", "sum", "close", "create",
                         "heal"}]
    /\ day \in [Calls -> Days]
    /\ active \in [Calls -> Nat]
    /\ earned \in [Calls -> Int]
    /\ next \in [Calls -> Period]

Init ==
    /\ today = 1
    /\ journal = [d \in 0 .. LastDay |-> 0]
    /\ periods = Legacy
    /\ riskCapital = Default
    /\ lock = NoCall
    /\ pc = [c \in Calls |-> IF c = Startup THEN "wait" ELSE "idle"]
    /\ day = [c \in Calls |-> 1]
    /\ active = [c \in Calls |-> 0]
    /\ earned = [c \in Calls |-> 0]
    /\ next = [c \in Calls |-> NoRow]

-----------------------------------------------------------------------------
\* get_capital_period_bounds(): the expiry on or after day d, and the day
\* after the expiry of the month before that one.
ClosingMonth(d) ==
    IF Expiry[MonthOf[d]] < d THEN MonthOf[d] + 1 ELSE MonthOf[d]

PeriodEnd(d) == Expiry[ClosingMonth(d)]
PeriodStart(d) == Expiry[ClosingMonth(d) - 1] + 1

\* _realized_pnl_for(): all that exited between two days, both included.
EarnedBy(d) == IF d < 0 THEN 0 ELSE journal[d]
RealizedPnl(start, end) == EarnedBy(end) - EarnedBy(start - 1)

Open(ps) == {i \in DOMAIN ps : ~ps[i].closed}

\* get_active_period(): the open period that starts last, over or not.
LatestOpen(ps) ==
    {i \in Open(ps) : \A j \in Open(ps) : ps[j].start <= ps[i].start}

\* What the next period starts with.
Carried(ending) == IF ending <= 0 THEN Default ELSE ending

Goto(c, label) == pc' = [pc EXCEPT ![c] = label]

\* A call returns, and its local variables are gone.
Leave(c) ==
    /\ Goto(c, "idle")
    /\ lock' = NoCall
    /\ active' = [active EXCEPT ![c] = 0]
    /\ earned' = [earned EXCEPT ![c] = 0]
    /\ next' = [next EXCEPT ![c] = NoRow]

\* ... or goes on with row i.
GoOn(c, i, label) ==
    /\ Goto(c, label)
    /\ active' = [active EXCEPT ![c] = i]
    /\ next' = [next EXCEPT ![c] = NoRow]
    /\ UNCHANGED <<lock, riskCapital, earned>>

\* Mutant: only a call that rolled over applies the capital.
FinishIfRolled(c, capital) ==
    /\ Leave(c)
    /\ riskCapital' = IF pc[c] = "create" THEN capital ELSE riskCapital

\* The end of a call: the lock is released and the capital applied.
Finish(c, capital) ==
    /\ Leave(c)
    /\ riskCapital' = capital

\* Mutant: the period is closed on its last day.
OverdueEarly(c, p) == p.end <= day[c]

Overdue(c, p) == p.end < day[c]

\* Mutant: a period that starts with nothing is left as it is.
NeedsFloorNever(p) == FALSE

NeedsFloor(p) == p.capital <= 0

\* The loop: close the active period if it is over, else floor it, else done.
Continue(c, i, p) ==
    \/ Overdue(c, p) /\ GoOn(c, i, "sum")
    \/ ~Overdue(c, p) /\ NeedsFloor(p) /\ GoOn(c, i, "heal")
    \/ ~Overdue(c, p) /\ ~NeedsFloor(p) /\ Finish(c, p.capital)

-----------------------------------------------------------------------------

\* Mutant: the job is left out while a period is open.
CallIfNone ==
    /\ pc[DailyJob] = "idle"
    /\ Open(periods) = {}
    /\ Goto(DailyJob, "wait")
    /\ day' = [day EXCEPT ![DailyJob] = today]
    /\ UNCHANGED <<today, journal, periods, riskCapital, lock, active, earned,
                   next>>

\* The daily job fires; the lifespan calls once, at the start.
Call ==
    /\ pc[DailyJob] = "idle"
    /\ Goto(DailyJob, "wait")
    /\ day' = [day EXCEPT ![DailyJob] = today]
    /\ UNCHANGED <<today, journal, periods, riskCapital, lock, active, earned,
                   next>>

\* Mutant: no lock.
EnterUnlocked(c) ==
    /\ pc[c] = "wait"
    /\ Goto(c, "get")
    /\ UNCHANGED <<today, journal, periods, riskCapital, lock, day, active,
                   earned, next>>

Enter(c) ==
    /\ pc[c] = "wait"
    /\ lock = NoCall
    /\ lock' = c
    /\ Goto(c, "get")
    /\ UNCHANGED <<today, journal, periods, riskCapital, day, active, earned,
                   next>>

\* The first session: with no open period, one that covers the day of the call
\* is about to be inserted with the configured capital.
Get(c) ==
    /\ pc[c] = "get"
    /\ \/ /\ LatestOpen(periods) = {}
          /\ next' = [next EXCEPT ![c] =
                 NewRow(PeriodStart(day[c]), PeriodEnd(day[c]), Default)]
          /\ Goto(c, "create")
          /\ UNCHANGED <<lock, riskCapital, active, earned>>
       \/ \E i \in LatestOpen(periods) : Continue(c, i, periods[i])
    /\ UNCHANGED <<today, journal, periods, day>>

SumPnl(c) ==
    /\ pc[c] = "sum"
    /\ LET p == periods[active[c]] IN
       earned' = [earned EXCEPT ![c] = RealizedPnl(p.start, p.end)]
    /\ Goto(c, "close")
    /\ UNCHANGED <<today, journal, periods, riskCapital, lock, day, active,
                   next>>

\* Mutant: the next period starts on the day the old one ends.
CloseOverlaps(c) ==
    /\ pc[c] = "close"
    /\ LET p == periods[active[c]]
           ending == p.capital + earned[c]
       IN  /\ periods' = [periods EXCEPT ![active[c]] =
                  [p EXCEPT !.closed = TRUE, !.pnl = earned[c], !.ending = ending]]
           /\ next' = [next EXCEPT ![c] =
                  NewRow(p.end, PeriodEnd(p.end + 1), Carried(ending))]
    /\ Goto(c, "create")
    /\ earned' = [earned EXCEPT ![c] = 0]
    /\ UNCHANGED <<today, journal, riskCapital, lock, day, active>>

\* The second session of _close_period(), and the row that follows.
Close(c) ==
    /\ pc[c] = "close"
    /\ LET p == periods[active[c]]
           ending == p.capital + earned[c]
       IN  /\ periods' = [periods EXCEPT ![active[c]] =
                  [p EXCEPT !.closed = TRUE, !.pnl = earned[c], !.ending = ending]]
           /\ next' = [next EXCEPT ![c] =
                  NewRow(p.end + 1, PeriodEnd(p.end + 1), Carried(ending))]
    /\ Goto(c, "create")
    /\ earned' = [earned EXCEPT ![c] = 0]
    /\ UNCHANGED <<today, journal, riskCapital, lock, day, active>>

Create(c) ==
    /\ pc[c] = "create"
    /\ periods' = Append(periods, next[c])
    /\ Continue(c, Len(periods) + 1, next[c])
    /\ UNCHANGED <<today, journal, day>>

Heal(c) ==
    /\ pc[c] = "heal"
    /\ periods' = [periods EXCEPT ![active[c]].capital = Default]
    /\ Finish(c, Default)
    /\ UNCHANGED <<today, journal, day>>

\* A session raises; _run_capital_period_rollover() logs it.
Fails(c) ==
    /\ "db_fails" \in Faults
    /\ pc[c] \in {"get", "sum", "close", "create", "heal"}
    /\ Leave(c)
    /\ UNCHANGED <<today, journal, periods, riskCapital, day>>

Rollover(c) == Enter(c) \/ Get(c) \/ SumPnl(c) \/ Close(c) \/ Create(c) \/ Heal(c)

\* _log_trade_close() stamps a trade with the time it is written.
Stamp == today

\* The bound: one trade a day.
TradeExits ==
    /\ journal[Stamp] = journal[Stamp - 1]
    /\ \E a \in Amounts :
          journal' = [d \in 0 .. LastDay |->
                         IF d < Stamp THEN journal[d] ELSE journal[d] + a]
    /\ UNCHANGED <<today, periods, riskCapital, callVars>>

DayPasses ==
    /\ today < LastDay
    /\ today' = today + 1
    /\ UNCHANGED <<journal, periods, riskCapital, callVars>>

\* A restart: the risk manager is new, and so is the lock.
Crash ==
    /\ "crash" \in Faults
    /\ riskCapital' = Default
    /\ lock' = NoCall
    /\ pc' = [c \in Calls |-> IF c = Startup THEN "wait" ELSE "idle"]
    /\ day' = [day EXCEPT ![Startup] = today]
    /\ active' = [c \in Calls |-> 0]
    /\ earned' = [c \in Calls |-> 0]
    /\ next' = [c \in Calls |-> NoRow]
    /\ UNCHANGED <<today, journal, periods>>

Next ==
    \/ Call \/ TradeExits \/ DayPasses \/ Crash
    \/ \E c \in Calls : Rollover(c) \/ Fails(c)

Spec == Init /\ [][Next]_vars

-----------------------------------------------------------------------------
\* At most one period is open, whoever calls when: what _rollover_lock is for.
OneOpenPeriod == \A i, j \in Open(periods) : i = j

\* No day is counted in two periods.
PeriodsApart ==
    \A i, j \in DOMAIN periods : i < j => periods[i].end < periods[j].start

\* The result of a closed period is that of all its trades: none is booked
\* into it after it was closed, and it is closed once.
ClosedBooksAreFinal ==
    \A i \in DOMAIN periods : periods[i].closed =>
        LET p == periods[i] IN
        /\ p.pnl = RealizedPnl(p.start, p.end)
        /\ p.ending = p.capital + p.pnl

\* Each period starts the day after the one before it, with the capital that
\* one ended with, or the configured one when nothing is left.
Compounds ==
    \A i \in DOMAIN periods : i > 1 =>
        LET before == periods[i - 1] IN
        /\ before.closed
        /\ periods[i].start = before.end + 1
        /\ periods[i].capital = IF before.ending > 0 THEN before.ending
                                                   ELSE Default

\* Between calls the risk manager works with the capital of the open period,
\* which covers the day of the last call, also after a restart.
RiskFollowsPeriod ==
    (\A c \in Calls : pc[c] = "idle") =>
        \E i \in Open(periods) :
            /\ riskCapital = periods[i].capital
            /\ \A c \in Calls : day[c] <= periods[i].end
            /\ \E c \in Calls : periods[i].start <= day[c]

\* No limit is ever computed from a capital that is not positive.
RiskCapitalIsPositive == riskCapital > 0

-----------------------------------------------------------------------------
(* Why: the inductive invariant.                                            *)

InLock == {"get", "sum", "close", "create", "heal"}

\* The lock is held by the one call that is past it.
LockIsHeld == \A c \in Calls : lock = c <=> pc[c] \in InLock

\* What a call has read is still so when it writes.
CallIsCurrent(c) ==
    /\ day[c] <= today
    /\ pc[c] \in {"sum", "close", "heal"} =>
           active[c] \in DOMAIN periods /\ Open(periods) = {active[c]}
    /\ pc[c] \in {"sum", "close"} => periods[active[c]].end < day[c]
    /\ pc[c] = "close" => earned[c] = RealizedPnl(periods[active[c]].start,
                                                  periods[active[c]].end)
    /\ pc[c] = "create" => /\ Open(periods) = {}
                           /\ ~next[c].closed
                           /\ next[c].start <= next[c].end

PeriodsAreOrdered ==
    \A i \in DOMAIN periods :
        /\ periods[i].start <= periods[i].end
        /\ periods[i].closed => periods[i].end < today

PeriodsInv ==
    /\ LockIsHeld
    /\ \A c \in Calls : CallIsCurrent(c)
    /\ PeriodsAreOrdered
    /\ OneOpenPeriod
    /\ ClosedBooksAreFinal

\* More of it holds while no session fails.  Periods end on expiries, and only the last
\* may be open; the row that is about to be inserted starts after all others, and not
\* after the day of its call; and when none is open, whoever is going to find that out
\* comes after all of them.
RowsFollow ==
    /\ PeriodsApart
    /\ \A i \in DOMAIN periods : \E m \in Months : periods[i].end = Expiry[m]
    /\ \A i \in Open(periods) :
          i = Len(periods) /\ \E c \in Calls : periods[i].start <= day[c]

NextFollows(c) ==
    pc[c] = "create" =>
        /\ \A i \in DOMAIN periods : periods[i].end < next[c].start
        /\ \E m \in Months : next[c].end = Expiry[m]
        /\ next[c].start <= day[c]

GapIsPast ==
    Open(periods) = {} /\ (\A c \in Calls : pc[c] # "create") =>
        \A c \in Calls : pc[c] \in {"wait", "get"} =>
            \A i \in DOMAIN periods : periods[i].end < day[c]

ApartInv == RowsFollow /\ (\A c \in Calls : NextFollows(c)) /\ GapIsPast

\* The open period covers the day of a call and its capital is applied, or a call is under
\* way that will see to it.
Applied ==
    \/ \E i \in Open(periods) : riskCapital = periods[i].capital
    \/ \E d \in Calls : pc[d] # "idle"

Covered(c) ==
    \/ \E i \in Open(periods) : day[c] <= periods[i].end
    \/ \E d \in Calls : pc[d] # "idle" /\ day[c] <= day[d]

\* A period that is floored is not over.
HealsItsOwn(c) ==
    pc[c] = "heal" => \A i \in Open(periods) : day[c] <= periods[i].end

FollowInv == Applied /\ \A c \in Calls : Covered(c) /\ HealsItsOwn(c)

-----------------------------------------------------------------------------
(* The job is fired every day and its calls end, in success or failure; a   *)
(* database that is asked day after day answers some time, and a process    *)
(* that restarts does not do so at the same session for ever.               *)
Fairness ==
    /\ WF_vars(Call)
    /\ WF_vars(DayPasses)
    /\ \A c \in Calls :
          /\ WF_vars(Rollover(c) \/ Fails(c))
          /\ SF_vars(Enter(c))
          /\ SF_vars(Get(c)) /\ SF_vars(SumPnl(c)) /\ SF_vars(Close(c))
          /\ SF_vars(Create(c)) /\ SF_vars(Heal(c))

FairSpec == Spec /\ Fairness

\* However many expiries the process missed, it catches up: every period that
\* is over gets closed, and one that is not is open.
CatchesUp ==
    []<>(Open(periods) # {} /\ \A i \in Open(periods) : periods[i].end >= today)
=============================================================================
