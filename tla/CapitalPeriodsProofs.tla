------------------------ MODULE CapitalPeriodsProofs -------------------------
(***************************************************************************)
(* The capital periods, for every calendar, every table to start from and  *)
(* every fault: types, one open period, books that stay closed, and a      *)
(* positive capital; and through restarts, as long as no session fails:    *)
(* periods that do not overlap, and limits that follow the open one.       *)
(***************************************************************************)
EXTENDS CapitalPeriods, SequenceTheorems, TLAPS

LEMMA NoRowIsPeriod ==
    ASSUME NEW s \in Int, NEW e \in Nat, NEW a \in Int
    PROVE  NewRow(s, e, a) \in Period /\ NoRow \in Period /\ ~NewRow(s, e, a).closed
             /\ NewRow(s, e, a).start = s /\ NewRow(s, e, a).end = e
             /\ NewRow(s, e, a).capital = a
BY DEF NewRow, NoRow, Period

LEMMA RowIsPeriod ==
    ASSUME NEW ps \in Seq(Period), NEW i \in DOMAIN ps
    PROVE  /\ ps[i] \in Period /\ ps[i].start \in Int /\ ps[i].end \in Nat
           /\ ps[i].capital \in Int /\ ps[i].closed \in BOOLEAN
           /\ ps[i].pnl \in Int /\ ps[i].ending \in Int
<1>1. ps[i] \in Period
  OBVIOUS
<1> QED BY <1>1 DEF Period

\* What Close() and Heal() make of a row.
LEMMA ShutRow ==
    ASSUME NEW p \in Period, NEW pnl \in Int, NEW ending \in Int
    PROVE  LET shut == [p EXCEPT !.closed = TRUE, !.pnl = pnl, !.ending = ending]
           IN  /\ shut \in Period /\ shut.closed /\ shut.start = p.start
               /\ shut.end = p.end /\ shut.pnl = pnl /\ shut.ending = ending
               /\ shut.capital = p.capital
BY DEF Period

LEMMA HealedRow ==
    ASSUME NEW p \in Period
    PROVE  LET healed == [p EXCEPT !.capital = Default]
           IN  /\ healed \in Period /\ healed.start = p.start
               /\ healed.end = p.end /\ healed.closed = p.closed
BY CapitalOK DEF Period

\* A period ends on or after the day it is made for.
LEMMA BoundsOfDay ==
    ASSUME NEW d \in Days
    PROVE  /\ PeriodEnd(d) \in Nat /\ d <= PeriodEnd(d)
           /\ PeriodStart(d) \in Int /\ PeriodStart(d) <= PeriodEnd(d)
<1> DEFINE m == MonthOf[d]
<1>1. /\ m \in Months /\ m - 1 \in Months /\ m + 1 \in Months /\ m \in Int
      /\ Expiry[m - 1] \in Int /\ Expiry[m] \in Int /\ Expiry[m + 1] \in Int
      /\ d <= Expiry[m + 1] /\ d \in Nat
  <2>1. m \in Months /\ m - 1 \in Months /\ m + 1 \in Months
    BY CalendarOK
  <2>2. d <= Expiry[m + 1]
    BY CalendarOK
  <2>3. d \in Nat
    BY CalendarOK DEF Days
  <2> QED BY <2>1, <2>2, <2>3, CalendarOK
<1>2. ClosingMonth(d) = m \/ ClosingMonth(d) = m + 1
  BY DEF ClosingMonth
<1>3. ClosingMonth(d) = m => d <= Expiry[m]
  BY <1>1 DEF ClosingMonth
<1>4. (m + 1) - 1 = m
  BY <1>1
<1>5. Expiry[m - 1] < Expiry[m] /\ Expiry[m] < Expiry[m + 1]
  BY <1>1, CalendarOK
<1> QED BY <1>1, <1>2, <1>3, <1>4, <1>5 DEF PeriodEnd, PeriodStart

Inv == TypeOK /\ PeriodsInv

LEMMA InitInv == Init => Inv
<1> SUFFICES ASSUME Init PROVE Inv
  OBVIOUS
<1>1. 1 \in Days /\ Default \in Int /\ Startup \in Calls /\ DailyJob \in Calls
  BY CalendarOK, CapitalOK DEF Days, Calls
<1>2. NoRow \in Period
  BY DEF NoRow, NewRow, Period
<1>3. TypeOK
  BY <1>1, <1>2, CapitalOK DEF Init, TypeOK
<1>4. \A i \in DOMAIN periods : ~periods[i].closed /\ i = 1
  BY CapitalOK DEF Init
<1>5. LockIsHeld /\ PeriodsAreOrdered /\ OneOpenPeriod /\ ClosedBooksAreFinal
  BY <1>4, CapitalOK DEF Init, LockIsHeld, PeriodsAreOrdered, OneOpenPeriod,
     ClosedBooksAreFinal, Open, InLock
<1>6. \A c \in Calls : CallIsCurrent(c)
  BY <1>1 DEF Init, CallIsCurrent, Days
<1> QED BY <1>3, <1>5, <1>6 DEF Inv, PeriodsInv

\* While one call is in the lock the others are outside.
LEMMA Alone ==
    ASSUME Inv, NEW c \in Calls, pc[c] \in InLock
    PROVE  lock = c /\ \A d \in Calls \ {c} : pc[d] \notin InLock
BY DEF Inv, PeriodsInv, LockIsHeld

\* A step of the call in the lock has to care for itself and the table only.
LEMMA HolderStep ==
    ASSUME Inv, NEW c \in Calls, pc[c] \in InLock,
           UNCHANGED <<today, day>>, TypeOK',
           \A d \in Calls \ {c} : pc'[d] = pc[d],
           \/ lock' = c /\ pc'[c] \in InLock
           \/ lock' = NoCall /\ pc'[c] \notin InLock,
           CallIsCurrent(c)', PeriodsAreOrdered', OneOpenPeriod',
           ClosedBooksAreFinal'
    PROVE  Inv'
<1>1. lock = c /\ \A d \in Calls \ {c} : pc[d] \notin InLock
  BY Alone
<1>2. LockIsHeld'
  BY <1>1, CapitalOK DEF LockIsHeld
<1>3. \A d \in Calls \ {c} : CallIsCurrent(d)'
  BY <1>1 DEF CallIsCurrent, InLock, Inv, PeriodsInv
<1> QED BY <1>2, <1>3 DEF Inv, PeriodsInv

\* The end of a call.
LEMMA LeaveStep ==
    ASSUME Inv, NEW c \in Calls, pc[c] \in InLock, Leave(c),
           UNCHANGED <<today, day, journal>>, periods' \in Seq(Period),
           riskCapital' \in Int,
           PeriodsAreOrdered', OneOpenPeriod', ClosedBooksAreFinal'
    PROVE  Inv'
<1>1. NoRow \in Period /\ 0 \in Nat /\ 0 \in Int
  BY DEF NoRow, NewRow, Period
<1>2. TypeOK'
  BY <1>1 DEF Inv, TypeOK, Leave, Goto
<1>3. pc'[c] = "idle" /\ lock' = NoCall /\ \A d \in Calls \ {c} : pc'[d] = pc[d]
  BY DEF Leave, Goto, Inv, TypeOK
<1>4. CallIsCurrent(c)'
  BY <1>3 DEF CallIsCurrent, Inv, PeriodsInv
<1> QED BY <1>2, <1>3, <1>4, HolderStep DEF InLock

\* The loop, with the one open period i that it has read or written.
LEMMA ContinueStep ==
    ASSUME Inv, NEW c \in Calls, pc[c] \in InLock,
           UNCHANGED <<today, day, journal>>,
           periods' \in Seq(Period),
           NEW i \in Nat, i \in DOMAIN periods',
           Open(periods') = {i}, Continue(c, i, periods'[i]),
           PeriodsAreOrdered', ClosedBooksAreFinal'
    PROVE  Inv'
<1>1. OneOpenPeriod'
  BY DEF OneOpenPeriod
<1>2. periods'[i] \in Period
  OBVIOUS
<1>3. NoRow \in Period
  BY DEF NoRow, NewRow, Period
<1>4. ASSUME NEW label \in {"sum", "heal"}, GoOn(c, i, label),
             label = "sum" => Overdue(c, periods'[i])
      PROVE  Inv'
  <2>1. TypeOK'
    BY <1>3, <1>4 DEF Inv, TypeOK, GoOn, Goto
  <2>2. /\ pc'[c] = label /\ active'[c] = i /\ lock' = lock
        /\ \A d \in Calls \ {c} : pc'[d] = pc[d]
    BY <1>4 DEF GoOn, Goto, Inv, TypeOK
  <2>3. CallIsCurrent(c)'
    BY <1>4, <2>2 DEF CallIsCurrent, Inv, PeriodsInv, Overdue
  <2>4. lock' = c /\ pc'[c] \in InLock
    BY <2>2, Alone DEF InLock
  <2> QED BY <1>1, <2>1, <2>2, <2>3, <2>4, HolderStep
<1>5. ASSUME Finish(c, periods'[i].capital) PROVE Inv'
  <2>1. riskCapital' \in Int /\ Leave(c)
    BY <1>2, <1>5 DEF Finish, Period
  <2> QED BY <1>1, <2>1, LeaveStep
<1> QED BY <1>4, <1>5 DEF Continue

LEMMA GetStep ==
    ASSUME Inv, NEW c \in Calls, Get(c)
    PROVE  Inv'
<1>1. /\ pc[c] = "get" /\ pc[c] \in InLock
      /\ UNCHANGED <<today, journal, periods, day>> /\ periods \in Seq(Period)
  BY DEF Get, InLock, Inv, TypeOK
<1>2. PeriodsAreOrdered' /\ ClosedBooksAreFinal' /\ OneOpenPeriod'
  BY <1>1 DEF Inv, PeriodsInv, PeriodsAreOrdered, ClosedBooksAreFinal, OneOpenPeriod,
     Open, RealizedPnl, EarnedBy
<1>3. ASSUME NEW i \in LatestOpen(periods), Continue(c, i, periods[i]) PROVE Inv'
  <2>1. i \in Nat /\ i \in DOMAIN periods /\ i \in Open(periods)
    BY <1>1, <1>3 DEF LatestOpen, Open
  <2>2. Open(periods) = {i}
    BY <2>1 DEF Inv, PeriodsInv, OneOpenPeriod
  <2> QED BY <1>1, <1>2, <1>3, <2>1, <2>2, ContinueStep DEF Open
<1>4. ASSUME LatestOpen(periods) = {}, Goto(c, "create"),
             next' = [next EXCEPT ![c] =
                 NewRow(PeriodStart(day[c]), PeriodEnd(day[c]), Default)],
             UNCHANGED <<lock, riskCapital, active, earned>>
      PROVE  Inv'
  <2>1. Open(periods) = {}
    <3> SUFFICES ASSUME NEW i \in Open(periods) PROVE FALSE
      OBVIOUS
    <3>1. Open(periods) = {i}
      BY DEF Inv, PeriodsInv, OneOpenPeriod
    <3>2. i \in LatestOpen(periods)
      <4>1. periods[i].start \in Int
        BY <1>1, RowIsPeriod DEF Open
      <4> QED BY <3>1, <4>1 DEF LatestOpen
    <3> QED BY <1>4, <3>2
  <2>2. day[c] \in Days
    BY DEF Inv, TypeOK
  <2> DEFINE new == NewRow(PeriodStart(day[c]), PeriodEnd(day[c]), Default)
  <2>7. new \in Period /\ ~new.closed /\ new.start <= new.end
    <3>1. /\ PeriodEnd(day[c]) \in Nat /\ PeriodStart(day[c]) \in Int
          /\ PeriodStart(day[c]) <= PeriodEnd(day[c]) /\ Default \in Int
      BY <2>2, BoundsOfDay, CapitalOK
    <3> HIDE DEF new
    <3> QED BY <3>1, NoRowIsPeriod DEF new
  <2>3. /\ next'[c] \in Period /\ ~next'[c].closed /\ next' \in [Calls -> Period]
        /\ next'[c].start <= next'[c].end
    <3> HIDE DEF new
    <3> QED BY <1>4, <2>7 DEF Inv, TypeOK, new
  <2>4. /\ TypeOK' /\ pc'[c] = "create" /\ \A d \in Calls \ {c} : pc'[d] = pc[d]
    BY <1>1, <1>4, <2>3 DEF Goto, Inv, TypeOK
  <2>5. CallIsCurrent(c)'
    BY <1>1, <2>1, <2>3, <2>4 DEF CallIsCurrent, Inv, PeriodsInv, Open
  <2>6. lock' = c /\ pc'[c] \in InLock
    BY <1>1, <1>4, <2>4, Alone DEF InLock
  <2> QED BY <1>1, <1>2, <2>4, <2>5, <2>6, HolderStep
<1> QED BY <1>3, <1>4 DEF Get

LEMMA SumStep ==
    ASSUME Inv, NEW c \in Calls, SumPnl(c)
    PROVE  Inv'
<1> DEFINE p == periods[active[c]]
<1>1. /\ pc[c] = "sum" /\ pc[c] \in InLock /\ Goto(c, "close")
      /\ UNCHANGED <<today, journal, periods, riskCapital, lock, day, active, next>>
      /\ earned' = [earned EXCEPT ![c] = RealizedPnl(p.start, p.end)]
  BY DEF SumPnl, InLock
<1>2. /\ p \in Period /\ active[c] \in DOMAIN periods /\ Open(periods) = {active[c]}
      /\ p.end < day[c] /\ day[c] <= today /\ today \in Days /\ day[c] \in Days
  BY <1>1 DEF Inv, PeriodsInv, CallIsCurrent, TypeOK
<1>3. RealizedPnl(p.start, p.end) \in Int
  <2>1. /\ p.end \in Nat /\ p.start \in Int /\ p.end \in 0 .. LastDay
        /\ LastDay \in Nat /\ p.start <= p.end
    BY <1>2, CalendarOK, RowIsPeriod DEF Days, Inv, TypeOK, PeriodsInv, PeriodsAreOrdered
  <2>2. journal \in [0 .. LastDay -> Int]
    BY DEF Inv, TypeOK
  <2>3. p.start - 1 \in 0 .. LastDay \/ p.start - 1 < 0
    BY <2>1
  <2>4. EarnedBy(p.end) \in Int
    BY <2>1, <2>2 DEF EarnedBy
  <2>5. EarnedBy(p.start - 1) \in Int
    BY <2>1, <2>2, <2>3 DEF EarnedBy
  <2> QED BY <2>4, <2>5 DEF RealizedPnl
<1>4. /\ TypeOK' /\ pc'[c] = "close" /\ \A d \in Calls \ {c} : pc'[d] = pc[d]
      /\ earned'[c] = RealizedPnl(p.start, p.end)
  BY <1>1, <1>3 DEF Inv, TypeOK, Goto
<1>5. PeriodsAreOrdered' /\ ClosedBooksAreFinal' /\ OneOpenPeriod'
  BY <1>1 DEF Inv, PeriodsInv, PeriodsAreOrdered, ClosedBooksAreFinal, OneOpenPeriod,
     Open, RealizedPnl, EarnedBy
<1>6. CallIsCurrent(c)'
  BY <1>1, <1>2, <1>4 DEF CallIsCurrent, Open, RealizedPnl, EarnedBy
<1>7. lock' = c /\ pc'[c] \in InLock
  BY <1>1, <1>4, Alone DEF InLock
<1> QED BY <1>1, <1>4, <1>5, <1>6, <1>7, HolderStep

LEMMA CloseStep ==
    ASSUME Inv, NEW c \in Calls, Close(c)
    PROVE  Inv'
<1> DEFINE a == active[c]
           p == periods[a]
           ending == p.capital + earned[c]
           shut == [p EXCEPT !.closed = TRUE, !.pnl = earned[c], !.ending = ending]
           row == NewRow(p.end + 1, PeriodEnd(p.end + 1), Carried(ending))
<1>1. /\ pc[c] = "close" /\ pc[c] \in InLock /\ Goto(c, "create")
      /\ UNCHANGED <<today, journal, riskCapital, lock, day, active>>
      /\ periods' = [periods EXCEPT ![a] = shut]
      /\ next' = [next EXCEPT ![c] = row]
      /\ earned' = [earned EXCEPT ![c] = 0]
  BY DEF Close, InLock
<1>2. /\ a \in DOMAIN periods /\ Open(periods) = {a} /\ periods \in Seq(Period)
      /\ p.end < day[c] /\ day[c] <= today /\ day[c] \in Days /\ today \in Days
      /\ earned[c] = RealizedPnl(p.start, p.end) /\ earned[c] \in Int
      /\ p.start <= p.end
  BY <1>1 DEF Inv, PeriodsInv, CallIsCurrent, TypeOK, PeriodsAreOrdered
<1>3. p \in Period /\ p.end \in Nat /\ p.capital \in Int /\ p.start \in Int
  BY <1>2, RowIsPeriod
<1>4. /\ shut \in Period /\ shut.closed /\ shut.end = p.end /\ shut.start = p.start
      /\ shut.pnl = earned[c] /\ shut.ending = shut.capital + shut.pnl
  <2>1. ending \in Int
    BY <1>2, <1>3
  <2>2. /\ shut \in Period /\ shut.closed /\ shut.end = p.end /\ shut.start = p.start
        /\ shut.pnl = earned[c] /\ shut.ending = ending /\ shut.capital = p.capital
    <3> HIDE DEF p, ending
    <3> QED BY <1>2, <1>3, <2>1 DEF Period
  <2>3. ending = p.capital + earned[c]
    OBVIOUS
  <2> HIDE DEF p, shut, ending
  <2> QED BY <2>2, <2>3
<1>5. row \in Period /\ ~row.closed /\ row.start <= row.end
  <2>1. p.end + 1 \in Days /\ p.end + 1 \in Int
    BY <1>2, <1>3, CalendarOK DEF Days
  <2>2. PeriodEnd(p.end + 1) \in Nat /\ p.end + 1 <= PeriodEnd(p.end + 1)
    BY <2>1, BoundsOfDay
  <2>3. Carried(ending) \in Int
    BY <1>2, <1>3, CapitalOK DEF Carried
  <2> HIDE DEF p, ending
  <2> QED BY <2>1, <2>2, <2>3, NoRowIsPeriod DEF row
<1> HIDE DEF shut, row, ending
<1>6. periods' \in Seq(Period) /\ DOMAIN periods' = DOMAIN periods
  <2>1. a \in 1 .. Len(periods)
    BY <1>2
  <2> QED BY <1>1, <1>2, <1>4, <2>1, ExceptSeq
<1>7. periods'[a] = shut /\ \A i \in DOMAIN periods : i # a => periods'[i] = periods[i]
  BY <1>1, <1>2
<1>8. /\ TypeOK' /\ pc'[c] = "create" /\ \A d \in Calls \ {c} : pc'[d] = pc[d]
      /\ next'[c] = row
  BY <1>1, <1>5, <1>6 DEF Inv, TypeOK, Goto
<1>9. Open(periods') = {}
  BY <1>2, <1>4, <1>6, <1>7 DEF Open
<1>10. PeriodsAreOrdered'
  BY <1>1, <1>2, <1>3, <1>4, <1>6, <1>7 DEF PeriodsAreOrdered, Inv, PeriodsInv, Days
<1>11. ClosedBooksAreFinal'
  BY <1>1, <1>2, <1>4, <1>6, <1>7
  DEF ClosedBooksAreFinal, Inv, PeriodsInv, RealizedPnl, EarnedBy
<1>12. CallIsCurrent(c)' /\ OneOpenPeriod'
  BY <1>1, <1>2, <1>5, <1>8, <1>9 DEF CallIsCurrent, OneOpenPeriod
<1>13. lock' = c /\ pc'[c] \in InLock
  BY <1>1, <1>8, Alone DEF InLock
<1> QED BY <1>1, <1>8, <1>10, <1>11, <1>12, <1>13, HolderStep

LEMMA CreateStep ==
    ASSUME Inv, NEW c \in Calls, Create(c)
    PROVE  Inv'
<1> DEFINE n == Len(periods) + 1
<1>1. /\ pc[c] = "create" /\ pc[c] \in InLock /\ Continue(c, n, next[c])
      /\ UNCHANGED <<today, journal, day>> /\ periods' = Append(periods, next[c])
  BY DEF Create, InLock
<1>2. /\ periods \in Seq(Period) /\ next[c] \in Period
      /\ Open(periods) = {} /\ ~next[c].closed /\ next[c].start <= next[c].end
  BY <1>1 DEF Inv, PeriodsInv, CallIsCurrent, TypeOK
<1>3. /\ periods' \in Seq(Period) /\ n \in Nat /\ DOMAIN periods' = 1 .. n
      /\ DOMAIN periods = 1 .. (n - 1) /\ periods'[n] = next[c]
      /\ \A i \in DOMAIN periods : periods'[i] = periods[i]
      /\ n \notin DOMAIN periods /\ DOMAIN periods' = DOMAIN periods \cup {n}
  <2>1. /\ periods' \in Seq(Period) /\ Len(periods') = n /\ Len(periods) \in Nat
        /\ periods'[n] = next[c] /\ \A i \in 1 .. Len(periods) : periods'[i] = periods[i]
    BY <1>1, <1>2, AppendProperties
  <2> QED BY <1>2, <2>1
<1> HIDE DEF n
<1>4. Open(periods') = {n}
  BY <1>2, <1>3 DEF Open
<1>5. PeriodsAreOrdered'
  BY <1>1, <1>2, <1>3 DEF PeriodsAreOrdered, Inv, PeriodsInv
<1>6. ClosedBooksAreFinal'
  BY <1>1, <1>2, <1>3 DEF ClosedBooksAreFinal, Inv, PeriodsInv, RealizedPnl, EarnedBy
<1> QED BY <1>1, <1>3, <1>4, <1>5, <1>6, ContinueStep

LEMMA HealStep ==
    ASSUME Inv, NEW c \in Calls, Heal(c)
    PROVE  Inv'
<1> DEFINE a == active[c]
<1>1. /\ pc[c] = "heal" /\ pc[c] \in InLock /\ Leave(c) /\ riskCapital' = Default
      /\ UNCHANGED <<today, journal, day>>
      /\ periods' = [periods EXCEPT ![a] = [periods[a] EXCEPT !.capital = Default]]
  BY DEF Heal, Finish, InLock
<1>2. /\ periods \in Seq(Period) /\ a \in DOMAIN periods /\ Open(periods) = {a}
  BY <1>1 DEF Inv, PeriodsInv, CallIsCurrent, TypeOK
<1> DEFINE healed == [periods[a] EXCEPT !.capital = Default]
<1>3. /\ healed \in Period /\ healed.start = periods[a].start
      /\ healed.end = periods[a].end /\ ~healed.closed
  <2>1. periods[a] \in Period /\ ~periods[a].closed
    BY <1>2, RowIsPeriod DEF Open
  <2> QED BY <2>1, HealedRow
<1> HIDE DEF healed
<1>4. periods' \in Seq(Period) /\ DOMAIN periods' = DOMAIN periods
  <2>1. a \in 1 .. Len(periods)
    BY <1>2
  <2> QED BY <1>1, <1>2, <1>3, <2>1, ExceptSeq DEF healed
<1>5. periods'[a] = healed /\ \A i \in DOMAIN periods : i # a => periods'[i] = periods[i]
  BY <1>1, <1>2 DEF healed
<1>6. PeriodsAreOrdered'
  BY <1>1, <1>2, <1>3, <1>4, <1>5 DEF PeriodsAreOrdered, Inv, PeriodsInv
<1>7. OneOpenPeriod'
  BY <1>2, <1>3, <1>4, <1>5 DEF OneOpenPeriod, Open
<1>8. ClosedBooksAreFinal'
  BY <1>1, <1>2, <1>3, <1>4, <1>5
  DEF ClosedBooksAreFinal, Inv, PeriodsInv, RealizedPnl, EarnedBy
<1>9. riskCapital' \in Int
  BY <1>1, CapitalOK
<1> QED BY <1>1, <1>4, <1>6, <1>7, <1>8, <1>9, LeaveStep

LEMMA EnterStep ==
    ASSUME Inv, NEW c \in Calls, Enter(c)
    PROVE  Inv'
<1>1. /\ pc[c] = "wait" /\ lock = NoCall /\ lock' = c /\ Goto(c, "get")
      /\ UNCHANGED <<today, journal, periods, riskCapital, day, active, earned, next>>
  BY DEF Enter
<1>2. TypeOK' /\ pc'[c] = "get" /\ \A d \in Calls \ {c} : pc'[d] = pc[d]
  BY <1>1 DEF Inv, TypeOK, Goto
<1>3. LockIsHeld'
  BY <1>1, <1>2, CapitalOK DEF Inv, PeriodsInv, LockIsHeld, InLock
<1>4. \A d \in Calls : CallIsCurrent(d)'
  BY <1>1, <1>2 DEF Inv, PeriodsInv, CallIsCurrent, RealizedPnl, EarnedBy, Open
<1>5. PeriodsAreOrdered' /\ ClosedBooksAreFinal' /\ OneOpenPeriod'
  BY <1>1 DEF Inv, PeriodsInv, PeriodsAreOrdered, ClosedBooksAreFinal, OneOpenPeriod,
     Open, RealizedPnl, EarnedBy
<1> QED BY <1>2, <1>3, <1>4, <1>5 DEF Inv, PeriodsInv

LEMMA FailsStep ==
    ASSUME Inv, NEW c \in Calls, Fails(c)
    PROVE  Inv'
<1>1. /\ pc[c] \in InLock /\ Leave(c)
      /\ UNCHANGED <<today, journal, periods, riskCapital, day>>
  BY DEF Fails, InLock
<1>2. PeriodsAreOrdered' /\ ClosedBooksAreFinal' /\ OneOpenPeriod'
  BY <1>1 DEF Inv, PeriodsInv, PeriodsAreOrdered, ClosedBooksAreFinal, OneOpenPeriod,
     Open, RealizedPnl, EarnedBy
<1>3. periods' \in Seq(Period) /\ riskCapital' \in Int
  BY <1>1 DEF Inv, TypeOK
<1> QED BY <1>1, <1>2, <1>3, LeaveStep

LEMMA CallStep ==
    ASSUME Inv, Call
    PROVE  Inv'
<1>1. /\ pc[DailyJob] = "idle" /\ Goto(DailyJob, "wait")
      /\ day' = [day EXCEPT ![DailyJob] = today]
      /\ UNCHANGED <<today, journal, periods, riskCapital, lock, active, earned, next>>
  BY DEF Call
<1>2. /\ TypeOK' /\ DailyJob \in Calls /\ pc'[DailyJob] = "wait" /\ day'[DailyJob] = today
      /\ \A d \in Calls \ {DailyJob} : pc'[d] = pc[d] /\ day'[d] = day[d]
  BY <1>1 DEF Inv, TypeOK, Goto, Calls
<1>3. LockIsHeld'
  BY <1>1, <1>2 DEF Inv, PeriodsInv, LockIsHeld, InLock
<1>4. today \in Int
  BY DEF Inv, TypeOK, Days
<1>5. \A d \in Calls : CallIsCurrent(d)'
  BY <1>1, <1>2, <1>4 DEF Inv, PeriodsInv, CallIsCurrent, RealizedPnl, EarnedBy, Open
<1>6. PeriodsAreOrdered' /\ ClosedBooksAreFinal' /\ OneOpenPeriod'
  BY <1>1 DEF Inv, PeriodsInv, PeriodsAreOrdered, ClosedBooksAreFinal, OneOpenPeriod,
     Open, RealizedPnl, EarnedBy
<1> QED BY <1>2, <1>3, <1>5, <1>6 DEF Inv, PeriodsInv

\* A trade that exits today leaves the sums of a period that is over.
LEMMA SumsOfThePast ==
    ASSUME Inv, TradeExits, NEW p \in Period, p.start <= p.end, p.end < today
    PROVE  RealizedPnl(p.start, p.end)' = RealizedPnl(p.start, p.end)
<1>1. PICK a \in Amounts :
        journal' = [d \in 0 .. LastDay |->
                       IF d < Stamp THEN journal[d] ELSE journal[d] + a]
  BY DEF TradeExits
<1>2. /\ p.start \in Int /\ p.end \in Nat /\ today \in 1 .. LastDay /\ LastDay \in Nat
  BY CalendarOK DEF Period, Inv, TypeOK, Days
<1>3. \A d \in 0 .. LastDay : d < today => journal'[d] = journal[d]
  BY <1>1 DEF Stamp
<1>4. EarnedBy(p.end)' = EarnedBy(p.end)
  BY <1>2, <1>3 DEF EarnedBy
<1>5. EarnedBy(p.start - 1)' = EarnedBy(p.start - 1)
  BY <1>2, <1>3 DEF EarnedBy
<1> QED BY <1>4, <1>5 DEF RealizedPnl

LEMMA TradeExitsStep ==
    ASSUME Inv, TradeExits
    PROVE  Inv'
<1>1. UNCHANGED <<today, periods, riskCapital, lock, pc, day, active, earned, next>>
  BY DEF TradeExits, callVars
<1>2. TypeOK'
  <2>1. PICK a \in Amounts :
          journal' = [d \in 0 .. LastDay |->
                         IF d < Stamp THEN journal[d] ELSE journal[d] + a]
    BY DEF TradeExits
  <2>2. journal' \in [0 .. LastDay -> Int]
    BY <2>1, CapitalOK DEF Inv, TypeOK
  <2> QED BY <1>1, <2>2 DEF Inv, TypeOK
<1>3. \A i \in DOMAIN periods :
        /\ periods[i] \in Period /\ periods[i].end \in Nat
        /\ periods[i].start <= periods[i].end
  BY RowIsPeriod DEF Inv, TypeOK, PeriodsInv, PeriodsAreOrdered
<1>4. LockIsHeld' /\ PeriodsAreOrdered' /\ OneOpenPeriod'
  BY <1>1 DEF Inv, PeriodsInv, LockIsHeld, PeriodsAreOrdered, OneOpenPeriod, Open
<1>5. ClosedBooksAreFinal'
  <2>1. ASSUME NEW i \in DOMAIN periods, periods[i].closed
        PROVE  RealizedPnl(periods[i].start, periods[i].end)'
                 = RealizedPnl(periods[i].start, periods[i].end)
    <3>1. periods[i].end < today
      BY <2>1 DEF Inv, PeriodsInv, PeriodsAreOrdered
    <3> DEFINE p == periods[i]
    <3>2. p \in Period /\ p.end < today /\ p.start <= p.end /\ p' = p
      BY <1>1, <1>3, <3>1
    <3>3. \A q \in Period : q.start <= q.end /\ q.end < today
            => RealizedPnl(q.start, q.end)' = RealizedPnl(q.start, q.end)
      BY SumsOfThePast
    <3> QED BY <1>1, <3>2, <3>3 DEF RealizedPnl, EarnedBy
  <2>2. ASSUME NEW i \in DOMAIN periods, periods[i].closed
        PROVE  periods[i].pnl = RealizedPnl(periods[i].start, periods[i].end)'
    BY <2>1, <2>2 DEF Inv, PeriodsInv, ClosedBooksAreFinal
  <2> QED BY <1>1, <2>2 DEF Inv, PeriodsInv, ClosedBooksAreFinal
<1>6. ASSUME NEW c \in Calls PROVE CallIsCurrent(c)'
  <2>1. CASE pc[c] = "close"
    <3> DEFINE p == periods[active[c]]
    <3>1. /\ active[c] \in DOMAIN periods /\ p.end < day[c] /\ day[c] <= today
          /\ day[c] \in Int /\ today \in Int /\ earned[c] = RealizedPnl(p.start, p.end)
      BY <2>1 DEF Inv, PeriodsInv, CallIsCurrent, TypeOK, Days
    <3>2. p \in Period /\ p.end < today /\ p.start <= p.end
      BY <1>3, <3>1
    <3>3. RealizedPnl(p.start, p.end)' = RealizedPnl(p.start, p.end)
      <4> HIDE DEF p
      <4>1. RealizedPnl(p.start, p.end)' = RealizedPnl(p.start, p.end)
        BY <1>1, <3>2, SumsOfThePast DEF p
      <4> QED BY <4>1
    <3> QED BY <1>1, <2>1, <3>1, <3>3 DEF Inv, PeriodsInv, CallIsCurrent, Open
  <2>2. CASE pc[c] # "close"
    BY <1>1, <2>2 DEF Inv, PeriodsInv, CallIsCurrent, Open
  <2> QED BY <2>1, <2>2
<1> QED BY <1>2, <1>4, <1>5, <1>6 DEF Inv, PeriodsInv

LEMMA DayPassesStep ==
    ASSUME Inv, DayPasses
    PROVE  Inv'
<1>1. /\ today' = today + 1 /\ today' \in Days /\ today \in Int
      /\ UNCHANGED <<journal, periods, riskCapital, lock, pc, day, active, earned, next>>
  BY CalendarOK DEF DayPasses, callVars, Inv, TypeOK, Days
<1>2. TypeOK'
  BY <1>1 DEF Inv, TypeOK
<1>3. LockIsHeld' /\ OneOpenPeriod' /\ ClosedBooksAreFinal'
  BY <1>1 DEF Inv, PeriodsInv, LockIsHeld, OneOpenPeriod, Open, ClosedBooksAreFinal,
     RealizedPnl, EarnedBy
<1>4. PeriodsAreOrdered'
  BY <1>1, RowIsPeriod DEF Inv, TypeOK, PeriodsInv, PeriodsAreOrdered
<1>5. \A c \in Calls : day[c] \in Int
  BY DEF Inv, TypeOK, Days
<1>6. \A c \in Calls : CallIsCurrent(c)'
  BY <1>1, <1>5 DEF Inv, PeriodsInv, CallIsCurrent, Open, RealizedPnl, EarnedBy
<1> QED BY <1>2, <1>3, <1>4, <1>6 DEF Inv, PeriodsInv

LEMMA CrashStep ==
    ASSUME Inv, Crash
    PROVE  Inv'
<1>1. /\ riskCapital' = Default /\ lock' = NoCall
      /\ pc' = [c \in Calls |-> IF c = Startup THEN "wait" ELSE "idle"]
      /\ day' = [day EXCEPT ![Startup] = today]
      /\ active' = [c \in Calls |-> 0] /\ earned' = [c \in Calls |-> 0]
      /\ next' = [c \in Calls |-> NoRow]
      /\ UNCHANGED <<today, journal, periods>>
  BY DEF Crash
<1>2. NoRow \in Period /\ Default \in Int
  BY CapitalOK DEF NoRow, NewRow, Period
<1>4. /\ \A c \in Calls : pc'[c] = "wait" \/ pc'[c] = "idle"
      /\ pc' \in [Calls -> {"wait", "idle"}]
  BY <1>1
<1>3. TypeOK'
  <2>1. today \in Days /\ day \in [Calls -> Days] /\ journal \in [0 .. LastDay -> Int]
        /\ periods \in Seq(Period)
    BY DEF Inv, TypeOK
  <2>2. day' \in [Calls -> Days]
    BY <1>1, <2>1
  <2>3. active' \in [Calls -> Nat] /\ earned' \in [Calls -> Int]
    BY <1>1
  <2>4. next' \in [Calls -> Period]
    BY <1>1, <1>2
  <2> QED BY <1>1, <1>2, <1>4, <2>1, <2>2, <2>3, <2>4 DEF TypeOK
<1>5. LockIsHeld'
  BY <1>1, <1>4, CapitalOK DEF LockIsHeld, InLock
<1>6. \A c \in Calls : day'[c] = day[c] \/ day'[c] = today
  BY <1>1 DEF Inv, TypeOK
<1>7. today \in Int
  BY DEF Inv, TypeOK, Days
<1>8. \A c \in Calls : CallIsCurrent(c)'
  BY <1>1, <1>4, <1>6, <1>7 DEF Inv, PeriodsInv, CallIsCurrent
<1>9. PeriodsAreOrdered' /\ ClosedBooksAreFinal' /\ OneOpenPeriod'
  BY <1>1 DEF Inv, PeriodsInv, PeriodsAreOrdered, ClosedBooksAreFinal, OneOpenPeriod,
     Open, RealizedPnl, EarnedBy
<1> QED BY <1>3, <1>5, <1>8, <1>9 DEF Inv, PeriodsInv

LEMMA StutterStep ==
    ASSUME Inv, UNCHANGED vars
    PROVE  Inv'
BY DEF vars, callVars, Inv, TypeOK, PeriodsInv, LockIsHeld, CallIsCurrent,
   PeriodsAreOrdered, OneOpenPeriod, ClosedBooksAreFinal, Open, RealizedPnl, EarnedBy

LEMMA NextStep == Inv /\ [Next]_vars => Inv'
<1> SUFFICES ASSUME Inv, [Next]_vars PROVE Inv'
  OBVIOUS
<1>1. CASE Call
  BY <1>1, CallStep
<1>2. CASE TradeExits
  BY <1>2, TradeExitsStep
<1>3. CASE DayPasses
  BY <1>3, DayPassesStep
<1>4. CASE Crash
  BY <1>4, CrashStep
<1>5. ASSUME NEW c \in Calls, Rollover(c) PROVE Inv'
  BY <1>5, EnterStep, GetStep, SumStep, CloseStep, CreateStep, HealStep DEF Rollover
<1>6. ASSUME NEW c \in Calls, Fails(c) PROVE Inv'
  BY <1>6, FailsStep
<1>7. CASE UNCHANGED vars
  BY <1>7, StutterStep
<1> QED BY <1>1, <1>2, <1>3, <1>4, <1>5, <1>6, <1>7 DEF Next

\* Every variable stays in its type, and what a call has read of the table is
\* still so when it writes, whatever fails and whenever the process restarts.
THEOREM PeriodsStayTyped == Spec => [](TypeOK /\ PeriodsInv)
<1>1. Spec => []Inv
  BY InitInv, NextStep, PTL DEF Spec
<1> QED BY <1>1, PTL DEF Inv

\* rollover_if_needed() never leaves two open periods behind it.
THEOREM OnePeriodIsOpen == Spec => []OneOpenPeriod
<1>1. Inv => OneOpenPeriod
  BY DEF Inv, PeriodsInv
<1> QED BY <1>1, InitInv, NextStep, PTL DEF Spec

\* Once a period is closed no trade is booked into it any more, and its ending
\* capital is its starting capital with the result of all its trades.
THEOREM BooksStayClosed == Spec => []ClosedBooksAreFinal
<1>1. Inv => ClosedBooksAreFinal
  BY DEF Inv, PeriodsInv
<1> QED BY <1>1, InitInv, NextStep, PTL DEF Spec

-----------------------------------------------------------------------------
(* The capital that is applied is positive, whatever fails.                *)

LEMMA PositiveStep ==
    ASSUME Inv, RiskCapitalIsPositive, [Next]_vars
    PROVE  RiskCapitalIsPositive'
<1>1. Default \in Int /\ Default > 0
  BY CapitalOK
<1>2. ASSUME NEW c \in Calls, NEW i, NEW p \in Period, Continue(c, i, p)
      PROVE  RiskCapitalIsPositive'
  <2>1. p.capital \in Int
    BY DEF Period
  <2> QED BY <1>2, <2>1
          DEF Continue, GoOn, Finish, NeedsFloor, RiskCapitalIsPositive
<1>3. ASSUME NEW c \in Calls, Get(c) PROVE RiskCapitalIsPositive'
  <2>1. \A i \in LatestOpen(periods) : periods[i] \in Period
    BY RowIsPeriod DEF LatestOpen, Open, Inv, TypeOK
  <2> QED BY <1>2, <1>3, <2>1 DEF Get, RiskCapitalIsPositive
<1>4. ASSUME NEW c \in Calls, Create(c) PROVE RiskCapitalIsPositive'
  <2>1. next[c] \in Period
    BY DEF Inv, TypeOK
  <2> QED BY <1>2, <1>4, <2>1 DEF Create
<1>5. ASSUME NEW c \in Calls, Heal(c) PROVE RiskCapitalIsPositive'
  BY <1>1, <1>5 DEF Heal, Finish, RiskCapitalIsPositive
<1>6. CASE Crash
  BY <1>1, <1>6 DEF Crash, RiskCapitalIsPositive
<1>7. CASE UNCHANGED riskCapital
  BY <1>7 DEF RiskCapitalIsPositive
<1> QED BY <1>3, <1>4, <1>5, <1>6, <1>7
        DEF Next, Rollover, Call, TradeExits, DayPasses, Enter, SumPnl, Close, Fails, vars

\* Every limit that is a share of the capital is a share of something, through losses
\* larger than the capital, a table from before the floors, failures and restarts.
THEOREM CapitalStaysPositive == Spec => []RiskCapitalIsPositive
<1>1. Init => RiskCapitalIsPositive
  BY CapitalOK DEF Init, RiskCapitalIsPositive
<1> QED BY <1>1, PositiveStep, InitInv, NextStep, PTL DEF Spec

-----------------------------------------------------------------------------
(* Periods do not overlap as long as no session fails, through restarts.   *)

SessionsWork == "db_fails" \notin Faults

\* A period starts on or before the day it is made for, after every expiry that is over on
\* that day, and ends on an expiry.
LEMMA PeriodOfDay ==
    ASSUME NEW d \in Days
    PROVE  /\ PeriodStart(d) <= d /\ \E m \in Months : PeriodEnd(d) = Expiry[m]
           /\ \A m \in Months : Expiry[m] < d => Expiry[m] < PeriodStart(d)
<1> DEFINE m == MonthOf[d]
           k == ClosingMonth(d)
<1>1. /\ m \in Months /\ m - 1 \in Months /\ m + 1 \in Months /\ m \in Int
      /\ Expiry[m - 1] < d /\ d <= Expiry[m + 1]
      /\ d \in Int /\ \A n \in Months : n \in Int /\ Expiry[n] \in Int
  <2>1. m \in Months /\ m - 1 \in Months /\ m + 1 \in Months
    BY CalendarOK
  <2>2. Expiry[m - 1] < d /\ d <= Expiry[m + 1]
    BY CalendarOK
  <2>3. d \in Int
    BY CalendarOK DEF Days
  <2>4. \A n \in Months : n \in Int /\ Expiry[n] \in Int
    BY CalendarOK
  <2> QED BY <2>1, <2>2, <2>3, <2>4
<1>2. \/ k = m + 1 /\ k - 1 = m /\ Expiry[m] < d
      \/ k = m /\ k - 1 = m - 1 /\ d <= Expiry[m]
  <2>1. (m + 1) - 1 = m
    BY <1>1
  <2> QED BY <1>1, <2>1 DEF ClosingMonth
<1>3. k \in Months /\ k - 1 \in Months /\ Expiry[k - 1] < d /\ d <= Expiry[k]
  BY <1>1, <1>2
<1> HIDE DEF m, k
<1>4. PeriodStart(d) = Expiry[k - 1] + 1 /\ PeriodEnd(d) = Expiry[k]
  BY DEF PeriodStart, PeriodEnd, k
<1>5. ASSUME NEW n \in Months, Expiry[n] < d PROVE Expiry[n] < PeriodStart(d)
  <2>1. n \in Int /\ k \in Int /\ Expiry[n] \in Int /\ Expiry[k - 1] \in Int
        /\ Expiry[k] \in Int
    BY <1>1, <1>3
  <2>2. n <= k - 1
    <3>1. ~ k < n
      BY <1>1, <1>3, <1>5, <2>1, CalendarOK
    <3>2. n # k
      BY <1>1, <1>3, <1>5, <2>1
    <3> QED BY <2>1, <3>1, <3>2
  <2>3. Expiry[n] <= Expiry[k - 1]
    BY <1>3, <2>1, <2>2, CalendarOK
  <2> QED BY <1>4, <2>1, <2>3
<1>6. PeriodStart(d) <= d
  BY <1>1, <1>3, <1>4
<1> QED BY <1>3, <1>4, <1>5, <1>6

LEMMA ApartInit == Init => ApartInv
<1> SUFFICES ASSUME Init PROVE ApartInv
  OBVIOUS
<1>1. /\ \A i \in DOMAIN periods : i = 1 /\ Len(periods) = 1
      /\ \A i \in DOMAIN periods : \E m \in Months : periods[i].end = Expiry[m]
      /\ \A i \in DOMAIN periods : periods[i].start <= 1 /\ ~periods[i].closed
  <2>1. periods = Legacy
    BY DEF Init
  <2>2. \A i \in DOMAIN Legacy : i = 1 /\ Len(Legacy) = 1
    <3>1. Len(Legacy) \in Nat /\ DOMAIN Legacy = 1 .. Len(Legacy) /\ Len(Legacy) <= 1
      BY CapitalOK, LenProperties
    <3> QED BY <3>1
  <2>3. \A i \in DOMAIN Legacy : /\ \E m \in Months : Legacy[i].end = Expiry[m]
                                 /\ Legacy[i].start <= 1 /\ ~Legacy[i].closed
    BY CapitalOK
  <2> QED BY <2>1, <2>2, <2>3
<1>2. \A c \in Calls : day[c] = 1 /\ pc[c] # "create"
  BY DEF Init
<1>3. Startup \in Calls
  BY DEF Calls
<1>4. RowsFollow
  <2>1. PeriodsApart
    BY <1>1 DEF PeriodsApart
  <2>2. \A i \in Open(periods) : i \in DOMAIN periods
    BY DEF Open
  <2> QED BY <1>1, <1>2, <1>3, <2>1, <2>2 DEF RowsFollow
<1>5. GapIsPast
  BY <1>1 DEF GapIsPast, Open
<1> QED BY <1>2, <1>4, <1>5 DEF ApartInv, NextFollows

\* A step that leaves the table and starts no insertion has to care for the gap only.
LEMMA ApartKept ==
    ASSUME Inv, ApartInv, periods' = periods, GapIsPast',
           \A c \in Calls : day'[c] \in Int /\ day[c] <= day'[c],
           \A c \in Calls : pc'[c] = "create" =>
              pc[c] = "create" /\ next'[c] = next[c] /\ day'[c] = day[c]
    PROVE  ApartInv'
<1>1. \A c \in Calls : day[c] \in Int
  BY DEF Inv, TypeOK, Days
<1>2. \A i \in DOMAIN periods : periods[i].start \in Int
  BY RowIsPeriod DEF Inv, TypeOK
<1>3. RowsFollow'
  <2>1. \A i \in Open(periods) : i \in DOMAIN periods
    BY DEF Open
  <2> QED BY <1>1, <1>2, <2>1 DEF ApartInv, RowsFollow, PeriodsApart, Open
<1>4. \A c \in Calls : NextFollows(c)'
  BY DEF ApartInv, NextFollows
<1> QED BY <1>3, <1>4 DEF ApartInv

LEMMA ApartGet ==
    ASSUME Inv, ApartInv, NEW c \in Calls, Get(c)
    PROVE  ApartInv'
<1>1. /\ pc[c] = "get" /\ pc[c] \in InLock /\ periods \in Seq(Period)
      /\ UNCHANGED <<today, journal, periods, day>>
      /\ \A d \in Calls : day[d] \in Int /\ day[d] \in Days
  BY DEF Get, InLock, Inv, TypeOK, Days
<1>2. \A d \in Calls \ {c} : pc[d] # "create"
  BY <1>1, Alone DEF InLock
<1>3. ASSUME NEW i \in LatestOpen(periods), Continue(c, i, periods[i]) PROVE ApartInv'
  <2>1. /\ \A d \in Calls \ {c} : pc'[d] = pc[d] /\ next'[d] = next[d]
        /\ pc'[c] # "create"
    BY <1>3 DEF Continue, GoOn, Finish, Leave, Goto, Inv, TypeOK
  <2>2. GapIsPast'
    BY <1>1, <1>3 DEF GapIsPast, LatestOpen
  <2> QED BY <1>1, <2>1, <2>2, ApartKept
<1>4. ASSUME LatestOpen(periods) = {}, Goto(c, "create"),
             next' = [next EXCEPT ![c] =
                 NewRow(PeriodStart(day[c]), PeriodEnd(day[c]), Default)]
      PROVE  ApartInv'
  <2>1. Open(periods) = {}
    <3> SUFFICES ASSUME NEW i \in Open(periods) PROVE FALSE
      OBVIOUS
    <3>1. Open(periods) = {i} /\ periods[i].start \in Int
      BY <1>1, RowIsPeriod DEF Inv, PeriodsInv, OneOpenPeriod, Open
    <3>2. i \in LatestOpen(periods)
      BY <3>1 DEF LatestOpen
    <3> QED BY <1>4, <3>2
  <2>2. \A i \in DOMAIN periods : periods[i].end < day[c]
    BY <1>1, <1>2, <2>1 DEF ApartInv, GapIsPast
  <2>3. /\ PeriodStart(day[c]) <= day[c]
        /\ \E m \in Months : PeriodEnd(day[c]) = Expiry[m]
        /\ \A m \in Months : Expiry[m] < day[c] => Expiry[m] < PeriodStart(day[c])
    BY <1>1, PeriodOfDay
  <2>4. \A i \in DOMAIN periods : periods[i].end < PeriodStart(day[c])
    BY <2>2, <2>3 DEF ApartInv, RowsFollow
  <2>5. /\ pc'[c] = "create" /\ \A d \in Calls \ {c} : pc'[d] = pc[d]
        /\ next'[c].start = PeriodStart(day[c]) /\ next'[c].end = PeriodEnd(day[c])
    BY <1>4 DEF Goto, NewRow, Inv, TypeOK
  <2>6. \A d \in Calls : NextFollows(d)'
    BY <1>1, <1>2, <2>3, <2>4, <2>5 DEF NextFollows
  <2>7. RowsFollow' /\ GapIsPast'
    BY <1>1, <2>5 DEF ApartInv, RowsFollow, PeriodsApart, Open, GapIsPast
  <2> QED BY <2>6, <2>7 DEF ApartInv
<1> QED BY <1>3, <1>4 DEF Get

LEMMA ApartClose ==
    ASSUME Inv, ApartInv, NEW c \in Calls, Close(c)
    PROVE  ApartInv'
<1> DEFINE a == active[c]
           p == periods[a]
           ending == p.capital + earned[c]
           shut == [p EXCEPT !.closed = TRUE, !.pnl = earned[c], !.ending = ending]
<1>1. /\ pc[c] = "close" /\ pc[c] \in InLock /\ day' = day
      /\ periods' = [periods EXCEPT ![a] = shut]
      /\ next' = [next EXCEPT ![c] =
             NewRow(p.end + 1, PeriodEnd(p.end + 1), Carried(ending))]
      /\ Goto(c, "create")
  BY DEF Close, InLock
<1>2. /\ a \in DOMAIN periods /\ Open(periods) = {a} /\ periods \in Seq(Period)
      /\ p.end < day[c] /\ day[c] \in Days /\ day[c] \in Nat
      /\ p.start \in Int /\ p.end \in Nat /\ p \in Period
  BY <1>1, RowIsPeriod DEF Inv, PeriodsInv, CallIsCurrent, TypeOK, Days
<1>3. /\ DOMAIN periods' = DOMAIN periods /\ shut.start = p.start /\ shut.end = p.end
      /\ shut.closed /\ periods'[a] = shut
      /\ \A i \in DOMAIN periods : i # a => periods'[i] = periods[i]
  <2>1. shut.start = p.start /\ shut.end = p.end /\ shut.closed
    <3> HIDE DEF p, ending
    <3> QED BY <1>2 DEF Period
  <2> HIDE DEF shut
  <2> QED BY <1>1, <1>2, <2>1
<1> HIDE DEF shut, ending
<1>4. \A i \in DOMAIN periods : /\ periods'[i].start = periods[i].start
                                /\ periods'[i].end = periods[i].end
  BY <1>3
<1>5. Open(periods') = {}
  BY <1>2, <1>3 DEF Open
<1>6. RowsFollow'
  BY <1>3, <1>4, <1>5 DEF ApartInv, RowsFollow, PeriodsApart
<1>7. \A i \in DOMAIN periods : periods[i].end < p.end + 1
  <2> TAKE i \in DOMAIN periods
  <2>1. /\ a = Len(periods) /\ i \in 1 .. Len(periods) /\ periods[i].end \in Nat
        /\ p.start <= p.end
    BY <1>2, RowIsPeriod DEF ApartInv, RowsFollow, Inv, PeriodsInv, PeriodsAreOrdered
  <2>2. i = a \/ periods[i].end < p.start
    BY <1>2, <2>1 DEF ApartInv, RowsFollow, PeriodsApart
  <2> QED BY <1>2, <2>1, <2>2
<1>8. \E m \in Months : PeriodEnd(p.end + 1) = Expiry[m]
  <2>1. p.end + 1 \in Days
    BY <1>2, CalendarOK DEF Days
  <2> QED BY <2>1, PeriodOfDay
<1>9. /\ pc'[c] = "create" /\ \A d \in Calls \ {c} : pc'[d] = pc[d]
      /\ next'[c].start = p.end + 1 /\ next'[c].end = PeriodEnd(p.end + 1)
  BY <1>1 DEF Goto, NewRow, Inv, TypeOK
<1>10. \A d \in Calls \ {c} : pc[d] # "create"
  BY <1>1, Alone DEF InLock
<1>11. \A d \in Calls : NextFollows(d)'
  BY <1>1, <1>2, <1>3, <1>4, <1>7, <1>8, <1>9, <1>10 DEF NextFollows
<1> QED BY <1>6, <1>9, <1>11 DEF ApartInv, GapIsPast

LEMMA ApartCreate ==
    ASSUME Inv, ApartInv, NEW c \in Calls, Create(c)
    PROVE  ApartInv'
<1> DEFINE n == Len(periods) + 1
<1>1. /\ pc[c] = "create" /\ pc[c] \in InLock /\ Continue(c, n, next[c]) /\ day' = day
      /\ periods' = Append(periods, next[c])
  BY DEF Create, InLock
<1>2. /\ periods \in Seq(Period) /\ next[c] \in Period /\ Open(periods) = {}
      /\ ~next[c].closed /\ NextFollows(c)
  BY <1>1 DEF Inv, PeriodsInv, CallIsCurrent, TypeOK, ApartInv
<1>3. /\ n \in Nat /\ DOMAIN periods' = 1 .. n /\ Len(periods') = n
      /\ DOMAIN periods = 1 .. (n - 1) /\ periods'[n] = next[c]
      /\ \A i \in DOMAIN periods : periods'[i] = periods[i]
      /\ n \notin DOMAIN periods /\ DOMAIN periods' = DOMAIN periods \cup {n}
  <2>1. /\ periods' \in Seq(Period) /\ Len(periods') = n /\ Len(periods) \in Nat
        /\ periods'[n] = next[c] /\ \A i \in 1 .. Len(periods) : periods'[i] = periods[i]
    BY <1>1, <1>2, AppendProperties
  <2> QED BY <1>2, <2>1
<1> HIDE DEF n
<1>4. Open(periods') = {n}
  BY <1>2, <1>3 DEF Open
<1>5. RowsFollow'
  <2>1. PeriodsApart'
    BY <1>1, <1>2, <1>3 DEF ApartInv, RowsFollow, PeriodsApart, NextFollows
  <2>2. \A i \in DOMAIN periods' : \E m \in Months : periods'[i].end = Expiry[m]
    BY <1>1, <1>2, <1>3 DEF ApartInv, RowsFollow, NextFollows
  <2>3. periods'[n].start <= day'[c]
    BY <1>1, <1>2, <1>3 DEF NextFollows
  <2> QED BY <1>3, <1>4, <2>1, <2>2, <2>3 DEF RowsFollow
<1>6. /\ pc'[c] # "create" /\ \A d \in Calls \ {c} : pc'[d] = pc[d]
  BY <1>1 DEF Continue, GoOn, Finish, Leave, Goto, Inv, TypeOK
<1>7. \A d \in Calls \ {c} : pc[d] # "create"
  BY <1>1, Alone DEF InLock
<1>8. \A d \in Calls : NextFollows(d)'
  BY <1>6, <1>7 DEF NextFollows
<1> QED BY <1>4, <1>5, <1>8 DEF ApartInv, GapIsPast

LEMMA ApartHeal ==
    ASSUME Inv, ApartInv, NEW c \in Calls, Heal(c)
    PROVE  ApartInv'
<1> DEFINE a == active[c]
           healed == [periods[a] EXCEPT !.capital = Default]
<1>1. /\ pc[c] = "heal" /\ pc[c] \in InLock /\ Leave(c) /\ day' = day
      /\ periods' = [periods EXCEPT ![a] = healed]
  BY DEF Heal, Finish, InLock
<1>2. /\ periods \in Seq(Period) /\ a \in DOMAIN periods /\ Open(periods) = {a}
  BY <1>1 DEF Inv, PeriodsInv, CallIsCurrent, TypeOK
<1>3. /\ healed.start = periods[a].start /\ healed.end = periods[a].end
      /\ ~healed.closed
  <2>1. periods[a] \in Period /\ ~periods[a].closed
    BY <1>2, RowIsPeriod DEF Open
  <2> QED BY <2>1, HealedRow
<1>4. /\ DOMAIN periods' = DOMAIN periods /\ periods'[a] = healed
      /\ \A i \in DOMAIN periods : i # a => periods'[i] = periods[i]
  BY <1>1, <1>2
<1> HIDE DEF healed
<1>5. /\ Open(periods') = {a} /\ Len(periods') = Len(periods)
      /\ \A i \in DOMAIN periods : /\ periods'[i].start = periods[i].start
                                   /\ periods'[i].end = periods[i].end
  <2>1. Len(periods') = Len(periods)
    BY <1>1, <1>2
  <2>2. Open(periods') = {a}
    BY <1>2, <1>3, <1>4 DEF Open
  <2> QED BY <1>3, <1>4, <2>1, <2>2
<1>6. RowsFollow'
  <2>1. PeriodsApart'
    BY <1>4, <1>5 DEF ApartInv, RowsFollow, PeriodsApart
  <2>2. \A i \in DOMAIN periods' : \E m \in Months : periods'[i].end = Expiry[m]
    BY <1>4, <1>5 DEF ApartInv, RowsFollow
  <2>3. a = Len(periods) /\ \E d \in Calls : periods[a].start <= day[d]
    BY <1>2 DEF ApartInv, RowsFollow
  <2> QED BY <1>1, <1>2, <1>5, <2>1, <2>2, <2>3 DEF RowsFollow
<1>7. \A d \in Calls : pc'[d] # "create"
  <2>1. pc'[c] = "idle" /\ \A d \in Calls \ {c} : pc'[d] = pc[d]
    BY <1>1 DEF Leave, Goto, Inv, TypeOK
  <2> QED BY <1>1, <2>1, Alone DEF InLock
<1> QED BY <1>5, <1>6, <1>7 DEF ApartInv, NextFollows, GapIsPast

LEMMA ApartStep ==
    ASSUME SessionsWork, Inv, ApartInv, [Next]_vars
    PROVE  ApartInv'
<1>1. \A c \in Calls : day[c] \in Int
  BY DEF Inv, TypeOK, Days
<1>2. today \in Int
  BY DEF Inv, TypeOK, Days
<1>3. CASE Call
  <2>1. /\ periods' = periods /\ next' = next
        /\ \A d \in Calls \ {DailyJob} : pc'[d] = pc[d] /\ day'[d] = day[d]
        /\ pc'[DailyJob] = "wait" /\ pc[DailyJob] = "idle" /\ day'[DailyJob] = today
    BY <1>3 DEF Call, Goto, Inv, TypeOK, Calls
  <2>2. \A i \in DOMAIN periods : Open(periods) = {} => periods[i].end < today
    BY RowIsPeriod DEF Open, Inv, PeriodsInv, PeriodsAreOrdered
  <2>3. GapIsPast'
    BY <2>1, <2>2 DEF ApartInv, GapIsPast
  <2>4. \A c \in Calls : day[c] <= today
    BY DEF Inv, PeriodsInv, CallIsCurrent
  <2>5. \A c \in Calls : day'[c] \in Int /\ day[c] <= day'[c]
    BY <1>1, <1>2, <2>1, <2>4
  <2> QED BY <2>1, <2>3, <2>5, ApartKept
<1>4. CASE TradeExits \/ DayPasses \/ UNCHANGED vars
  <2>1. UNCHANGED <<periods, pc, day, next>>
    BY <1>4 DEF TradeExits, DayPasses, vars, callVars
  <2>2. GapIsPast'
    BY <2>1 DEF ApartInv, GapIsPast, Open
  <2> QED BY <1>1, <2>1, <2>2, ApartKept
<1>5. CASE Crash
  <2>1. /\ periods' = periods /\ \A c \in Calls : pc'[c] \in {"wait", "idle"}
        /\ \A c \in Calls : pc'[c] = "wait" => c = Startup
        /\ \A c \in Calls : day'[c] = day[c] \/ day'[c] = today
        /\ day'[Startup] = today
    BY <1>5, CapitalOK DEF Crash, Inv, TypeOK, Calls
  <2>2. \A i \in DOMAIN periods : Open(periods) = {} => periods[i].end < today
    BY RowIsPeriod DEF Open, Inv, PeriodsInv, PeriodsAreOrdered
  <2>3. GapIsPast'
    BY <2>1, <2>2 DEF GapIsPast
  <2>4. \A c \in Calls : day[c] <= today
    BY DEF Inv, PeriodsInv, CallIsCurrent
  <2>5. \A c \in Calls : day'[c] \in Int /\ day[c] <= day'[c]
    BY <1>1, <1>2, <2>1, <2>4
  <2> QED BY <2>1, <2>3, <2>5, ApartKept
<1>6. ASSUME NEW c \in Calls, Enter(c) PROVE ApartInv'
  <2>1. /\ periods' = periods /\ day' = day /\ next' = next
        /\ \A d \in Calls \ {c} : pc'[d] = pc[d]
        /\ pc'[c] = "get" /\ pc[c] = "wait"
    BY <1>6 DEF Enter, Goto, Inv, TypeOK
  <2>2. GapIsPast'
    BY <2>1 DEF ApartInv, GapIsPast
  <2> QED BY <1>1, <2>1, <2>2, ApartKept
<1>7. ASSUME NEW c \in Calls, SumPnl(c) PROVE ApartInv'
  <2>1. /\ periods' = periods /\ day' = day /\ next' = next
        /\ \A d \in Calls \ {c} : pc'[d] = pc[d]
        /\ pc'[c] = "close" /\ pc[c] = "sum"
    BY <1>7 DEF SumPnl, Goto, Inv, TypeOK
  <2>2. Open(periods) # {}
    BY <2>1 DEF Inv, PeriodsInv, CallIsCurrent
  <2>3. GapIsPast'
    BY <2>1, <2>2 DEF GapIsPast
  <2> QED BY <1>1, <2>1, <2>3, ApartKept
<1>8. ASSUME NEW c \in Calls PROVE ~Fails(c)
  BY DEF SessionsWork, Fails
<1> QED BY <1>3, <1>4, <1>5, <1>6, <1>7, <1>8, ApartGet, ApartClose, ApartCreate, ApartHeal
        DEF Next, Rollover

\* No day is counted in two periods: the row that follows a closed one starts after it, and
\* so does the one that a call makes when it finds none open, after a restart between the
\* two sessions.
THEOREM DaysCountedOnce == ASSUME SessionsWork PROVE Spec => []PeriodsApart
<1>1. ApartInv => PeriodsApart
  BY DEF ApartInv, RowsFollow
<1>2. Inv /\ ApartInv /\ [Next]_vars => ApartInv'
  BY ApartStep
<1> QED BY <1>1, <1>2, ApartInit, InitInv, NextStep, PTL DEF Spec

-----------------------------------------------------------------------------
(* Between calls the risk manager works with the open period.              *)

LEMMA FollowInit == Init => FollowInv
<1> SUFFICES ASSUME Init PROVE FollowInv
  OBVIOUS
<1>1. Startup \in Calls /\ pc[Startup] # "idle" /\ \A c \in Calls : day[c] = 1
  BY DEF Init, Calls
<1>2. \A c \in Calls : pc[c] # "heal"
  BY DEF Init
<1> QED BY <1>1, <1>2 DEF FollowInv, Applied, Covered, HealsItsOwn

\* A call that goes on covers itself, and those whose period it finds over.
LEMMA FollowOn ==
    ASSUME Inv, FollowInv, day' = day, NEW c \in Calls, pc'[c] # "idle",
           \A d \in Calls \ {c} : pc'[d] = pc[d], pc[c] \in InLock, HealsItsOwn(c)',
           \A i \in Open(periods) :
              \/ i \in Open(periods') /\ periods'[i].end = periods[i].end
              \/ periods[i].end < day[c]
    PROVE  FollowInv'
<1>1. Applied'
  BY DEF Applied
<1>2. ASSUME NEW e \in Calls PROVE Covered(e)'
  <2>1. /\ day[e] \in Int /\ day[c] \in Int
        /\ \A i \in Open(periods) : periods[i].end \in Int
    BY RowIsPeriod DEF Inv, TypeOK, Days, Open
  <2>2. ASSUME NEW i \in Open(periods), day[e] <= periods[i].end PROVE Covered(e)'
    <3>1. CASE i \in Open(periods') /\ periods'[i].end = periods[i].end
      BY <2>2, <3>1 DEF Covered
    <3>2. CASE periods[i].end < day[c]
      <4>1. day[e] <= day[c]
        BY <2>1, <2>2, <3>2
      <4> QED BY <4>1 DEF Covered
    <3> QED BY <3>1, <3>2
  <2>3. ASSUME NEW d \in Calls, pc[d] # "idle", day[e] <= day[d] PROVE Covered(e)'
    <3>1. pc'[d] # "idle"
      BY <2>3
    <3> QED BY <2>3, <3>1 DEF Covered
  <2> QED BY <2>2, <2>3 DEF FollowInv, Covered
<1>3. \A d \in Calls : HealsItsOwn(d)'
  BY Alone DEF HealsItsOwn, InLock
<1> QED BY <1>1, <1>2, <1>3 DEF FollowInv

\* A call that returns has applied the one open period, which covers its day.
LEMMA FollowReturn ==
    ASSUME Inv, FollowInv, day' = day, NEW c \in Calls,
           \A d \in Calls \ {c} : pc'[d] = pc[d], pc[c] \in InLock, HealsItsOwn(c)',
           NEW i \in Open(periods'), riskCapital' = periods'[i].capital,
           periods'[i].end \in Int, day[c] <= periods'[i].end,
           \A j \in Open(periods) : j = i /\ periods[j].end = periods'[i].end
    PROVE  FollowInv'
<1>1. Applied'
  BY DEF Applied
<1>2. ASSUME NEW e \in Calls PROVE Covered(e)'
  <2>1. day[e] \in Int /\ day[c] \in Int
    BY DEF Inv, TypeOK, Days
  <2>2. ASSUME NEW j \in Open(periods), day[e] <= periods[j].end PROVE Covered(e)'
    BY <2>2 DEF Covered
  <2>3. ASSUME NEW d \in Calls, pc[d] # "idle", day[e] <= day[d] PROVE Covered(e)'
    <3>1. CASE d = c
      <4>1. day[e] <= periods'[i].end
        BY <2>1, <2>3, <3>1
      <4> QED BY <4>1 DEF Covered
    <3>2. CASE d # c
      <4>1. pc'[d] # "idle"
        BY <2>3, <3>2
      <4> QED BY <2>3, <4>1 DEF Covered
    <3> QED BY <3>1, <3>2
  <2> QED BY <2>2, <2>3 DEF FollowInv, Covered
<1>3. \A d \in Calls : HealsItsOwn(d)'
  BY Alone DEF HealsItsOwn, InLock
<1> QED BY <1>1, <1>2, <1>3 DEF FollowInv

LEMMA FollowContinue ==
    ASSUME Inv, FollowInv, day' = day, NEW c \in Calls, pc[c] \in InLock,
           NEW i, Open(periods') = {i}, periods'[i] \in Period,
           Continue(c, i, periods'[i]),
           \A j \in Open(periods) : j = i /\ periods[j].end = periods'[i].end
    PROVE  FollowInv'
<1>1. periods'[i].end \in Int /\ day[c] \in Int
  BY DEF Period, Inv, TypeOK, Days
<1>2. ASSUME NEW label \in {"sum", "heal"}, GoOn(c, i, label),
             label = "heal" => ~Overdue(c, periods'[i])
      PROVE  FollowInv'
  <2>1. pc'[c] = label /\ pc'[c] # "idle" /\ \A d \in Calls \ {c} : pc'[d] = pc[d]
    BY <1>2 DEF GoOn, Goto, Inv, TypeOK
  <2>2. HealsItsOwn(c)'
    BY <1>1, <1>2, <2>1 DEF HealsItsOwn, Overdue
  <2> QED BY <2>1, <2>2, FollowOn
<1>3. ASSUME Finish(c, periods'[i].capital), ~Overdue(c, periods'[i]) PROVE FollowInv'
  <2>1. /\ riskCapital' = periods'[i].capital /\ day[c] <= periods'[i].end
        /\ pc'[c] = "idle" /\ \A d \in Calls \ {c} : pc'[d] = pc[d]
    BY <1>1, <1>3 DEF Finish, Leave, Goto, Overdue, Inv, TypeOK
  <2>2. HealsItsOwn(c)'
    BY <2>1 DEF HealsItsOwn
  <2> QED BY <1>1, <2>1, <2>2, FollowReturn
<1> QED BY <1>2, <1>3 DEF Continue

LEMMA FollowGet ==
    ASSUME Inv, FollowInv, NEW c \in Calls, Get(c)
    PROVE  FollowInv'
<1>1. UNCHANGED <<periods, day>> /\ pc[c] \in InLock
  BY DEF Get, InLock
<1>2. ASSUME NEW i \in LatestOpen(periods), Continue(c, i, periods[i]) PROVE FollowInv'
  <2>1. /\ Open(periods') = {i} /\ periods'[i] = periods[i] /\ periods'[i] \in Period
        /\ \A j \in Open(periods) : j = i
    BY <1>1, RowIsPeriod DEF LatestOpen, Open, Inv, TypeOK, PeriodsInv, OneOpenPeriod
  <2> QED BY <1>1, <1>2, <2>1, FollowContinue
<1>3. ASSUME Goto(c, "create") PROVE FollowInv'
  <2>1. pc'[c] = "create" /\ \A d \in Calls \ {c} : pc'[d] = pc[d]
    BY <1>3 DEF Goto, Inv, TypeOK
  <2>2. Open(periods') = Open(periods)
    BY <1>1 DEF Open
  <2>3. HealsItsOwn(c)'
    BY <2>1 DEF HealsItsOwn
  <2> QED BY <1>1, <2>1, <2>2, <2>3, FollowOn
<1> QED BY <1>2, <1>3 DEF Get

LEMMA FollowClose ==
    ASSUME Inv, FollowInv, NEW c \in Calls, Close(c)
    PROVE  FollowInv'
<1>1. pc[c] = "close" /\ pc[c] \in InLock /\ day' = day /\ Goto(c, "create")
  BY DEF Close, InLock
<1>2. pc'[c] = "create" /\ \A d \in Calls \ {c} : pc'[d] = pc[d]
  BY <1>1 DEF Goto, Inv, TypeOK
<1>3. \A i \in Open(periods) : periods[i].end < day[c]
  BY <1>1 DEF Inv, PeriodsInv, CallIsCurrent
<1>4. HealsItsOwn(c)'
  BY <1>2 DEF HealsItsOwn
<1> QED BY <1>1, <1>2, <1>3, <1>4, FollowOn

LEMMA FollowCreate ==
    ASSUME Inv, FollowInv, NEW c \in Calls, Create(c)
    PROVE  FollowInv'
<1> DEFINE n == Len(periods) + 1
<1>1. /\ pc[c] = "create" /\ pc[c] \in InLock /\ Continue(c, n, next[c]) /\ day' = day
      /\ periods' = Append(periods, next[c])
  BY DEF Create, InLock
<1>2. /\ periods \in Seq(Period) /\ next[c] \in Period /\ Open(periods) = {}
      /\ ~next[c].closed
  BY <1>1 DEF Inv, PeriodsInv, CallIsCurrent, TypeOK
<1>3. /\ DOMAIN periods' = DOMAIN periods \cup {n} /\ periods'[n] = next[c]
      /\ \A i \in DOMAIN periods : periods'[i] = periods[i]
  <2>1. /\ periods' \in Seq(Period) /\ Len(periods') = n /\ Len(periods) \in Nat
        /\ periods'[n] = next[c] /\ \A i \in 1 .. Len(periods) : periods'[i] = periods[i]
    BY <1>1, <1>2, AppendProperties
  <2> QED BY <1>2, <2>1
<1> HIDE DEF n
<1>4. Open(periods') = {n}
  BY <1>2, <1>3 DEF Open
<1> QED BY <1>1, <1>2, <1>3, <1>4, FollowContinue

LEMMA FollowHeal ==
    ASSUME Inv, FollowInv, NEW c \in Calls, Heal(c)
    PROVE  FollowInv'
<1> DEFINE a == active[c]
           healed == [periods[a] EXCEPT !.capital = Default]
<1>1. /\ pc[c] = "heal" /\ pc[c] \in InLock /\ Leave(c) /\ day' = day
      /\ riskCapital' = Default /\ periods' = [periods EXCEPT ![a] = healed]
  BY DEF Heal, Finish, InLock
<1>2. /\ periods \in Seq(Period) /\ a \in DOMAIN periods /\ Open(periods) = {a}
      /\ periods[a] \in Period /\ ~periods[a].closed
  BY <1>1, RowIsPeriod DEF Inv, PeriodsInv, CallIsCurrent, TypeOK, Open
<1>3. /\ healed.end = periods[a].end /\ healed.capital = Default /\ ~healed.closed
      /\ healed.end \in Int
  <2>1. periods[a].end \in Int
    BY <1>2, RowIsPeriod
  <2>2. healed.capital = Default
    BY <1>2 DEF Period
  <2> QED BY <1>2, <2>1, <2>2, HealedRow
<1>4. a \in DOMAIN periods' /\ periods'[a] = healed
  BY <1>1, <1>2
<1> HIDE DEF healed
<1>5. a \in Open(periods')
  BY <1>3, <1>4 DEF Open
<1>6. pc'[c] = "idle" /\ \A d \in Calls \ {c} : pc'[d] = pc[d]
  BY <1>1 DEF Leave, Goto, Inv, TypeOK
<1>7. HealsItsOwn(c)'
  BY <1>6 DEF HealsItsOwn
<1>8. day[c] <= periods[a].end
  BY <1>1, <1>2 DEF FollowInv, HealsItsOwn
<1> QED BY <1>1, <1>2, <1>3, <1>4, <1>5, <1>6, <1>7, <1>8, FollowReturn

LEMMA FollowStep ==
    ASSUME SessionsWork, Inv, FollowInv, [Next]_vars
    PROVE  FollowInv'
<1>1. \A c \in Calls : day[c] \in Int /\ day[c] <= today
  BY DEF Inv, TypeOK, Days, PeriodsInv, CallIsCurrent
<1>2. CASE Call
  <2>1. /\ periods' = periods /\ DailyJob \in Calls
        /\ \A d \in Calls \ {DailyJob} : pc'[d] = pc[d] /\ day'[d] = day[d]
        /\ pc'[DailyJob] = "wait" /\ pc[DailyJob] = "idle" /\ day'[DailyJob] = today
    BY <1>2 DEF Call, Goto, Inv, TypeOK, Calls
  <2>2. today <= today
    BY DEF Inv, TypeOK, Days
  <2>3. Applied'
    BY <2>1 DEF Applied
  <2>4. Covered(DailyJob)'
    BY <2>1, <2>2 DEF Covered
  <2>5. ASSUME NEW e \in Calls \ {DailyJob} PROVE Covered(e)' /\ HealsItsOwn(e)'
    BY <2>1 DEF FollowInv, Covered, HealsItsOwn, Open
  <2> QED BY <2>1, <2>3, <2>4, <2>5 DEF FollowInv, HealsItsOwn
<1>3. CASE TradeExits \/ DayPasses \/ UNCHANGED vars
  BY <1>3 DEF TradeExits, DayPasses, vars, callVars, FollowInv, Applied, Covered,
     HealsItsOwn, Open
<1>4. CASE Crash
  <2>1. /\ \A c \in Calls : pc'[c] \in {"wait", "idle"} /\ day'[c] <= today
        /\ Startup \in Calls /\ pc'[Startup] = "wait" /\ day'[Startup] = today
    BY <1>1, <1>4, CapitalOK DEF Crash, Inv, TypeOK, Calls, Days
  <2> QED BY <2>1 DEF FollowInv, Applied, Covered, HealsItsOwn
<1>5. ASSUME NEW c \in Calls, Enter(c) PROVE FollowInv'
  <2>1. /\ periods' = periods /\ day' = day /\ \A d \in Calls \ {c} : pc'[d] = pc[d]
        /\ pc'[c] = "get" /\ pc[c] = "wait"
    BY <1>5 DEF Enter, Goto, Inv, TypeOK
  <2>2. \A d \in Calls : pc[d] # "idle" => pc'[d] # "idle"
    BY <2>1
  <2>3. Applied' /\ \A d \in Calls : Covered(d)'
    BY <2>1, <2>2 DEF FollowInv, Applied, Covered, Open
  <2>4. \A d \in Calls : HealsItsOwn(d)'
    BY <2>1 DEF FollowInv, HealsItsOwn, Open
  <2> QED BY <2>3, <2>4 DEF FollowInv
<1>6. ASSUME NEW c \in Calls, SumPnl(c) PROVE FollowInv'
  <2>1. /\ periods' = periods /\ day' = day /\ \A d \in Calls \ {c} : pc'[d] = pc[d]
        /\ pc'[c] = "close" /\ pc[c] = "sum" /\ pc[c] \in InLock
    BY <1>6 DEF SumPnl, Goto, Inv, TypeOK, InLock
  <2>2. HealsItsOwn(c)' /\ Open(periods') = Open(periods)
    BY <2>1 DEF HealsItsOwn, Open
  <2> QED BY <2>1, <2>2, FollowOn
<1>7. ASSUME NEW c \in Calls PROVE ~Fails(c)
  BY DEF SessionsWork, Fails
<1> QED BY <1>2, <1>3, <1>4, <1>5, <1>6, <1>7, FollowGet, FollowClose, FollowCreate,
           FollowHeal DEF Next, Rollover

\* Whenever no call is under way the limits are computed from the capital of the open
\* period, and that period covers the days of the calls, through restarts in the middle of
\* a rollover and of a period.
THEOREM RiskFollows == ASSUME SessionsWork PROVE Spec => []RiskFollowsPeriod
<1>1. Inv /\ ApartInv /\ FollowInv => RiskFollowsPeriod
  <2> SUFFICES ASSUME Inv, ApartInv, FollowInv, \A c \in Calls : pc[c] = "idle"
               PROVE  \E i \in Open(periods) :
                         /\ riskCapital = periods[i].capital
                         /\ \A c \in Calls : day[c] <= periods[i].end
                         /\ \E c \in Calls : periods[i].start <= day[c]
    BY DEF RiskFollowsPeriod
  <2>1. PICK i \in Open(periods) : riskCapital = periods[i].capital
    BY DEF FollowInv, Applied
  <2>2. \A j \in Open(periods) : j = i
    BY DEF Inv, PeriodsInv, OneOpenPeriod
  <2>3. \A c \in Calls : day[c] <= periods[i].end
    BY <2>2 DEF FollowInv, Covered
  <2>4. \E c \in Calls : periods[i].start <= day[c]
    BY DEF ApartInv, RowsFollow
  <2> QED BY <2>1, <2>3, <2>4
<1>2. Inv /\ ApartInv /\ [Next]_vars => ApartInv'
  BY ApartStep
<1>3. Inv /\ FollowInv /\ [Next]_vars => FollowInv'
  BY FollowStep
<1> QED BY <1>1, <1>2, <1>3, ApartInit, FollowInit, InitInv, NextStep, PTL DEF Spec
=============================================================================
