------------------------------ MODULE TickRecord -------------------------------
(***************************************************************************)
(* The Redis record tick:{symbol} of one symbol, which three writers read, *)
(* change and write back without a lock: the thread of the ticker          *)
(* (src/market_data/zerodha_ticker.py with update_intraday_bar() of        *)
(* src/core/utils.py), the poll of src/market_data/ltp_poller.py and the   *)
(* REST poll of src/market_data/zerodha_ltp_poller.py.  The engine reads it *)
(* before an entry.                                                        *)
(*                                                                         *)
(* The clock counts minutes, the period of the poll; a day has DayLength   *)
(* of them, the last two after the close.  Prices are left out: they take  *)
(* the ways of the bars.                                                   *)
(***************************************************************************)
EXTENDS Integers

CONSTANTS
    LastMinute,  \* bound: minutes
    DayLength,   \* minutes of a day
    BarLength,   \* minutes of a bar
    MaxVolume,   \* bound: volume traded on a day
    RvolBars,    \* closed bars that a relative volume needs
    MaxFailedReads \* bound

ASSUME TickConstants ==
    /\ {LastMinute, DayLength, BarLength, MaxVolume, RvolBars, MaxFailedReads} \subseteq Nat
    /\ DayLength > 2 /\ BarLength > 0

Absent == -1

VARIABLES
    now,
    traded,      \* volume of the day, as the exchange counts it
    rec,         \* the record
    tick,        \* what the ticker has read, and the volume of its tick
    poll,        \* what the poll has read
    rest,        \* what the REST poll has read
    polled,      \* history: when the indicators of the symbol were computed
    faults

tickVars == <<now, traded, rec, tick, poll, rest, polled, faults>>

Today == now \div DayLength + 1
Bar == now \div BarLength
IsOpen == now % DayLength < DayLength - 2

\* The ages of what the poll writes, in minutes, as far as it matters.
Old == 2
Ages == Absent .. Old
Aged(age) == IF age \in {Absent, Old} THEN age ELSE age + 1

Records ==
    [day : 0 .. Today,        \* day_range_date
     closed : 0 .. Bar,       \* bars_today: how many,
     total : 0 .. MaxVolume,  \* and the sum of their volumes
     key : 0 .. Bar, volume : 0 .. MaxVolume,   \* the bar that is forming
     cum : Absent .. MaxVolume, \* _last_cum_volume
     base : 0 .. MaxVolume,   \* history: its value at the first tick of the day
     ws : BOOLEAN,            \* _ws_last_tick_at is younger than the REST poll's window
     stamp : Ages,            \* timestamp, written by the poll
     rvol : BOOLEAN]          \* rvol_closed_bar_valid

\* No record, or one that has nothing of what the writers look at.
Empty == [day |-> 0, closed |-> 0, total |-> 0, key |-> 0, volume |-> 0, cum |-> Absent,
          base |-> 0, ws |-> FALSE, stamp |-> Absent, rvol |-> FALSE]

Idle == [phase |-> "idle", rec |-> Empty]

\* A copy is as old as the window of the REST poll does not matter to it.
Reading(phase) == [phase |-> phase, rec |-> [rec EXCEPT !.ws = FALSE]]

RecordTypeOK ==
    /\ now \in 0 .. LastMinute /\ traded \in 0 .. MaxVolume
    /\ rec \in Records
    /\ tick.phase \in {"idle", "read"} /\ rest.phase \in {"idle", "read"}
    /\ poll.phase \in {"idle", "read", "blind"}
    /\ polled \in Ages
    /\ faults \in 0 .. MaxFailedReads

RecordInit ==
    /\ now = 0 /\ traded = 0 /\ rec = Empty
    /\ tick = Idle /\ poll = Idle /\ rest = Idle
    /\ polled = Absent /\ faults = 0

-----------------------------------------------------------------------------
(* update_intraday_bar()                                                   *)

VolumeSince(r, volume) ==
    IF r.cum = Absent \/ volume < r.cum THEN 0 ELSE volume - r.cum

\* The first tick of a day: its volume is the base, and counts for no bar.
DayStarted(r, volume) ==
    [r EXCEPT !.day = Today, !.closed = 0, !.total = 0, !.key = Bar, !.volume = 0,
              !.cum = volume, !.base = volume]

BarUpdated(r, volume) ==
    [r EXCEPT !.volume = @ + VolumeSince(r, volume), !.cum = volume]

\* What the tick brings counts for the bar that begins with it.
BarClosed(r, volume) ==
    [r EXCEPT !.closed = @ + 1, !.total = @ + r.volume,
              !.key = Bar, !.volume = VolumeSince(r, volume), !.cum = volume]

IntradayBar(r, volume) ==
    CASE r.day # Today -> DayStarted(r, volume)
      [] r.day = Today /\ r.key = Bar -> BarUpdated(r, volume)
      [] OTHER -> BarClosed(r, volume)

-----------------------------------------------------------------------------
(* The ticker: _on_ticks()                                                 *)

TickReads ==
    /\ tick.phase = "idle" /\ IsOpen
    /\ tick' = Reading("read")
    /\ \E volume \in {traded, traded + 1} \cap 0 .. MaxVolume : traded' = volume
    /\ UNCHANGED <<now, rec, poll, rest, polled, faults>>

TickWrites ==
    /\ tick.phase = "read"
    /\ rec' = [IntradayBar(tick.rec, traded) EXCEPT !.ws = TRUE]
    /\ tick' = Idle
    /\ UNCHANGED <<now, traded, poll, rest, polled, faults>>

-----------------------------------------------------------------------------
(* The REST poll: refresh_ltp()                                            *)

\* It leaves a record alone that the ticker wrote lately.
RestReads ==
    /\ rest.phase = "idle" /\ IsOpen /\ ~rec.ws
    /\ rest' = Reading("read")
    /\ UNCHANGED <<now, traded, rec, tick, poll, polled, faults>>

RestWrites ==
    /\ rest.phase = "read"
    /\ rec' = rest.rec
    /\ rest' = Idle
    /\ UNCHANGED <<now, traded, tick, poll, polled, faults>>

-----------------------------------------------------------------------------
(* LTPPoller.poll()                                                        *)

Blind == [Idle EXCEPT !.phase = "blind"]

IsLive(r) == r.day = Today

\* _read_day_range(), which takes a read that fails for a day without ticks.
PollReads ==
    /\ poll.phase = "idle" /\ IsOpen
    /\ \/ poll' = (IF IsLive(rec) THEN Reading("read") ELSE Blind) /\ UNCHANGED faults
       \/ poll' = Blind /\ faults < MaxFailedReads /\ faults' = faults + 1
    /\ UNCHANGED <<now, traded, rec, tick, rest, polled>>

\* _enrich(): the indicators, from the history and the bars of the day.
Enriched(live, closed) ==
    [Empty EXCEPT !.stamp = 0, !.rvol = live /\ closed >= RvolBars]

\* Mutant: as it was before 2026-08-21.
CarriedBarsOnly(to, from) ==
    [to EXCEPT !.day = from.day, !.closed = from.closed, !.total = from.total,
               !.key = from.key, !.base = from.base]

\* The fields of the day, which the poll takes over.
Carried(to, from) ==
    [to EXCEPT !.day = from.day, !.closed = from.closed, !.total = from.total,
               !.key = from.key, !.volume = from.volume, !.cum = from.cum, !.base = from.base]

PollWrites ==
    /\ poll.phase \in {"read", "blind"}
    /\ LET live == poll.phase = "read"
           enriched == Enriched(live, poll.rec.closed)
       IN  rec' = IF live THEN Carried(enriched, poll.rec) ELSE enriched
    /\ polled' = 0
    /\ poll' = Idle
    /\ UNCHANGED <<now, traded, tick, rest, faults>>

-----------------------------------------------------------------------------
(* The engine.                                                             *)

\* _get_market_data(): not older than _MARKET_DATA_MAX_AGE_SECONDS, 90.
Usable(r) == r.stamp \in {0, 1}

-----------------------------------------------------------------------------
\* A minute goes by, which is long for a read and the write after it.
Minute ==
    /\ now < LastMinute /\ now' = now + 1
    /\ \A writer \in {tick, poll, rest} : writer = Idle
    /\ rec' = [rec EXCEPT !.ws = FALSE, !.stamp = Aged(@)]
    /\ polled' = Aged(polled)
    /\ traded' = IF now' % DayLength = 0 THEN 0 ELSE traded
    /\ UNCHANGED <<tick, poll, rest, faults>>

\* So does the window of the REST poll.
TickAges ==
    /\ rec.ws /\ rec' = [rec EXCEPT !.ws = FALSE]
    /\ UNCHANGED <<now, traded, tick, poll, rest, polled, faults>>

RecordNext ==
    \/ TickReads \/ TickWrites
    \/ RestReads \/ RestWrites
    \/ PollReads \/ PollWrites
    \/ Minute \/ TickAges

RecordSpec == RecordInit /\ [][RecordNext]_tickVars

-----------------------------------------------------------------------------
(* What must hold.                                                         *)

AddsUp(r) == r.day # 0 => r.total + r.volume = r.cum - r.base

\* Whoever overwrites whom, the volumes of the bars and of the forming bar are
\* together what was traded from the first tick of the day to the last one the
\* record knows: an update that is lost is made up for by the next tick.
VolumeAddsUp == AddsUp(rec) /\ \A copy \in {tick, poll, rest} : AddsUp(copy.rec)

\* Once a bar is closed, no write throws away the day, as one may do that has read
\* the record before the first tick: it takes a poll that could not read it.
DayIsKept ==
    [][rec.day = Today /\ rec.closed > 0 /\ now' = now /\ faults = 0
         => rec'.day = Today]_tickVars

\* Data that the engine takes for an entry has indicators that were computed
\* within the age it allows, not those of an earlier poll under a younger stamp.
IndicatorsAreFresh == Usable(rec) => polled \in {0, 1}

\* A relative volume it takes comes from as many closed bars of this day as it needs.
RvolIsBacked == Usable(rec) /\ rec.rvol => rec.day = Today /\ rec.closed >= RvolBars

\* What the record says of the bars, the volumes and their age is so.
RecordIsTrue == [](VolumeAddsUp /\ IndicatorsAreFresh /\ RvolIsBacked) /\ DayIsKept
=============================================================================
