---------------------------- MODULE PullbackSignals ---------------------------
(***************************************************************************)
(* How MomentumStrategy (src/strategies/momentum.py) waits for a trend, a  *)
(* pullback of it and the breakout that ends the pullback, or for a trend  *)
(* that just goes on, before it signals an entry.  One symbol: the engine  *)
(* reads it once a minute, a step is a bar of five minutes, the bar is not *)
(* always known, and the trend is judged anew at every read.               *)
(***************************************************************************)
EXTENDS Integers, FiniteSets

CONSTANTS
    MaxPullback,     \* max_pullback_bars
    MinEstablished,  \* breakdown_min_established_bars
    LastCandle,      \* bound: bars of the day
    LastClose        \* bound: the closes are 1 .. LastClose

ASSUME MaxPullbackAssumption == MaxPullback \in Nat /\ MaxPullback >= 2
ASSUME MinEstablishedAssumption == MinEstablished \in Nat /\ MinEstablished >= 2

VARIABLES
    candle,      \* ohlc_bar_key as time goes on
    trend,       \* _trend_state, _trend_direction, _pullback_ref, _pullback_bars and
                 \* _established_bars
    lastCandle,  \* _pullback_bar_key
    signal,      \* what the last read returned, and the close it read
    from,        \* ghost: the close at which the trend was established
    bars,        \* ghost: the bars on which the strategy has looked at it since
    since        \* ghost: and those since the reference close was last moved

ghosts == <<from, bars, since>>
pullVars == <<candle, trend, lastCandle, signal, ghosts>>

Ways == {"BUY", "SELL"}
NoCandle == 0
Candles == 0 .. LastCandle
Closes == 1 .. LastClose

\* _reset_pullback_state()
NoTrend == [state |-> "none", dir |-> "none", ref |-> 0, pulled |-> 0, extended |-> 0]

Hold == [dir |-> "HOLD", at |-> 0]

\* The types of all variables.
PullTypeOK ==
    /\ candle \in 1 .. LastCandle /\ lastCandle \in Candles
    /\ trend = NoTrend \/ trend \in [state : {"ESTABLISHED", "PULLBACK"}, dir : Ways,
                                     ref : Closes, pulled : 0 .. MaxPullback - 1,
                                     extended : Candles]
    /\ trend.state = "PULLBACK" <=> trend.pulled > 0
    /\ signal = Hold \/ signal \in [dir : Ways, at : Closes]
    /\ from \in 0 .. LastClose
    /\ bars \subseteq Candles /\ since \subseteq bars

PullInit ==
    /\ candle = 1
    /\ trend = NoTrend /\ lastCandle = NoCandle /\ signal = Hold
    /\ from = 0 /\ bars = {} /\ since = {}

-----------------------------------------------------------------------------

\* Close c is beyond r in direction d.
Beyond(d, c, r) == IF d = "BUY" THEN c > r ELSE c < r

\* The direction that a read works with: the one that qualifies for an entry, or else the
\* tracked one while it is still valid.
Judged(raw, still) ==
    IF raw = "none" /\ still = trend.dir THEN trend.dir ELSE raw

\* Mutant: every read is taken for a new bar.
IsNewBarAlways(b) == b # NoCandle

IsNewBar(b) == b # NoCandle /\ b # lastCandle

\* What a read leaves: the trend, the signal and the ghosts.
Leave(t, s) == trend' = t /\ signal' = s
Forget == Leave(NoTrend, Hold) /\ from' = 0 /\ bars' = {} /\ since' = {}
Keep == Leave(trend, Hold) /\ UNCHANGED ghosts

\* A new setup, if the bar is known and the price is not too far off.
Establish(d, b, c, near) ==
    IF b # NoCandle /\ near
    THEN /\ Leave([state |-> "ESTABLISHED", dir |-> d, ref |-> c, pulled |-> 0,
                   extended |-> 0], Hold)
         /\ from' = c /\ bars' = {b} /\ since' = {b}
    ELSE Forget

\* The first bar that does not go beyond the reference.
PullBack(b, c) ==
    /\ Leave([trend EXCEPT !.state = "PULLBACK", !.pulled = 1], Hold)
    /\ bars' = bars \cup {b} /\ since' = since \cup {b} /\ UNCHANGED from

\* The trend goes on: after enough bars, with a high volume, that is a signal too.
Extend(b, c, rvol) ==
    /\ IF trend.extended + 1 >= MinEstablished /\ rvol = "high"
       THEN Leave(NoTrend, [dir |-> trend.dir, at |-> c])
       ELSE Leave([trend EXCEPT !.ref = c, !.extended = @ + 1], Hold)
    /\ bars' = bars \cup {b} /\ since' = {b} /\ UNCHANGED from

\* One bar more of a pullback, which may be one too many.
GoOn(b) ==
    IF trend.pulled + 1 >= MaxPullback
    THEN Forget
    ELSE /\ Leave([trend EXCEPT !.pulled = @ + 1], Hold)
         /\ bars' = bars \cup {b} /\ since' = since \cup {b} /\ UNCHANGED from

\* The pullback ends with a breakout that has volume.
BreakOut(b, c, rvol) ==
    IF Beyond(trend.dir, c, trend.ref) /\ rvol # "low"
    THEN /\ Leave(NoTrend, [dir |-> trend.dir, at |-> c])
         /\ bars' = bars \cup {b} /\ since' = since \cup {b} /\ UNCHANGED from
    ELSE GoOn(b)

\* _pullback_continuation_signal() for direction d on bar b.
Evaluate(d, b, c, near, rvol) ==
    \/ d = "none" /\ Forget
    \/ d # "none" /\ trend.state = "none" /\ Establish(d, b, c, near)
    \/ d # "none" /\ trend.state # "none" /\
          \/ ~IsNewBar(b) /\ Keep
          \/ IsNewBar(b) /\ trend.dir # d /\ Establish(d, b, c, near)
          \/ IsNewBar(b) /\ trend.dir = d /\
                \/ trend.state = "PULLBACK" /\ BreakOut(b, c, rvol)
                \/ trend.state = "ESTABLISHED" /\
                      \/ Beyond(d, c, trend.ref) /\ Extend(b, c, rvol)
                      \/ ~Beyond(d, c, trend.ref) /\ PullBack(b, c)

\* generate_signal(), also while the strategy is paused.  Relative volumes are "low" below
\* rvol_entry_threshold or unknown, and "high" from breakdown_rvol_min.
Read ==
    \E raw \in Ways \cup {"none"}, still \in Ways \cup {"none"}, b \in {candle, NoCandle},
       c \in Closes, near \in BOOLEAN, rvol \in {"low", "ok", "high"} :
        /\ raw # "none" => still = raw
        /\ lastCandle' = IF b = NoCandle THEN lastCandle ELSE b
        /\ Evaluate(Judged(raw, still), b, c, near, rvol)
        /\ UNCHANGED candle

\* The record of the symbol has no close.
NoClose == Forget /\ UNCHANGED <<candle, lastCandle>>

NextCandle ==
    /\ candle < LastCandle /\ candle' = candle + 1
    /\ UNCHANGED <<trend, lastCandle, signal, ghosts>>

\* on_pause(), or a new process: _restore_momentum_state() restores nothing of the trend.
Reset == Forget /\ lastCandle' = NoCandle /\ UNCHANGED candle

PullNext == Read \/ NoClose \/ NextCandle \/ Reset

PullSpec == PullInit /\ [][PullNext]_pullVars

-----------------------------------------------------------------------------
(* Properties.                                                             *)

\* A signal needs a trend that was looked at on three bars or more, the establishing one
\* and the breakout included, however often each bar is read (the is_new_bar guard of
\* _pullback_continuation_signal()).
SignalTakesBars == signal # Hold => Cardinality(bars) >= 3

\* A pullback ends before MaxPullback bars: between the reference and the breakout there are
\* fewer, whether the price did not break out on them or the volume did not confirm it.
SignalIsFresh == signal # Hold => Cardinality(since) <= MaxPullback + 1

\* A signal is given on a close beyond the one at which the trend was established, however
\* far the price has come back in between (the reference stays during a pullback).
SignalIsBreakout == signal # Hold => Beyond(signal.dir, signal.at, from)

\* A signal has been waited for, but not too long, and the price confirms it.
SignalIsEarned == SignalTakesBars /\ SignalIsFresh /\ SignalIsBreakout
=============================================================================
