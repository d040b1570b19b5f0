--------------------------- MODULE CrossoverSignals ---------------------------
(***************************************************************************)
(* How EMACrossoverStrategy (src/strategies/ema_crossover.py) confirms a   *)
(* crossover before it enters, and a reversal before it exits: both have   *)
(* to be read on several distinct 5-minute bars, while the engine reads    *)
(* once a minute or oftener, does not always know the bar, pauses the      *)
(* strategy and restarts.  One symbol, and one contract of it.             *)
(***************************************************************************)
EXTENDS Integers, FiniteSets

CONSTANTS
    ConfirmBars,    \* signal_confirm_bars
    ReversalBars,   \* ema_reversal_confirm_bars
    LastBar,        \* bound: bars of the day
    MaxLost         \* bound: cycles that end before their state is saved

ASSUME ConfirmBarsAssumption == ConfirmBars \in Nat /\ ConfirmBars >= 2
ASSUME ReversalBarsAssumption == ReversalBars \in Nat /\ ReversalBars >= 2

VARIABLES
    bar,       \* ohlc_bar_key as time goes on
    seen,      \* the state of the strategy for the symbol, see Fresh
    saved,     \* its copy in Redis
    active,    \* is_active
    position,  \* the contract is "none", "open", or how it was closed
    reversal,  \* _reversal_pending_count and _reversal_pending_bar_key
    reads,     \* ghost: direction and bars read since the direction last changed,
               \* and the signals given since
    against,   \* ghost: bars on which the open position was last read as reversed
    stale,     \* ghost: the engine has closed the position that reversal counts for
    lost       \* ghost: cycles whose state was lost

signalVars == <<seen, saved, reads, lost>>
exitVars == <<position, reversal, against, stale>>
crossVars == <<bar, signalVars, exitVars, active>>

Dirs == {"FLAT", "BUY", "SELL"}
Unknown == 0
Bars == 0 .. LastBar
NoPending == [dir |-> "none", count |-> 0, bar |-> Unknown]
NoReversal == [count |-> 0, bar |-> Unknown]
Fresh == [prev |-> "none", pending |-> NoPending]

\* The types of all variables.
CrossTypeOK ==
    /\ bar \in 1 .. LastBar
    /\ \A s \in {seen, saved} :
          /\ s.prev \in Dirs \cup {"none"}
          /\ s.pending \in [dir : {"none", "BUY", "SELL"}, count : Bars, bar : Bars]
          /\ s.pending.dir \in {"none", s.prev}
    /\ active \in BOOLEAN
    /\ position \in {"none", "open", "reversed", "closed"}
    /\ reversal \in [count : 0 .. ReversalBars, bar : Bars]
    /\ reads \in [dir : Dirs \cup {"none"}, bars : SUBSET Bars, signals : Bars]
    /\ against \subseteq Bars
    /\ stale \in BOOLEAN /\ lost \in 0 .. MaxLost

CrossInit ==
    /\ bar = 1
    /\ seen = Fresh /\ saved = Fresh /\ active = TRUE
    /\ position = "none" /\ reversal = NoReversal
    /\ reads = [dir |-> "none", bars |-> {}, signals |-> 0]
    /\ against = {} /\ stale = FALSE /\ lost = 0

\* The bar that a read knows, if it knows one.
KnownBars == {bar, Unknown}

-----------------------------------------------------------------------------
(* Entries.                                                                *)

\* A bar that is known, after another one that was.
NewBar(b, last) == b # Unknown /\ last # Unknown /\ b # last

\* The relationship still holds.
Continue(p, b) ==
    CASE NewBar(b, p.bar)    -> [p EXCEPT !.count = @ + 1, !.bar = b]
      [] p.bar = Unknown     -> [p EXCEPT !.bar = b]
      [] OTHER               -> p

\* The pending signal after direction d was read on bar b.
Pending(d, b) ==
    CASE d = "FLAT"             -> NoPending
      [] d = seen.pending.dir   -> Continue(seen.pending, b)
      [] OTHER                  ->
            IF seen.prev \in {"BUY", "SELL"} /\ seen.prev # d
            THEN [dir |-> d, count |-> 1, bar |-> b]
            ELSE NoPending

\* The pending signal after it was given, or not yet.
Afterwards(p, signal) == IF signal THEN NoPending ELSE p

\* The ghost reads after direction d was read on bar b.
Noted(d, b, signal) ==
    LET r == IF d = reads.dir THEN reads ELSE [dir |-> d, bars |-> {}, signals |-> 0]
    IN  [r EXCEPT !.bars = @ \cup ({b} \ {Unknown}),
                  !.signals = IF signal THEN @ + 1 ELSE @]

\* A cycle: generate_signal(), also while the strategy is paused; the gates and the order
\* if it is active; and at last _persist_ema_state(), if it succeeds and is reached.
Cycle ==
    \E d \in Dirs, b \in KnownBars, good, taken, kept \in BOOLEAN :
        LET p == Pending(d, b)
            signal == d # "FLAT" /\ p.count >= ConfirmBars /\ good
            entered == signal /\ active /\ taken /\ position # "open"
            after == [prev |-> d, pending |-> Afterwards(p, signal)]
        IN  /\ Noted(d, b, signal).signals \in Bars
            /\ seen' = after
            /\ reads' = Noted(d, b, signal)
            /\ IF entered THEN /\ position' = "open" /\ against' = {}
                               /\ UNCHANGED <<reversal, stale>>
                          ELSE UNCHANGED exitVars
            /\ IF kept THEN saved' = after /\ UNCHANGED lost
                       ELSE /\ lost < MaxLost /\ lost' = lost + 1
                            /\ UNCHANGED saved
            /\ UNCHANGED <<bar, active>>

-----------------------------------------------------------------------------
(* Exits.                                                                  *)

\* The reversal count after a qualifying read on bar b.
Qualified(b) ==
    IF NewBar(b, reversal.bar) THEN [count |-> reversal.count + 1, bar |-> b]
    ELSE IF reversal.count = 0 THEN [count |-> 1, bar |-> b]
    ELSE IF reversal.bar = Unknown THEN [reversal EXCEPT !.bar = b]
    ELSE reversal

\* The position is closed, or its exit failed and it stays.
Exit(how) == \/ position' = how
             \/ UNCHANGED position

\* The EMAs are on the position's side, or too close to each other.
NotReversed ==
    /\ position = "open"
    /\ reversal' = NoReversal /\ against' = {} /\ stale' = FALSE
    /\ UNCHANGED <<bar, signalVars, active, position>>

\* The EMAs are on the other side, and the count is not complete or it is.
Reversed ==
    /\ position = "open"
    /\ \E b \in KnownBars :
          LET r == Qualified(b) IN
          /\ against' = against \cup ({b} \ {Unknown})
          /\ IF r.count >= ReversalBars
             THEN /\ reversal' = NoReversal /\ stale' = FALSE
                  /\ Exit("reversed")
             ELSE reversal' = r /\ UNCHANGED <<position, stale>>
    /\ UNCHANGED <<bar, signalVars, active>>

\* Mutant: the other exits leave the count.
OtherExitKeeps ==
    /\ position = "open"
    /\ Exit("closed")
    /\ UNCHANGED <<bar, signalVars, active, reversal, against, stale>>

\* A stop, the target, the stall or the profit booking of manage_position().
OtherExit ==
    /\ position = "open"
    /\ reversal' = NoReversal /\ stale' = FALSE
    /\ Exit("closed")
    /\ UNCHANGED <<bar, signalVars, active, against>>

\* The engine closes without asking the strategy: the square-off, the days to expiry, the
\* opposite signal of the strategy, or an operator.
EngineCloses ==
    /\ position = "open"
    /\ position' = "closed"
    /\ stale' = (reversal # NoReversal)
    /\ UNCHANGED <<bar, signalVars, active, reversal, against>>

-----------------------------------------------------------------------------
(* Time, pauses and restarts.                                              *)

NextBar ==
    /\ bar < LastBar /\ bar' = bar + 1
    /\ UNCHANGED <<signalVars, exitVars, active>>

\* deactivate() and on_pause(): what was pending is forgotten, prev_fast_ema stays.
Pause ==
    /\ active /\ active' = FALSE
    /\ seen' = [seen EXCEPT !.pending = NoPending]
    /\ reversal' = NoReversal /\ stale' = FALSE
    /\ UNCHANGED <<bar, saved, reads, lost, position, against>>

Resume ==
    /\ ~active /\ active' = TRUE
    /\ UNCHANGED <<bar, signalVars, exitVars>>

\* A new process: _restore_ema_state() restores what was saved, the reversal count is lost.
Restart ==
    /\ seen' = saved /\ active' = TRUE
    /\ reversal' = NoReversal /\ stale' = FALSE
    /\ UNCHANGED <<bar, saved, reads, lost, position, against>>

CrossNext ==
    \/ Cycle
    \/ NotReversed \/ Reversed \/ OtherExit \/ EngineCloses
    \/ NextBar \/ Pause \/ Resume \/ Restart

CrossSpec == CrossInit /\ [][CrossNext]_crossVars

-----------------------------------------------------------------------------
(* Properties.                                                             *)

\* A position is entered only if the new direction has been read on ConfirmBars distinct
\* bars since it turned, through pauses and restarts, unless a cycle's state was lost
\* (the confirmation of generate_signal(), and the fixes of 2026-08-20 and 2026-08-21).
EntryConfirmed ==
    position # "open" /\ position' = "open" /\ lost' = 0
        => Cardinality(reads'.bars) >= ConfirmBars

\* A turn of the EMAs gives at most one signal, unless a cycle's state was lost and the
\* signal is given again after a restart.
OneSignalPerTurn == lost = 0 => reads.signals <= 1

\* A position is closed for a reversal only if its own readings say so on ReversalBars
\* distinct bars, unless the engine closed an earlier one and left its count
\* (_clear_reversal_state(), the fix of 2026-08-28).
ReversalConfirmed ==
    position' = "reversed" /\ position = "open" /\ ~stale
        => Cardinality(against') >= ReversalBars

\* Entries and reversal exits are confirmed, and a turn is not traded twice.
CrossingsAreConfirmed ==
    [][EntryConfirmed /\ OneSignalPerTurn' /\ ReversalConfirmed]_crossVars
=============================================================================
