--------------------------- MODULE RegimeSwitching ----------------------------
(***************************************************************************)
(* Which strategies may enter: the detector of                             *)
(* src/market_data/regime_detector.py names the regime of the market in     *)
(* every signal cycle of the engine, pauses the strategies that do not suit *)
(* it and resumes those it has paused itself, while an operator pauses and  *)
(* activates strategies between any two steps of the cycle.                 *)
(***************************************************************************)
EXTENDS Integers

CONSTANTS
    Strategies,   \* those that are loaded
    MaxFaults     \* bound: failures of Redis

\* The India VIX and the daily ATR of the Nifty in tenths of a percent, at the
\* thresholds and beside them.  0 is a reading that nobody has.
Vixes == {0, 11, 12, 20, 21}
Atrs == {12, 13, 14, 15}
AtrEnter == 15
AtrExit == 13

Regimes == {"TRENDING", "RANGE_BOUND", "VOLATILE", "LOW_VOL", "UNKNOWN"}

\* REGIME_STRATEGY_MAP
Suits(regime) ==
    CASE regime = "TRENDING"    -> {"ema", "spread", "momentum"}
      [] regime = "RANGE_BOUND" -> {"condor", "spread", "ema"}
      [] regime = "VOLATILE"    -> {"spread", "ema"}
      [] regime = "LOW_VOL"     -> {"ema"}
      [] OTHER                  -> {}

VARIABLES
    inputs,    \* Redis: the ATR of the Nifty, 0 when it has expired
    record,    \* Redis: the regime, "none" before the first
    step,      \* the signal cycle: "idle", "inputs", "detect", "enforce", "entries"
    regime,    \* the regime the cycle goes by
    paused,    \* of each strategy: "no", or who has paused it
    manual,    \* history: those the operator has paused, and not activated since
    sure,      \* history: the cycle has switched, and nobody has activated since
    entered,   \* history: the last entry
    glitches

regimeVars == <<inputs, record, step, regime, paused, manual, sure, entered, glitches>>

Sides(s) == IF s \in {"ema", "momentum"} THEN {"BUY", "SELL"} ELSE {"CREDIT"}
Entries == [strategy : Strategies, side : {"BUY", "SELL", "CREDIT"}, sure : BOOLEAN]
NoEntry == [strategy |-> "none", side |-> "none", sure |-> FALSE]

RegimeTypeOK ==
    /\ inputs \in {0} \cup Atrs
    /\ record \in {"none"} \cup Regimes /\ regime \in {"none"} \cup Regimes
    /\ step \in {"idle", "inputs", "detect", "enforce", "entries"}
    /\ paused \in [Strategies -> {"no", "regime", "manual"}]
    /\ manual \subseteq Strategies /\ sure \in BOOLEAN
    /\ entered \in Entries \cup {NoEntry}
    /\ glitches \in 0 .. MaxFaults

RegimeInit ==
    /\ inputs = 0 /\ record = "none" /\ step = "idle" /\ regime = "none"
    /\ paused = [s \in Strategies |-> "no"]
    /\ manual = {} /\ sure = FALSE /\ entered = NoEntry /\ glitches = 0

RedisFails == glitches < MaxFaults /\ glitches' = glitches + 1

-----------------------------------------------------------------------------
(* The cycle.                                                              *)

StartCycle ==
    /\ step = "idle" /\ step' = "inputs"
    /\ regime' = "none" /\ sure' = FALSE /\ entered' = NoEntry
    /\ UNCHANGED <<inputs, record, paused, manual, glitches>>

\* _maybe_refresh_nifty_regime_inputs() asks Zerodha when Redis has none; the call
\* may fail, or return too few bars.
RefreshInputs ==
    /\ step = "inputs" /\ step' = "detect"
    /\ IF inputs = 0 THEN inputs' \in {0} \cup Atrs ELSE UNCHANGED inputs
    /\ UNCHANGED <<record, regime, paused, manual, sure, entered, glitches>>

\* They expire after three minutes.
InputsExpire ==
    /\ inputs # 0 /\ inputs' = 0
    /\ UNCHANGED <<record, step, regime, paused, manual, sure, entered, glitches>>

\* _classify()
Classify(vix, atr, before) ==
    IF vix > 20 THEN "VOLATILE"
    ELSE IF atr >= (IF before = "TRENDING" THEN AtrExit ELSE AtrEnter) THEN "TRENDING"
    ELSE IF vix < 12 THEN "LOW_VOL" ELSE "RANGE_BOUND"

\* The regime of what is known.
Detected(vix, before) ==
    IF vix = 0 \/ inputs = 0 THEN "UNKNOWN" ELSE Classify(vix, inputs, before)

\* detect(): a failure to read the last regime leaves it unknown.
Detect ==
    /\ step = "detect" /\ step' = "enforce"
    /\ \E vix \in Vixes :
          \/ record' = Detected(vix, record) /\ UNCHANGED glitches
          \/ record' = Detected(vix, "none") /\ RedisFails
    /\ regime' = record'
    /\ UNCHANGED <<inputs, paused, manual, sure, entered>>

\* An exception ends the detection, and the cycle goes on without a regime.
DetectRaises ==
    /\ step \in {"inputs", "detect"} /\ step' = "entries" /\ RedisFails
    /\ UNCHANGED <<inputs, record, regime, paused, manual, sure, entered>>

\* Mutant: pauses those that are paused already.
EnforcedOnAll(r) ==
    [s \in Strategies |->
        IF s \notin Suits(r) THEN "regime"
        ELSE IF paused[s] = "regime" THEN "no"
        ELSE paused[s]]

\* What enforce_regime_switching() makes of the strategies.
Enforced(r) ==
    [s \in Strategies |->
        IF s \notin Suits(r) /\ paused[s] = "no" THEN "regime"
        ELSE IF s \in Suits(r) /\ paused[s] = "regime" THEN "no"
        ELSE paused[s]]

\* enforce_regime_switching(): it reads the regime again, and does nothing when it
\* cannot.
Enforce ==
    /\ step = "enforce" /\ step' = "entries"
    /\ \/ paused' = Enforced(record) /\ sure' = TRUE /\ UNCHANGED glitches
       \/ RedisFails /\ UNCHANGED <<paused, sure>>
    /\ UNCHANGED <<inputs, record, regime, manual, entered>>

\* _process_signal() enters for a strategy that is active; no calls are bought in a
\* volatile market.
Enter(s) ==
    /\ step = "entries" /\ paused[s] = "no"
    /\ \E side \in Sides(s) :
          /\ regime = "VOLATILE" => side # "BUY"
          /\ entered' = [strategy |-> s, side |-> side, sure |-> sure]
    /\ UNCHANGED <<inputs, record, step, regime, paused, manual, sure, glitches>>

\* All signals are processed, or the cycle may not enter: in the first fifteen minutes,
\* with positions or data that are not known to be current.
EndCycle ==
    /\ step = "entries" /\ step' = "idle"
    /\ UNCHANGED <<inputs, record, regime, paused, manual, sure, entered, glitches>>

-----------------------------------------------------------------------------
(* The operator, and the process.                                          *)

\* /strategies/activate
Activate(s) ==
    /\ paused' = [paused EXCEPT ![s] = "no"]
    /\ manual' = manual \ {s} /\ sure' = FALSE
    /\ UNCHANGED <<inputs, record, step, regime, entered, glitches>>

\* /strategies/deactivate
Deactivate(s) ==
    /\ paused' = [paused EXCEPT ![s] = "manual"] /\ manual' = manual \cup {s}
    /\ UNCHANGED <<inputs, record, step, regime, sure, entered, glitches>>

\* lifespan() loads every strategy as active; Redis keeps the regime.
Reload ==
    /\ step' = "idle" /\ regime' = "none" /\ sure' = FALSE /\ entered' = NoEntry
    /\ paused' = [s \in Strategies |-> "no"] /\ manual' = {}
    /\ UNCHANGED <<inputs, record, glitches>>

SwitchCycle ==
    StartCycle \/ RefreshInputs \/ Detect \/ DetectRaises \/ Enforce \/ EndCycle

RegimeNext ==
    \/ SwitchCycle \/ InputsExpire \/ Reload
    \/ \E s \in Strategies : Enter(s) \/ Activate(s) \/ Deactivate(s)

RegimeSpec == RegimeInit /\ [][RegimeNext]_regimeVars

-----------------------------------------------------------------------------
\* Once a cycle has switched the strategies, and until an operator activates one, it
\* enters only for a strategy that suits the regime on record, and buys no calls when
\* that is volatile (enforce_regime_switching(), _process_signal()).
EntrySuitsRegime ==
    entered.sure => /\ entered.strategy \in Suits(record)
                    /\ record = "VOLATILE" => entered.side # "BUY"

\* What the operator has paused stays so until the operator activates it or the process
\* is restarted, whatever the regimes do meanwhile (comment at
\* enforce_regime_switching()).
ManualStays == \A s \in manual : paused[s] # "no"

\* A trend is over only when the ATR has fallen below the lower threshold, or the record
\* of the trend was lost (the hysteresis of _classify()).
TrendHolds ==
    [][record = "TRENDING" /\ record' \in {"RANGE_BOUND", "LOW_VOL"} =>
         inputs < AtrExit \/ glitches' > glitches]_regimeVars

\* Whoever suits the regime is active once a cycle has switched, unless an operator has
\* paused it: no pause of the detector outlives its reason (enforce_regime_switching()).
SuitedRuns ==
    sure => \A s \in Suits(record) \cap Strategies : s \in manual \/ paused[s] = "no"

\* The regime decides who enters, and only it and the operator: all of the above.
RegimeIsObeyed == [](EntrySuitsRegime /\ ManualStays /\ SuitedRuns) /\ TrendHolds
=============================================================================
