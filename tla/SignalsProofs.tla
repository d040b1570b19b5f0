----------------------------- MODULE SignalsProofs ------------------------------
(***************************************************************************)
(* What is proved of who may enter, and on what: the regime, the signals   *)
(* of the two strategies that keep state from bar to bar, the gates and    *)
(* exit rules of credit spreads and iron condors, the stocks that are      *)
(* offered, and the record of ticks and indicators that the engine reads   *)
(* before an entry.                                                        *)
(***************************************************************************)
EXTENDS RegimeSwitching, CrossoverSignals, PullbackSignals, StructureRules,
        TrackedUniverse, TickRecord, FiniteSetTheorems, WellFoundedInduction, TLAPS

-----------------------------------------------------------------------------
(***************************************************************************)
(* What is proved of RegimeSwitching, for every set of strategies and any  *)
(* number of failures of Redis.                                            *)
(***************************************************************************)

\* The detector has switched in this cycle, and the regime on record is the cycle's until
\* the next one detects: who may enter suits it, and a pause that is the detector's has its
\* reason.
SureIsSuited ==
    /\ step = "enforce" => regime = record
    /\ sure => /\ step \in {"entries", "idle"} /\ regime = record
               /\ \A s \in Strategies :
                     /\ paused[s] = "no" => s \in Suits(record)
                     /\ paused[s] = "regime" => s \notin Suits(record)

\* An entry is remembered until the next cycle begins.
EntryStands ==
    /\ entered.sure \in BOOLEAN
    /\ entered.sure => step \in {"entries", "idle"}

\* A manual pause is one that the operator has made, and he has made no other.
ManualIsKnown ==
    /\ paused \in [Strategies -> {"no", "regime", "manual"}]
    /\ manual = {s \in Strategies : paused[s] = "manual"}
    /\ sure \in BOOLEAN

\* The numbers that the hysteresis compares and counts.
NumbersAreTyped == inputs \in Int /\ glitches \in Int

RegimeInv == SureIsSuited /\ EntryStands /\ ManualIsKnown /\ EntrySuitsRegime

-----------------------------------------------------------------------------

\* The switching itself leaves nobody active who does not suit, and no manual pause
\* undone.
LEMMA EnforcedSuits ==
    ASSUME ManualIsKnown, NEW r, NEW s \in Strategies
    PROVE  /\ Enforced(r)[s] = "no" => s \in Suits(r)
           /\ Enforced(r)[s] = "regime" => s \notin Suits(r) \/ paused[s] = "regime"
           /\ Enforced(r)[s] = "regime" => s \notin Suits(r)
           /\ Enforced(r)[s] = "manual" <=> paused[s] = "manual"
           /\ Enforced(r)[s] \in {"no", "regime", "manual"}
<1>1. paused[s] \in {"no", "regime", "manual"}
  BY DEF ManualIsKnown
<1>2. Enforced(r)[s] = IF s \notin Suits(r) /\ paused[s] = "no" THEN "regime"
                       ELSE IF s \in Suits(r) /\ paused[s] = "regime" THEN "no"
                       ELSE paused[s]
  BY DEF Enforced
<1>. QED  BY <1>1, <1>2

LEMMA EnforceKeeps ==
    ASSUME RegimeInv, Enforce
    PROVE  RegimeInv'
<1>1. /\ step = "enforce" /\ step' = "entries" /\ regime = record
      /\ record' = record /\ regime' = regime /\ manual' = manual /\ entered' = entered
  BY DEF Enforce, RegimeInv, SureIsSuited
<1>2. ~entered.sure
  BY <1>1 DEF RegimeInv, EntryStands
<1>3. EntryStands' /\ EntrySuitsRegime'
  BY <1>1, <1>2 DEF RegimeInv, EntryStands, EntrySuitsRegime
<1>4. CASE paused' = Enforced(record) /\ sure' = TRUE
  <2>1. Enforced(record) \in [Strategies -> {"no", "regime", "manual"}]
    <3>1. \A s \in Strategies : Enforced(record)[s] \in {"no", "regime", "manual"}
      BY EnforcedSuits DEF RegimeInv
    <3>2. Enforced(record) = [s \in Strategies |-> Enforced(record)[s]]
      BY DEF Enforced
    <3>. QED  BY <3>1, <3>2
  <2>2. \A s \in Strategies : paused'[s] = "manual" <=> paused[s] = "manual"
    BY <1>4, EnforcedSuits DEF RegimeInv
  <2>3. ManualIsKnown'
    BY <1>1, <1>4, <2>1, <2>2 DEF RegimeInv, ManualIsKnown
  <2>4. SureIsSuited'
    BY <1>1, <1>4, EnforcedSuits DEF RegimeInv, SureIsSuited
  <2>. QED  BY <1>3, <2>3, <2>4 DEF RegimeInv
<1>5. CASE UNCHANGED <<paused, sure>>
  <2>1. ManualIsKnown' /\ SureIsSuited'
    BY <1>1, <1>5 DEF RegimeInv, ManualIsKnown, SureIsSuited
  <2>. QED  BY <1>3, <2>1 DEF RegimeInv
<1>. QED  BY <1>4, <1>5 DEF Enforce

\* The steps of a cycle before the switching: nobody is sure in them.
LEMMA SwitchingKeeps ==
    ASSUME RegimeInv, SwitchCycle
    PROVE  RegimeInv'
<1>1. CASE StartCycle
  <2>1. ~entered'.sure /\ ~sure'
    BY <1>1 DEF StartCycle, NoEntry
  <2>. QED
    BY <1>1, <2>1
    DEF StartCycle, NoEntry, RegimeInv, SureIsSuited, EntryStands, ManualIsKnown,
        EntrySuitsRegime
<1>2. CASE RefreshInputs
  BY <1>2 DEF RefreshInputs, RegimeInv, SureIsSuited, EntryStands, ManualIsKnown,
              EntrySuitsRegime
<1>3. CASE Detect
  <2>1. ~sure /\ ~entered.sure
    BY <1>3 DEF Detect, RegimeInv, SureIsSuited, EntryStands, ManualIsKnown
  <2>. QED
    BY <1>3, <2>1
    DEF Detect, RegimeInv, SureIsSuited, EntryStands, ManualIsKnown, EntrySuitsRegime
<1>4. CASE DetectRaises
  <2>1. ~sure /\ ~entered.sure
    BY <1>4 DEF DetectRaises, RegimeInv, SureIsSuited, EntryStands, ManualIsKnown
  <2>. QED
    BY <1>4, <2>1
    DEF DetectRaises, RegimeInv, SureIsSuited, EntryStands, ManualIsKnown,
        EntrySuitsRegime
<1>5. CASE Enforce
  BY <1>5, EnforceKeeps
<1>6. CASE EndCycle
  BY <1>6 DEF EndCycle, RegimeInv, SureIsSuited, EntryStands, ManualIsKnown,
              EntrySuitsRegime
<1>. QED  BY <1>1, <1>2, <1>3, <1>4, <1>5, <1>6 DEF SwitchCycle

\* An entry, and what the operator does to one strategy.
LEMMA StrategyKeeps ==
    ASSUME RegimeInv, NEW s \in Strategies, Enter(s) \/ Activate(s) \/ Deactivate(s)
    PROVE  RegimeInv'
<1>1. CASE Enter(s)
  <2>1. PICK side \in Sides(s) :
            /\ regime = "VOLATILE" => side # "BUY"
            /\ entered' = [strategy |-> s, side |-> side, sure |-> sure]
    BY <1>1 DEF Enter
  <2>2. sure => s \in Suits(record) /\ regime = record
    BY <1>1 DEF Enter, RegimeInv, SureIsSuited
  <2>3. EntrySuitsRegime' /\ EntryStands'
    BY <1>1, <2>1, <2>2
    DEF Enter, RegimeInv, EntrySuitsRegime, EntryStands, ManualIsKnown
  <2>. QED
    BY <1>1, <2>3 DEF Enter, RegimeInv, SureIsSuited, ManualIsKnown
<1>2. CASE Activate(s)
  <2>1. paused' = [paused EXCEPT ![s] = "no"] /\ manual' = manual \ {s} /\ sure' = FALSE
    BY <1>2 DEF Activate
  <2>2. ManualIsKnown'
    BY <2>1 DEF RegimeInv, ManualIsKnown
  <2>. QED
    BY <1>2, <2>1, <2>2
    DEF Activate, RegimeInv, SureIsSuited, EntryStands, EntrySuitsRegime
<1>3. CASE Deactivate(s)
  <2>1. /\ paused' = [paused EXCEPT ![s] = "manual"] /\ manual' = manual \cup {s}
        /\ UNCHANGED <<step, regime, record, sure, entered>>
    BY <1>3 DEF Deactivate
  <2>2. ManualIsKnown'
    BY <2>1 DEF RegimeInv, ManualIsKnown
  <2>3. SureIsSuited'
    BY <2>1 DEF RegimeInv, ManualIsKnown, SureIsSuited
  <2>. QED
    BY <2>1, <2>2, <2>3 DEF RegimeInv, EntryStands, EntrySuitsRegime
<1>. QED  BY <1>1, <1>2, <1>3

\* The readings of the market and the failures stay numbers.
LEMMA NumbersStay ==
    ASSUME NumbersAreTyped, [RegimeNext]_regimeVars
    PROVE  NumbersAreTyped'
<1>1. CASE SwitchCycle
  <2>1. inputs' = inputs \/ inputs' \in {0} \cup Atrs
    BY <1>1
    DEF SwitchCycle, StartCycle, RefreshInputs, Detect, DetectRaises, Enforce, EndCycle
  <2>2. glitches' = glitches \/ glitches' = glitches + 1
    BY <1>1
    DEF SwitchCycle, StartCycle, RefreshInputs, Detect, DetectRaises, Enforce, EndCycle,
        RedisFails
  <2>3. inputs' \in Int
    BY <2>1 DEF Atrs, NumbersAreTyped
  <2>4. glitches' \in Int
    BY <2>2 DEF NumbersAreTyped
  <2>. QED  BY <2>3, <2>4 DEF NumbersAreTyped
<1>2. CASE InputsExpire \/ Reload \/ UNCHANGED regimeVars
  BY <1>2 DEF InputsExpire, Reload, regimeVars, NumbersAreTyped
<1>3. CASE \E s \in Strategies : Enter(s) \/ Activate(s) \/ Deactivate(s)
  BY <1>3 DEF Enter, Activate, Deactivate, NumbersAreTyped
<1>. QED  BY <1>1, <1>2, <1>3 DEF RegimeNext

\* A trend that is known to have been one gives way only to a low ATR.
LEMMA ClassifyHolds ==
    ASSUME NEW reading, NEW atr \in Int,
           Classify(reading, atr, "TRENDING") \in {"RANGE_BOUND", "LOW_VOL"}
    PROVE  atr < AtrExit
BY DEF Classify, AtrExit

\* Every step respects the hysteresis.
LEMMA StepHolds ==
    ASSUME NumbersAreTyped, [RegimeNext]_regimeVars, record = "TRENDING",
           record' \in {"RANGE_BOUND", "LOW_VOL"}
    PROVE  inputs < AtrExit \/ glitches' > glitches
<1>1. Detect
  BY DEF RegimeNext, SwitchCycle, StartCycle, RefreshInputs, DetectRaises, Enforce,
         EndCycle, InputsExpire, Reload, Enter, Activate, Deactivate, regimeVars
<1>2. PICK reading \in Vixes : record' = Detected(reading, record) \/ RedisFails
  BY <1>1 DEF Detect
<1>3. CASE record' = Detected(reading, record)
  <2>1. Classify(reading, inputs, "TRENDING") \in {"RANGE_BOUND", "LOW_VOL"}
    BY <1>3 DEF Detected
  <2>. QED  BY <2>1, ClassifyHolds DEF NumbersAreTyped
<1>4. CASE RedisFails
  BY <1>4 DEF RedisFails, NumbersAreTyped
<1>. QED  BY <1>2, <1>3, <1>4

LEMMA RegimeInvariant == RegimeSpec => []RegimeInv
<1>1. RegimeInit => RegimeInv
  <2>. SUFFICES ASSUME RegimeInit PROVE RegimeInv
    OBVIOUS
  <2>1. step = "idle" /\ sure = FALSE /\ entered.sure = FALSE
    BY DEF RegimeInit, NoEntry
  <2>2. ManualIsKnown
    BY DEF RegimeInit, ManualIsKnown
  <2>. QED
    BY <2>1, <2>2 DEF RegimeInv, SureIsSuited, EntryStands, EntrySuitsRegime
<1>2. ASSUME RegimeInv, [RegimeNext]_regimeVars
      PROVE  RegimeInv'
  <2>1. CASE SwitchCycle
    BY <1>2, <2>1, SwitchingKeeps
  <2>2. CASE InputsExpire
    BY <1>2, <2>2 DEF InputsExpire, RegimeInv, SureIsSuited, EntryStands, ManualIsKnown,
                      EntrySuitsRegime
  <2>3. CASE Reload
    BY <1>2, <2>3 DEF Reload, NoEntry, RegimeInv, SureIsSuited, EntryStands,
                      ManualIsKnown, EntrySuitsRegime
  <2>4. CASE \E s \in Strategies : Enter(s) \/ Activate(s) \/ Deactivate(s)
    BY <1>2, <2>4, StrategyKeeps
  <2>5. CASE UNCHANGED regimeVars
    BY <1>2, <2>5 DEF regimeVars, RegimeInv, SureIsSuited, EntryStands, ManualIsKnown,
                      EntrySuitsRegime
  <2>. QED  BY <1>2, <2>1, <2>2, <2>3, <2>4, <2>5 DEF RegimeNext
<1>. QED  BY <1>1, <1>2, PTL DEF RegimeSpec

LEMMA NumbersInvariant == RegimeSpec => []NumbersAreTyped
<1>1. RegimeInit => NumbersAreTyped
  BY DEF RegimeInit, NumbersAreTyped
<1>. QED  BY <1>1, NumbersStay, PTL DEF RegimeSpec

\* A cycle that has switched enters only for strategies that suit the regime on record; a
\* manual pause is undone only by the operator or a restart; no pause of the detector
\* outlives its reason; and a trend ends only below the lower threshold
\* (enforce_regime_switching(), _process_signal(), _classify()).
THEOREM RegimeObeyed == RegimeSpec => RegimeIsObeyed
<1>1. RegimeInv => EntrySuitsRegime /\ ManualStays /\ SuitedRuns
  BY DEF RegimeInv, SureIsSuited, ManualIsKnown, ManualStays, SuitedRuns
<1>2. NumbersAreTyped /\ [RegimeNext]_regimeVars
        => [record = "TRENDING" /\ record' \in {"RANGE_BOUND", "LOW_VOL"}
              => inputs < AtrExit \/ glitches' > glitches]_regimeVars
  BY StepHolds
<1>3. RegimeSpec => [](EntrySuitsRegime /\ ManualStays /\ SuitedRuns)
  BY <1>1, RegimeInvariant, PTL
<1>4. RegimeSpec => TrendHolds
  BY <1>2, NumbersInvariant, PTL DEF RegimeSpec, TrendHolds
<1>. QED  BY <1>3, <1>4, PTL DEF RegimeIsObeyed

-----------------------------------------------------------------------------
(***************************************************************************)
(* What is proved of CrossoverSignals: entries and reversal exits are      *)
(* confirmed on distinct bars, for every number of bars of a day, of       *)
(* cycles lost, and of bars a reversal takes.                              *)
(***************************************************************************)

PendingTypes == [dir : {"none", "BUY", "SELL"}, count : Nat, bar : Nat]
SeenTypes == [prev : Dirs \cup {"none"}, pending : PendingTypes]
ReadTypes == [dir : Dirs \cup {"none"}, bars : SUBSET Nat, signals : Int]

CrossTypes ==
    /\ bar \in Nat \ {0}
    /\ seen \in SeenTypes /\ seen.pending.bar <= bar
    /\ saved \in SeenTypes /\ saved.pending.bar <= bar
    /\ reads \in ReadTypes
    /\ IsFiniteSet(reads.bars) /\ reads.bars \subseteq 1 .. bar
    /\ lost \in Nat

\* What a pending signal stands for: the direction that was read last, on bars no later
\* than the one it names and at least as many as it counts, and no signal since.
Backed(s) ==
    /\ s.prev = reads.dir
    /\ s.pending.dir # "none" =>
          /\ s.pending.dir = reads.dir /\ reads.signals = 0
          /\ s.pending.bar = Unknown => s.pending.count = 1 /\ reads.bars = {}
          /\ s.pending.bar # Unknown =>
                /\ reads.bars \subseteq 1 .. s.pending.bar
                /\ Cardinality(reads.bars) >= s.pending.count
    /\ s.pending.dir = "none" => s.pending = NoPending

CrossInv ==
    /\ CrossTypes
    /\ lost = 0 => Backed(seen) /\ Backed(saved) /\ reads.signals <= 1

-----------------------------------------------------------------------------

\* The pending signal after a read, case by case.
LEMMA PendingCases ==
    ASSUME CrossTypes, NEW d \in Dirs, NEW b
    PROVE  \/ Pending(d, b) = NoPending
           \/ /\ d # "FLAT" /\ d = seen.pending.dir /\ NewBar(b, seen.pending.bar)
              /\ Pending(d, b) = [seen.pending EXCEPT !.count = @ + 1, !.bar = b]
           \/ /\ d # "FLAT" /\ d = seen.pending.dir /\ seen.pending.bar = Unknown
              /\ Pending(d, b) = [seen.pending EXCEPT !.bar = b]
           \/ /\ d # "FLAT" /\ d = seen.pending.dir /\ ~NewBar(b, seen.pending.bar)
              /\ seen.pending.bar # Unknown /\ Pending(d, b) = seen.pending
           \/ /\ d # "FLAT" /\ seen.prev \in {"BUY", "SELL"} /\ seen.prev # d
              /\ Pending(d, b) = [dir |-> d, count |-> 1, bar |-> b]
<1>. DEFINE p == seen.pending
<1>1. CASE d = "FLAT"
  <2>1. p.dir # "FLAT"
    BY DEF CrossTypes, SeenTypes, PendingTypes
  <2>. QED  BY <1>1, <2>1 DEF Pending
<1>2. CASE d # "FLAT" /\ d = p.dir
  <2>1. Pending(d, b) = Continue(p, b)
    BY <1>2 DEF Pending
  <2>2. CASE NewBar(b, p.bar)
    BY <1>2, <2>1, <2>2 DEF Continue
  <2>3. CASE ~NewBar(b, p.bar) /\ p.bar = Unknown
    BY <1>2, <2>1, <2>3 DEF Continue
  <2>4. CASE ~NewBar(b, p.bar) /\ p.bar # Unknown
    BY <1>2, <2>1, <2>4 DEF Continue
  <2>. QED  BY <2>2, <2>3, <2>4
<1>3. CASE d # "FLAT" /\ d # p.dir
  <2>1. Pending(d, b) = IF seen.prev \in {"BUY", "SELL"} /\ seen.prev # d
                        THEN [dir |-> d, count |-> 1, bar |-> b]
                        ELSE NoPending
    BY <1>3 DEF Pending
  <2>. QED  BY <1>3, <2>1
<1>. QED  BY <1>1, <1>2, <1>3

\* It is a pending signal, of a bar that has come.
LEMMA PendingTyped ==
    ASSUME CrossTypes, NEW d \in Dirs, NEW b \in KnownBars
    PROVE  Pending(d, b) \in PendingTypes /\ Pending(d, b).bar <= bar
<1>. DEFINE p == Pending(d, b)
            q == seen.pending
<1>1. q \in PendingTypes /\ q.bar <= bar /\ bar \in Nat \ {0}
  BY DEF CrossTypes, SeenTypes
<1>2. b \in Nat /\ b <= bar
  BY <1>1 DEF KnownBars, Unknown
<1>3. NoPending \in PendingTypes /\ NoPending.bar = 0
  BY DEF NoPending, PendingTypes, Unknown
<1>4. CASE p = [q EXCEPT !.count = @ + 1, !.bar = b]
  <2>. DEFINE counted == [q EXCEPT !.count = @ + 1]
  <2>1. counted \in PendingTypes
    BY <1>1 DEF PendingTypes
  <2>2. p = [counted EXCEPT !.bar = b]
    BY <1>4
  <2>3. p \in PendingTypes /\ p.bar = b
    <3>. HIDE DEF counted, p, q
    <3>. QED  BY <1>2, <2>1, <2>2 DEF PendingTypes
  <2>. QED  BY <1>2, <2>3
<1>5. CASE p = [q EXCEPT !.bar = b]
  BY <1>1, <1>2, <1>5 DEF PendingTypes
<1>6. CASE p = q
  BY <1>1, <1>6
<1>7. CASE d # "FLAT" /\ p = [dir |-> d, count |-> 1, bar |-> b]
  BY <1>2, <1>7 DEF PendingTypes, Dirs
<1>8. CASE p = NoPending
  BY <1>1, <1>3, <1>8
<1>. QED  BY <1>4, <1>5, <1>6, <1>7, <1>8, PendingCases

\* The bars of a read: those before, if the direction is the same, and the bar, if it is
\* known.
LEMMA NotedBars ==
    ASSUME CrossTypes, NEW d \in Dirs, NEW b \in KnownBars, NEW given \in BOOLEAN
    PROVE  /\ Noted(d, b, given).dir = d
           /\ Noted(d, b, given).bars
                = (IF d = reads.dir THEN reads.bars ELSE {}) \cup ({b} \ {Unknown})
           /\ Noted(d, b, given).signals
                = IF given THEN (IF d = reads.dir THEN reads.signals ELSE 0) + 1
                            ELSE IF d = reads.dir THEN reads.signals ELSE 0
           /\ Noted(d, b, given) \in ReadTypes
           /\ IsFiniteSet(Noted(d, b, given).bars)
           /\ Noted(d, b, given).bars \subseteq 1 .. bar
<1>. DEFINE r == IF d = reads.dir THEN reads ELSE [dir |-> d, bars |-> {}, signals |-> 0]
            n == Noted(d, b, given)
<1>1. r \in ReadTypes /\ r.dir = d /\ reads.bars \subseteq 1 .. bar
  BY DEF CrossTypes, ReadTypes
<1>2. n = [r EXCEPT !.bars = @ \cup ({b} \ {Unknown}),
                    !.signals = IF given THEN @ + 1 ELSE @]
  BY DEF Noted
<1>3. n.dir = r.dir /\ n.bars = r.bars \cup ({b} \ {Unknown})
      /\ n.signals = IF given THEN r.signals + 1 ELSE r.signals
  BY <1>1, <1>2 DEF ReadTypes
<1>4. r.bars = (IF d = reads.dir THEN reads.bars ELSE {})
      /\ r.signals = (IF d = reads.dir THEN reads.signals ELSE 0)
  OBVIOUS
<1>5. {b} \ {Unknown} \subseteq 1 .. bar /\ bar \in Nat
  BY DEF CrossTypes, KnownBars, Unknown
<1>6. IsFiniteSet(r.bars) /\ IsFiniteSet({b} \ {Unknown})
  <2>1. IsFiniteSet({}) /\ IsFiniteSet({b})
    BY FS_EmptySet, FS_Singleton
  <2>2. IsFiniteSet({b} \ {Unknown})
    BY <2>1, FS_Difference
  <2>. QED  BY <1>4, <2>1, <2>2 DEF CrossTypes
<1>7. IsFiniteSet(n.bars)
  BY <1>3, <1>6, FS_Union
<1>8. n.bars \subseteq 1 .. bar
  BY <1>1, <1>3, <1>4, <1>5
<1>9. n \in ReadTypes
  <2>1. r.signals \in Int /\ r.bars \subseteq Nat
    BY <1>1 DEF ReadTypes
  <2>2. n = [dir |-> n.dir, bars |-> n.bars, signals |-> n.signals]
    BY <1>1, <1>2 DEF ReadTypes
  <2>3. n.bars \in SUBSET Nat
    BY <1>8
  <2>4. n.signals \in Int
    BY <1>3, <2>1
  <2>. QED  BY <1>1, <1>3, <2>2, <2>3, <2>4 DEF ReadTypes
<1>. QED  BY <1>1, <1>3, <1>4, <1>7, <1>8, <1>9

\* A finite set of bars has a number of elements, and a bar later than all of them is one
\* more.
LEMMA LaterBar ==
    ASSUME NEW S, IsFiniteSet(S), NEW k \in Nat, S \subseteq 1 .. k, NEW b \in Nat, b > k
    PROVE  /\ Cardinality(S) \in Nat
           /\ Cardinality(S \cup {b}) = Cardinality(S) + 1
<1>1. b \notin S
  OBVIOUS
<1>. QED  BY <1>1, FS_CardinalityType, FS_AddElement
-----------------------------------------------------------------------------

\* What a read leaves pending is backed by the readings, if what it found was.
LEMMA PendingIsBacked ==
    ASSUME CrossTypes, Backed(seen), NEW d \in Dirs, NEW b \in KnownBars,
           NEW given \in BOOLEAN,
           reads' = Noted(d, b, given)
    PROVE  LET p == Pending(d, b) IN
           /\ p \in PendingTypes
           /\ p.dir = "none" => p = NoPending
           /\ p.dir # "none" =>
                 /\ p.dir = d /\ (d = reads.dir => reads.signals = 0)
                 /\ p.bar = Unknown => p.count = 1 /\ reads'.bars = {}
                 /\ p.bar # Unknown => /\ reads'.bars \subseteq 1 .. p.bar
                                       /\ Cardinality(reads'.bars) >= p.count
<1>. DEFINE p == Pending(d, b)
            q == seen.pending
<1>1. /\ q \in PendingTypes /\ seen.prev = reads.dir
      /\ reads.bars \subseteq 1 .. bar /\ IsFiniteSet(reads.bars) /\ bar \in Nat \ {0}
  BY DEF CrossTypes, SeenTypes, Backed
<1>2. reads'.bars = (IF d = reads.dir THEN reads.bars ELSE {}) \cup ({b} \ {Unknown})
  BY NotedBars
<1>3. b \in {bar, 0} /\ Unknown = 0
  BY DEF KnownBars, Unknown
<1>4. Cardinality({b}) = 1 /\ Cardinality({}) = 0
  BY FS_Singleton, FS_EmptySet
<1>5. CASE p = NoPending
  BY <1>5 DEF NoPending, PendingTypes, Unknown
<1>6. CASE /\ d # "FLAT" /\ d = q.dir /\ NewBar(b, q.bar)
           /\ p = [q EXCEPT !.count = @ + 1, !.bar = b]
  <2>1. /\ q.dir # "none" /\ d = reads.dir /\ reads.signals = 0 /\ q.bar # Unknown
        /\ reads.bars \subseteq 1 .. q.bar /\ Cardinality(reads.bars) >= q.count
    BY <1>1, <1>6 DEF Backed, NewBar, Dirs
  <2>2. b = bar /\ b > q.bar /\ q.bar \in Nat /\ b \in Nat
    BY <1>1, <1>3, <1>6 DEF NewBar, CrossTypes, PendingTypes
  <2>3. reads'.bars = reads.bars \cup {b}
    BY <1>2, <1>3, <2>1, <2>2
  <2>4. Cardinality(reads.bars) \in Nat
        /\ Cardinality(reads'.bars) = Cardinality(reads.bars) + 1
    <3>1. /\ IsFiniteSet(reads.bars) /\ reads.bars \subseteq 1 .. q.bar
          /\ q.bar \in Nat /\ b \in Nat /\ b > q.bar
      BY <1>1, <2>1, <2>2
    <3>. HIDE DEF p, q
    <3>2. /\ Cardinality(reads.bars) \in Nat
          /\ Cardinality(reads.bars \cup {b}) = Cardinality(reads.bars) + 1
      BY <3>1, LaterBar
    <3>. QED  BY <2>3, <3>2
  <2>5. p.dir = d /\ p.count = q.count + 1 /\ p.bar = b /\ p \in PendingTypes
    <3>. DEFINE counted == [q EXCEPT !.count = @ + 1]
    <3>0. q \in PendingTypes
      BY <1>1
    <3>. HIDE DEF p, q
    <3>1. counted \in PendingTypes /\ counted.dir = q.dir /\ counted.count = q.count + 1
      BY <3>0 DEF PendingTypes
    <3>2. p = [counted EXCEPT !.bar = b]
      BY <1>6
    <3>. HIDE DEF counted
    <3>3. p \in PendingTypes /\ p.dir = counted.dir /\ p.count = counted.count /\ p.bar = b
      BY <2>2, <3>1, <3>2 DEF PendingTypes
    <3>. QED  BY <1>6, <3>1, <3>3
  <2>6. Cardinality(reads'.bars) >= p.count
    <3>1. q.count \in Nat
      BY <1>1 DEF PendingTypes
    <3>. QED  BY <2>1, <2>4, <2>5, <3>1
  <2>7. reads'.bars \subseteq 1 .. p.bar
    BY <1>1, <2>1, <2>2, <2>3, <2>5
  <2>. QED  BY <1>3, <2>1, <2>2, <2>5, <2>6, <2>7 DEF Dirs
<1>7. CASE /\ d # "FLAT" /\ d = q.dir /\ q.bar = Unknown
           /\ p = [q EXCEPT !.bar = b]
  <2>1. /\ q.dir # "none" /\ d = reads.dir /\ reads.signals = 0
        /\ q.count = 1 /\ reads.bars = {}
    BY <1>1, <1>7 DEF Backed, Dirs
  <2>2. p.dir = d /\ p.count = 1 /\ p.bar = b /\ p \in PendingTypes
    BY <1>1, <1>3, <1>7, <2>1 DEF PendingTypes
  <2>3. reads'.bars = {b} \ {Unknown}
    BY <1>2, <2>1
  <2>. QED  BY <1>1, <1>3, <1>4, <1>7, <2>1, <2>2, <2>3 DEF Dirs
<1>8. CASE /\ d # "FLAT" /\ d = q.dir /\ ~NewBar(b, q.bar) /\ q.bar # Unknown /\ p = q
  <2>1. /\ q.dir # "none" /\ d = reads.dir /\ reads.signals = 0
        /\ reads.bars \subseteq 1 .. q.bar /\ Cardinality(reads.bars) >= q.count
    BY <1>1, <1>8 DEF Backed, Dirs
  <2>2. b = Unknown \/ b = q.bar
    BY <1>8 DEF NewBar
  <2>3. reads'.bars = reads.bars \/ reads'.bars = reads.bars \cup {b}
    BY <1>2, <2>1
  <2>4. reads'.bars \subseteq 1 .. q.bar
    BY <1>1, <1>2, <1>3, <1>8, <2>1, <2>2 DEF PendingTypes
  <2>5. /\ reads'.bars \subseteq 1 .. q.bar /\ q.bar \in Nat /\ q.count \in Nat
        /\ IsFiniteSet(1 .. q.bar)
    <3>1. q.bar \in Nat /\ q.count \in Nat
      BY <1>1 DEF PendingTypes
    <3>2. 1 \in Int /\ q.bar \in Int
      BY <3>1
    <3>. HIDE DEF q
    <3>3. IsFiniteSet(1 .. q.bar)
      BY <3>2, FS_Interval
    <3>. QED  BY <2>4, <3>1, <3>3
  <2>6. IsFiniteSet(reads'.bars) /\ reads.bars \subseteq reads'.bars
    BY <1>2, <2>1, <2>5, FS_Subset
  <2>7. /\ Cardinality(reads.bars) <= Cardinality(reads'.bars)
        /\ Cardinality(reads.bars) \in Nat /\ Cardinality(reads'.bars) \in Nat
    <3>1. IsFiniteSet(reads.bars)
      BY <2>6, FS_Subset
    <3>2. Cardinality(reads.bars) \in Nat /\ Cardinality(reads'.bars) \in Nat
      BY <2>6, <3>1, FS_CardinalityType
    <3>. QED  BY <2>6, <3>2, FS_Subset
  <2>8. Cardinality(reads'.bars) >= q.count
    BY <2>1, <2>5, <2>7
  <2>. QED  BY <1>1, <1>8, <2>1, <2>5, <2>8
<1>9. CASE /\ d # "FLAT" /\ seen.prev \in {"BUY", "SELL"} /\ seen.prev # d
           /\ p = [dir |-> d, count |-> 1, bar |-> b]
  <2>1. reads'.bars = {b} \ {Unknown} /\ d # reads.dir
    BY <1>1, <1>2, <1>9
  <2>2. p \in PendingTypes
    BY <1>1, <1>3, <1>9 DEF PendingTypes, Dirs
  <2>3. CASE b = Unknown
    <3>1. reads'.bars = {}
      BY <2>1, <2>3
    <3>. QED  BY <1>9, <2>1, <2>2, <2>3, <3>1 DEF Dirs
  <2>4. CASE b # Unknown
    <3>1. reads'.bars = {b} /\ b \in Nat \ {0}
      BY <1>1, <1>3, <2>1, <2>4
    <3>2. reads'.bars \subseteq 1 .. p.bar /\ Cardinality(reads'.bars) >= p.count
      BY <1>4, <1>9, <3>1
    <3>. QED  BY <1>9, <2>1, <2>2, <2>4, <3>2 DEF Dirs
  <2>. QED  BY <2>3, <2>4
<1>. QED  BY <1>5, <1>6, <1>7, <1>8, <1>9, PendingCases

-----------------------------------------------------------------------------

\* Every cycle keeps the invariant, if one bar is never enough.
LEMMA CycleKeeps ==
    ASSUME CrossInv, Cycle
    PROVE  /\ CrossInv'
           /\ position # "open" /\ position' = "open" /\ lost' = 0
                => Cardinality(reads'.bars) >= ConfirmBars
<1>1. PICK d \in Dirs, b \in KnownBars, good \in BOOLEAN, taken \in BOOLEAN,
           kept \in BOOLEAN :
        LET p == Pending(d, b)
            given == d # "FLAT" /\ p.count >= ConfirmBars /\ good
            enters == given /\ active /\ taken /\ position # "open"
            after == [prev |-> d, pending |-> Afterwards(p, given)]
        IN  /\ seen' = after
            /\ reads' = Noted(d, b, given)
            /\ ~enters => position' = position
            /\ IF kept THEN saved' = after /\ UNCHANGED lost
                       ELSE lost' = lost + 1 /\ UNCHANGED saved
            /\ bar' = bar
  BY DEF Cycle, exitVars
<1>. DEFINE p == Pending(d, b)
            given == d # "FLAT" /\ p.count >= ConfirmBars /\ good
            after == [prev |-> d, pending |-> Afterwards(p, given)]
<1>2. given \in BOOLEAN /\ bar' = bar /\ CrossTypes
  BY <1>1 DEF CrossInv
<1>3. /\ reads' \in ReadTypes /\ reads'.dir = d
      /\ IsFiniteSet(reads'.bars) /\ reads'.bars \subseteq 1 .. bar
      /\ reads'.signals = IF given THEN (IF d = reads.dir THEN reads.signals ELSE 0) + 1
                                    ELSE IF d = reads.dir THEN reads.signals ELSE 0
  BY <1>1, <1>2, NotedBars
<1>4. seen' = after /\ after.prev = d /\ after.pending = Afterwards(p, given)
  BY <1>1
<1>5. after \in SeenTypes /\ after.pending.bar <= bar
  <2>1. p \in PendingTypes /\ p.bar <= bar
    BY <1>2, PendingTyped
  <2>2. NoPending \in PendingTypes /\ NoPending.bar <= bar
    BY <1>2 DEF NoPending, PendingTypes, Unknown, CrossTypes
  <2>3. Afterwards(p, given) \in PendingTypes /\ Afterwards(p, given).bar <= bar
    BY <2>1, <2>2 DEF Afterwards
  <2>. QED  BY <2>3 DEF SeenTypes
<1>6. CrossTypes'
  <2>1. lost \in Nat /\ saved \in SeenTypes /\ saved.pending.bar <= bar /\ bar \in Nat \ {0}
    BY <1>2 DEF CrossTypes
  <2>2. saved' \in SeenTypes /\ saved'.pending.bar <= bar /\ lost' \in Nat
    <3>1. (saved' = after /\ lost' = lost) \/ (saved' = saved /\ lost' = lost + 1)
      BY <1>1
    <3>. HIDE DEF after
    <3>. QED  BY <1>5, <2>1, <3>1
  <2>. HIDE DEF after
  <2>. QED  BY <1>2, <1>3, <1>4, <1>5, <2>1, <2>2 DEF CrossTypes
<1>7. ASSUME lost' = 0
      PROVE  /\ Backed(seen)' /\ Backed(saved)' /\ reads'.signals <= 1
             /\ given => Cardinality(reads'.bars) >= ConfirmBars
  <2>1. lost = 0 /\ saved' = after
    BY <1>1, <1>2, <1>7 DEF CrossTypes
  <2>2. Backed(seen) /\ reads.signals <= 1
    BY <2>1 DEF CrossInv
  <2>3. /\ p \in PendingTypes
        /\ p.dir = "none" => p = NoPending
        /\ p.dir # "none" =>
              /\ p.dir = d /\ (d = reads.dir => reads.signals = 0)
              /\ p.bar = Unknown => p.count = 1 /\ reads'.bars = {}
              /\ p.bar # Unknown => /\ reads'.bars \subseteq 1 .. p.bar
                                    /\ Cardinality(reads'.bars) >= p.count
    BY <1>1, <1>2, <2>2, PendingIsBacked
  <2>4. CASE given
    <3>1. p.count >= 2 /\ p.count >= ConfirmBars /\ p.count \in Nat
      BY <2>3, <2>4, ConfirmBarsAssumption DEF PendingTypes
    <3>2. p.dir # "none"
      BY <2>3, <3>1 DEF NoPending
    <3>3. p.bar # Unknown
      BY <2>3, <3>1, <3>2
    <3>4. IsFiniteSet(reads'.bars) /\ Cardinality(reads'.bars) \in Nat
      BY <1>3, FS_CardinalityType
    <3>5. Cardinality(reads'.bars) >= ConfirmBars
      BY <2>3, <3>1, <3>2, <3>3, <3>4, ConfirmBarsAssumption
    <3>6. reads'.signals = 1
      BY <1>3, <2>3, <2>4, <3>2
    <3>7. after.pending = NoPending
      BY <1>4, <2>4 DEF Afterwards
    <3>8. Backed(seen)'
      BY <1>3, <1>4, <3>7 DEF Backed, NoPending
    <3>9. Backed(saved)'
      BY <1>4, <2>1, <3>8 DEF Backed
    <3>. QED  BY <3>5, <3>6, <3>8, <3>9
  <2>5. CASE ~given
    <3>1. after.pending = p
      BY <1>4, <2>5 DEF Afterwards
    <3>2. p.dir # "none" => reads'.signals = 0
      BY <1>3, <2>3, <2>5
    <3>3. reads'.signals <= 1
      BY <1>3, <2>2, <2>5
    <3>4. Backed(seen)'
      BY <1>3, <1>4, <2>3, <3>1, <3>2 DEF Backed
    <3>5. Backed(saved)'
      BY <1>4, <2>1, <3>4 DEF Backed
    <3>. QED  BY <2>5, <3>3, <3>4, <3>5
  <2>. QED  BY <2>4, <2>5
<1>8. CrossInv'
  BY <1>6, <1>7 DEF CrossInv
<1>9. position # "open" /\ position' = "open" => given
  BY <1>1
<1>. QED  BY <1>7, <1>8, <1>9

\* The other steps keep it: they read nothing, and forget or restore what is pending.
LEMMA OthersKeep ==
    ASSUME CrossInv,
           \/ NotReversed \/ Reversed \/ OtherExit \/ EngineCloses
           \/ NextBar \/ Pause \/ Resume \/ Restart \/ UNCHANGED crossVars
    PROVE  CrossInv' /\ (position' = "open" => position = "open")
<1>1. CASE UNCHANGED <<bar, signalVars>> /\ (position' = "open" => position = "open")
  BY <1>1 DEF signalVars, CrossInv, CrossTypes, Backed
<1>2. CASE NextBar
  BY <1>2 DEF NextBar, signalVars, exitVars, CrossInv, CrossTypes, Backed, ReadTypes,
              SeenTypes, PendingTypes
<1>3. CASE Pause
  <2>1. /\ seen' = [seen EXCEPT !.pending = NoPending]
        /\ UNCHANGED <<bar, saved, reads, lost, position>>
    BY <1>3 DEF Pause
  <2>2. NoPending \in PendingTypes /\ NoPending.bar = 0 /\ NoPending.dir = "none"
    BY DEF NoPending, PendingTypes, Unknown
  <2>3. /\ seen' \in SeenTypes /\ seen'.pending = NoPending
        /\ seen'.prev = seen.prev
    BY <2>1, <2>2 DEF CrossInv, CrossTypes, SeenTypes
  <2>4. CrossTypes'
    BY <2>1, <2>2, <2>3 DEF CrossInv, CrossTypes
  <2>5. lost = 0 => Backed(seen)' /\ Backed(saved)'
    BY <2>1, <2>2, <2>3 DEF CrossInv, Backed
  <2>. QED  BY <2>1, <2>4, <2>5 DEF CrossInv
<1>4. CASE Restart
  <2>1. seen' = saved /\ UNCHANGED <<bar, saved, reads, lost, position>>
    BY <1>4 DEF Restart
  <2>. QED  BY <2>1 DEF CrossInv, CrossTypes, Backed
<1>5. NotReversed \/ Reversed \/ OtherExit \/ EngineCloses \/ Resume \/ UNCHANGED crossVars
        => UNCHANGED <<bar, signalVars>> /\ (position' = "open" => position = "open")
  BY DEF NotReversed, Reversed, OtherExit, EngineCloses, Resume, crossVars, exitVars
<1>. QED  BY <1>1, <1>2, <1>3, <1>4, <1>5

LEMMA CrossInvariant == CrossSpec => []CrossInv
<1>1. CrossInit => CrossInv
  BY FS_EmptySet
  DEF CrossInit, CrossInv, CrossTypes, Backed, Fresh, NoPending, Unknown, SeenTypes,
      PendingTypes, ReadTypes
<1>2. CrossInv /\ [CrossNext]_crossVars => CrossInv'
  BY CycleKeeps, OthersKeep DEF CrossNext
<1>. QED  BY <1>1, <1>2, PTL DEF CrossSpec

-----------------------------------------------------------------------------
(* The exits.                                                              *)

ExitTypes ==
    /\ bar \in Nat \ {0}
    /\ reversal \in [count : Nat, bar : Nat] /\ reversal.bar <= bar
    /\ IsFiniteSet(against) /\ against \subseteq 1 .. bar

\* What a reversal count stands for: bars no later than the one it names, and at least as
\* many as it counts.
CountBacked(r, S) ==
    /\ r.bar = Unknown => r.count = 1
    /\ r.bar # Unknown => S \subseteq 1 .. r.bar /\ Cardinality(S) >= r.count

ExitInv ==
    /\ ExitTypes
    /\ reversal.count = 0 => reversal = NoReversal
    /\ position # "open" /\ ~stale => reversal = NoReversal
    /\ ~stale /\ reversal.count > 0 => CountBacked(reversal, against)

\* A read that qualifies leaves a count that is backed, if the one before was.
LEMMA QualifiedIsBacked ==
    ASSUME ExitInv, NEW b \in KnownBars
    PROVE  LET r == Qualified(b)
               S == against \cup ({b} \ {Unknown}) IN
           /\ r \in [count : Nat, bar : Nat] /\ r.bar <= bar /\ r.count > 0
           /\ IsFiniteSet(S) /\ S \subseteq 1 .. bar /\ Cardinality(S) \in Nat
           /\ ~stale => CountBacked(r, S)
<1>. DEFINE r == Qualified(b)
            S == against \cup ({b} \ {Unknown})
<1>1. /\ bar \in Nat \ {0} /\ reversal \in [count : Nat, bar : Nat]
      /\ reversal.bar <= bar /\ IsFiniteSet(against) /\ against \subseteq 1 .. bar
  BY DEF ExitInv, ExitTypes
<1>2. b \in {bar, 0} /\ Unknown = 0
  BY DEF KnownBars, Unknown
<1>3. IsFiniteSet({b} \ {Unknown}) /\ IsFiniteSet({b}) /\ Cardinality({b}) = 1
  <2>1. IsFiniteSet({b}) /\ Cardinality({b}) = 1
    BY FS_Singleton
  <2>. QED  BY <2>1, FS_Difference
<1>4. IsFiniteSet(S)
  BY <1>1, <1>3, FS_Union
<1>5. S \subseteq 1 .. bar /\ Cardinality(S) \in Nat
  <2>1. Cardinality(S) \in Nat
    BY <1>4, FS_CardinalityType
  <2>. QED  BY <1>1, <1>2, <2>1
<1>6. ASSUME b # Unknown
      PROVE  b = bar /\ S = against \cup {b} /\ Cardinality(S) >= 1
  <2>1. {b} \subseteq S
    BY <1>2, <1>6
  <2>2. Cardinality({b}) <= Cardinality(S)
    BY <1>4, <2>1, FS_Subset
  <2>. QED  BY <1>2, <1>3, <1>5, <1>6, <2>2
<1>7. CASE NewBar(b, reversal.bar)
  <2>1. /\ r = [count |-> reversal.count + 1, bar |-> b] /\ b = bar
        /\ reversal.bar # Unknown /\ b > reversal.bar
    BY <1>1, <1>2, <1>7 DEF Qualified, NewBar
  <2>2. reversal.count > 0
    BY <1>1, <2>1 DEF ExitInv, NoReversal
  <2>3. ASSUME ~stale
        PROVE  S \subseteq 1 .. b /\ Cardinality(S) >= reversal.count + 1
    <3>1. against \subseteq 1 .. reversal.bar /\ Cardinality(against) >= reversal.count
      BY <2>1, <2>2, <2>3 DEF ExitInv, CountBacked
    <3>2. /\ Cardinality(against) \in Nat
          /\ Cardinality(against \cup {b}) = Cardinality(against) + 1
      BY <1>1, <2>1, <3>1, LaterBar
    <3>3. S = against \cup {b}
      BY <1>6, <1>7 DEF NewBar
    <3>4. Cardinality(S) = Cardinality(against) + 1
      BY <3>2, <3>3
    <3>. QED  BY <1>1, <1>5, <2>1, <3>1, <3>2, <3>4
  <2>4. r \in [count : Nat, bar : Nat] /\ r.bar <= bar /\ r.count > 0
    BY <1>1, <2>1, <2>2
  <2>5. ~stale => CountBacked(r, S)
    BY <1>1, <1>2, <2>1, <2>3 DEF CountBacked
  <2>. QED  BY <1>4, <1>5, <2>4, <2>5
<1>8. CASE ~NewBar(b, reversal.bar) /\ reversal.count = 0
  <2>1. r = [count |-> 1, bar |-> b]
    BY <1>8 DEF Qualified
  <2>. QED  BY <1>1, <1>2, <1>4, <1>5, <1>6, <2>1 DEF CountBacked
<1>9. CASE ~NewBar(b, reversal.bar) /\ reversal.count # 0 /\ reversal.bar = Unknown
  <2>1. r = [reversal EXCEPT !.bar = b]
    BY <1>9 DEF Qualified
  <2>2. /\ r \in [count : Nat, bar : Nat] /\ r.count = reversal.count /\ r.bar = b
        /\ reversal.count > 0
    BY <1>1, <1>2, <1>9, <2>1
  <2>3. ~stale => reversal.count = 1
    BY <1>9, <2>2 DEF ExitInv, CountBacked
  <2>4. r.bar <= bar /\ r.count > 0
    BY <1>1, <1>2, <2>2
  <2>5. ~stale => CountBacked(r, S)
    BY <1>1, <1>2, <1>5, <1>6, <2>2, <2>3 DEF CountBacked
  <2>. QED  BY <1>4, <1>5, <2>2, <2>4, <2>5
<1>10. CASE ~NewBar(b, reversal.bar) /\ reversal.count # 0 /\ reversal.bar # Unknown
  <2>1. r = reversal /\ (b = Unknown \/ b = reversal.bar) /\ reversal.count > 0
    BY <1>1, <1>10 DEF Qualified, NewBar
  <2>2. ASSUME ~stale
        PROVE  CountBacked(r, S)
    <3>1. against \subseteq 1 .. reversal.bar /\ Cardinality(against) >= reversal.count
      BY <1>10, <2>1, <2>2 DEF ExitInv, CountBacked
    <3>2. Cardinality(against) <= Cardinality(S) /\ Cardinality(against) \in Nat
      <4>1. against \subseteq S
        OBVIOUS
      <4>. QED  BY <1>1, <1>4, <4>1, FS_Subset, FS_CardinalityType
    <3>3. S \subseteq 1 .. reversal.bar
      BY <1>1, <1>2, <1>10, <2>1, <3>1
    <3>. QED  BY <1>1, <1>5, <1>10, <2>1, <3>1, <3>2, <3>3 DEF CountBacked
  <2>. QED  BY <1>1, <1>4, <1>5, <2>1, <2>2
<1>. QED  BY <1>7, <1>8, <1>9, <1>10

\* A read of the position as reversed closes it only on enough bars.
LEMMA ReversedKeeps ==
    ASSUME ExitInv, Reversed
    PROVE  /\ ExitInv'
           /\ position' = "reversed" /\ ~stale => Cardinality(against') >= ReversalBars
<1>1. PICK b \in KnownBars :
        /\ against' = against \cup ({b} \ {Unknown})
        /\ IF Qualified(b).count >= ReversalBars
           THEN /\ reversal' = NoReversal /\ stale' = FALSE
                /\ Exit("reversed")
           ELSE reversal' = Qualified(b) /\ UNCHANGED <<position, stale>>
  BY DEF Reversed
<1>. DEFINE r == Qualified(b)
<1>2. /\ r \in [count : Nat, bar : Nat] /\ r.bar <= bar /\ r.count > 0
      /\ IsFiniteSet(against') /\ against' \subseteq 1 .. bar
      /\ Cardinality(against') \in Nat
      /\ ~stale => CountBacked(r, against')
  BY <1>1, QualifiedIsBacked
<1>3. bar' = bar /\ bar \in Nat \ {0} /\ position = "open"
  BY DEF Reversed, ExitInv, ExitTypes
<1>4. NoReversal \in [count : Nat, bar : Nat] /\ NoReversal.bar = 0 /\ NoReversal.count = 0
  BY DEF NoReversal, Unknown
<1>. HIDE DEF r
<1>5. CASE r.count >= ReversalBars
  <2>1. reversal' = NoReversal
    BY <1>1, <1>5 DEF r
  <2>2. ExitInv'
    BY <1>2, <1>3, <1>4, <2>1 DEF ExitInv, ExitTypes
  <2>3. ~stale => Cardinality(against') >= ReversalBars
    BY <1>2, <1>5, ReversalBarsAssumption DEF CountBacked
  <2>. QED  BY <2>2, <2>3
<1>6. CASE ~(r.count >= ReversalBars)
  <2>1. reversal' = r /\ position' = position /\ stale' = stale
    BY <1>1, <1>6 DEF r
  <2>. QED  BY <1>2, <1>3, <2>1 DEF ExitInv, ExitTypes, CountBacked
<1>. QED  BY <1>5, <1>6

\* The other steps do not count, and what they leave of a count is forgotten or stale.
LEMMA OtherExitsKeep ==
    ASSUME ExitInv,
           \/ Cycle \/ NotReversed \/ OtherExit \/ EngineCloses
           \/ NextBar \/ Pause \/ Resume \/ Restart \/ UNCHANGED crossVars
    PROVE  ExitInv' /\ ~(position = "open" /\ position' = "reversed")
<1>1. /\ NoReversal \in [count : Nat, bar : Nat]
      /\ NoReversal.bar = 0 /\ NoReversal.count = 0
  BY DEF NoReversal, Unknown
<1>2. IsFiniteSet({})
  BY FS_EmptySet
<1>3. CASE UNCHANGED <<bar, exitVars>>
  BY <1>3 DEF exitVars, ExitInv, ExitTypes, CountBacked
<1>4. CASE Cycle
  <2>1. \/ UNCHANGED <<bar, exitVars>>
        \/ /\ position # "open" /\ position' = "open" /\ against' = {}
           /\ UNCHANGED <<bar, reversal, stale>>
    BY <1>4 DEF Cycle
  <2>2. CASE /\ position # "open" /\ position' = "open" /\ against' = {}
             /\ UNCHANGED <<bar, reversal, stale>>
    BY <1>1, <1>2, <2>2 DEF ExitInv, ExitTypes, CountBacked
  <2>. QED  BY <1>3, <2>1, <2>2
<1>5. CASE NotReversed
  BY <1>1, <1>2, <1>5 DEF NotReversed, ExitInv, ExitTypes
<1>6. CASE OtherExit
  BY <1>1, <1>6 DEF OtherExit, Exit, ExitInv, ExitTypes
<1>7. CASE EngineCloses
  <2>1. ~stale' => reversal = NoReversal
    BY <1>7, Zenon DEF EngineCloses
  <2>2. /\ position = "open" /\ position' = "closed"
        /\ UNCHANGED <<bar, reversal, against>>
    BY <1>7 DEF EngineCloses, signalVars
  <2>. QED  BY <1>1, <2>1, <2>2 DEF ExitInv, ExitTypes
<1>8. CASE NextBar
  <2>1. bar' = bar + 1 /\ UNCHANGED <<position, reversal, against, stale>>
    BY <1>8 DEF NextBar, exitVars
  <2>. QED  BY <2>1 DEF ExitInv, ExitTypes, CountBacked
<1>9. CASE Pause \/ Restart
  BY <1>1, <1>9 DEF Pause, Restart, ExitInv, ExitTypes
<1>10. CASE Resume \/ UNCHANGED crossVars
  BY <1>3, <1>10 DEF Resume, crossVars
<1>. QED  BY <1>4, <1>5, <1>6, <1>7, <1>8, <1>9, <1>10

LEMMA ExitInvariant == CrossSpec => []ExitInv
<1>1. CrossInit => ExitInv
  BY FS_EmptySet DEF CrossInit, ExitInv, ExitTypes, NoReversal, Unknown
<1>2. ExitInv /\ [CrossNext]_crossVars => ExitInv'
  BY ReversedKeeps, OtherExitsKeep DEF CrossNext
<1>. QED  BY <1>1, <1>2, PTL DEF CrossSpec

-----------------------------------------------------------------------------

\* A position is entered only on ConfirmBars distinct bars that read its direction, a turn
\* of the EMAs gives one signal at most, and a position is closed for a reversal only on
\* ReversalBars distinct bars (generate_signal() and manage_position() of
\* src/strategies/ema_crossover.py).
THEOREM CrossingsConfirmed == CrossSpec => CrossingsAreConfirmed
<1>1. CrossInv' => OneSignalPerTurn'
  BY DEF CrossInv, OneSignalPerTurn
<1>2. CrossInv /\ [CrossNext]_crossVars => [EntryConfirmed]_crossVars
  BY CycleKeeps, OthersKeep DEF CrossNext, EntryConfirmed
<1>3. ExitInv /\ [CrossNext]_crossVars => [ReversalConfirmed]_crossVars
  BY ReversedKeeps, OtherExitsKeep DEF CrossNext, ReversalConfirmed
<1>4. /\ CrossInv /\ CrossInv' /\ ExitInv /\ [CrossNext]_crossVars
      => [EntryConfirmed /\ OneSignalPerTurn' /\ ReversalConfirmed]_crossVars
  BY <1>1, <1>2, <1>3
<1>. QED  BY <1>4, CrossInvariant, ExitInvariant, PTL DEF CrossSpec, CrossingsAreConfirmed

-----------------------------------------------------------------------------
(***************************************************************************)
(* What is proved of PullbackSignals: a momentum signal is a breakout, it  *)
(* takes three distinct bars and does not come too late, for every length  *)
(* of a pullback and of a day, and every range of closes.                  *)
(***************************************************************************)

Trends == [state : {"none", "ESTABLISHED", "PULLBACK"}, dir : Ways \cup {"none"},
           ref : Int, pulled : Int, extended : Nat]

PullTypes ==
    /\ candle \in Nat \ {0} /\ lastCandle \in 0 .. candle
    /\ trend \in Trends
    /\ from \in Int /\ IsFiniteSet(bars) /\ IsFiniteSet(since)

\* A trend that is tracked has a direction, and its reference is no worse than the close
\* that established it.
RefHolds ==
    trend.state # "none" => trend.dir \in Ways /\ ~Beyond(trend.dir, from, trend.ref)

\* The bars that were looked at are no later than the last one: the establishing one, one
\* for each extension, and one more in a pullback.
BarsAreCounted ==
    trend.state # "none" =>
        /\ bars \subseteq 1 .. lastCandle
        /\ Cardinality(bars) >= 1 + trend.extended
        /\ trend.state = "PULLBACK" => Cardinality(bars) >= 2 + trend.extended

\* The bars since the reference was moved: the one that moved it, and those of a pullback
\* that is not too long.
PullbackIsShort ==
    /\ trend.state = "ESTABLISHED" => Cardinality(since) <= 1
    /\ trend.state = "PULLBACK" => /\ Cardinality(since) <= 1 + trend.pulled
                                  /\ trend.pulled < MaxPullback

PullInv == PullTypes /\ RefHolds /\ BarsAreCounted /\ PullbackIsShort /\ SignalIsEarned

-----------------------------------------------------------------------------

\* A read without a signal has nothing to be earned.
LEMMA NoSignalIsEarned ==
    ASSUME signal' = Hold
    PROVE  SignalIsEarned'
BY DEF SignalIsEarned, SignalTakesBars, SignalIsFresh, SignalIsBreakout

\* A bar that is new is not among the ones that were looked at.
LEMMA NewBarIsAdded ==
    ASSUME PullInv, trend.state # "none", NEW b \in {candle, NoCandle}, IsNewBar(b)
    PROVE  /\ b \in 1 .. candle /\ IsFiniteSet(bars \cup {b})
           /\ bars \cup {b} \subseteq 1 .. b
           /\ Cardinality(bars \cup {b}) = Cardinality(bars) + 1
           /\ Cardinality(bars) \in Nat
<1>1. b = candle /\ b > lastCandle
  BY DEF PullInv, PullTypes, IsNewBar, NoCandle
<1>2. b \notin bars /\ bars \cup {b} \subseteq 1 .. b
  BY <1>1 DEF PullInv, PullTypes, BarsAreCounted
<1>3. IsFiniteSet(bars)
  BY DEF PullInv, PullTypes
<1>4. Cardinality(bars) \in Nat
  BY <1>3, FS_CardinalityType
<1>5. IsFiniteSet(bars \cup {b}) /\ Cardinality(bars \cup {b}) = Cardinality(bars) + 1
  BY <1>2, <1>3, FS_AddElement
<1>. QED  BY <1>1, <1>2, <1>4, <1>5 DEF PullInv, PullTypes

\* The set of a single bar.
LEMMA OneBar == \A b : IsFiniteSet({b}) /\ Cardinality({b}) = 1
BY FS_Singleton

\* A bar makes a set of bars larger by one at most.
LEMMA OneMore ==
    ASSUME PullInv, NEW b
    PROVE  /\ IsFiniteSet(since \cup {b}) /\ Cardinality(since) \in Nat
           /\ Cardinality(since \cup {b}) \in Nat
           /\ Cardinality(since \cup {b}) <= Cardinality(since) + 1
<1>1. IsFiniteSet(since)
  BY DEF PullInv, PullTypes
<1>2. CASE b \in since
  <2>1. since \cup {b} = since
    BY <1>2
  <2>2. Cardinality(since) \in Nat
    BY <1>1, FS_CardinalityType
  <2>3. /\ IsFiniteSet(since \cup {b})
        /\ Cardinality(since \cup {b}) = Cardinality(since)
    BY <1>1, <2>1, Zenon
  <2>. QED  BY <2>2, <2>3
<1>3. CASE b \notin since
  <2>1. /\ IsFiniteSet(since \cup {b})
        /\ Cardinality(since \cup {b}) = Cardinality(since) + 1
    BY <1>1, <1>3, FS_AddElement
  <2>2. Cardinality(since) \in Nat
    BY <1>1, FS_CardinalityType
  <2>. QED  BY <2>1, <2>2
<1>. QED  BY <1>2, <1>3

\* The ghosts and the trend are as at the beginning of a day.
LEMMA ForgetKeeps ==
    ASSUME PullInv, Forget, candle' = candle, lastCandle' \in 0 .. candle
    PROVE  PullInv'
<1>1. trend' = NoTrend /\ signal' = Hold /\ from' = 0 /\ bars' = {} /\ since' = {}
  BY DEF Forget, Leave
<1>2. IsFiniteSet({}) /\ NoTrend \in Trends
  BY FS_EmptySet DEF NoTrend, Trends
<1>3. PullTypes'
  BY <1>1, <1>2 DEF PullInv, PullTypes
<1>4. trend'.state = "none"
  BY <1>1 DEF NoTrend
<1>. QED
  BY <1>1, <1>3, <1>4, NoSignalIsEarned
  DEF PullInv, RefHolds, BarsAreCounted, PullbackIsShort

-----------------------------------------------------------------------------

\* A new setup.
LEMMA EstablishKeeps ==
    ASSUME PullInv, NEW d \in Ways, NEW b \in {candle, NoCandle}, NEW c \in Int,
           NEW nearby, Establish(d, b, c, nearby), candle' = candle,
           lastCandle' = IF b = NoCandle THEN lastCandle ELSE b
    PROVE  PullInv'
<1>1. lastCandle' \in 0 .. candle
  BY DEF PullInv, PullTypes, NoCandle
<1>2. CASE b # NoCandle /\ nearby
  <2>1. /\ trend' = [state |-> "ESTABLISHED", dir |-> d, ref |-> c, pulled |-> 0,
                     extended |-> 0]
        /\ signal' = Hold /\ from' = c /\ bars' = {b} /\ since' = {b}
        /\ lastCandle' = b /\ b = candle
    BY <1>2 DEF Establish, Leave, NoCandle
  <2>2. /\ IsFiniteSet(bars') /\ Cardinality(bars') = 1
        /\ IsFiniteSet(since') /\ Cardinality(since') = 1
    BY <2>1, OneBar
  <2>3. PullTypes'
    BY <1>1, <2>1, <2>2 DEF PullInv, PullTypes, Trends
  <2>4. RefHolds'
    BY <2>1 DEF RefHolds, Beyond
  <2>5. BarsAreCounted'
    BY <2>1, <2>2 DEF BarsAreCounted, PullInv, PullTypes
  <2>6. PullbackIsShort'
    BY <2>1, <2>2 DEF PullbackIsShort
  <2>. QED  BY <2>1, <2>3, <2>4, <2>5, <2>6, NoSignalIsEarned DEF PullInv
<1>3. CASE ~(b # NoCandle /\ nearby)
  BY <1>1, <1>3, ForgetKeeps DEF Establish
<1>. QED  BY <1>2, <1>3

\* A new bar of a trend that is tracked: it pulls back, extends, goes on pulling back, or
\* breaks out.
NewBarStep(b, c, rvol) ==
    \/ trend.state = "PULLBACK" /\ BreakOut(b, c, rvol)
    \/ /\ trend.state = "ESTABLISHED" /\ Beyond(trend.dir, c, trend.ref)
       /\ Extend(b, c, rvol)
    \/ trend.state = "ESTABLISHED" /\ PullBack(b, c)

\* Each of them keeps the invariant.
LEMMA NewBarKeeps ==
    ASSUME PullInv, trend.state # "none", NEW b \in {candle, NoCandle}, IsNewBar(b),
           NEW c \in Int, NEW rvol, candle' = candle, lastCandle' = b,
           NewBarStep(b, c, rvol)
    PROVE  PullInv'
<1>1. /\ b \in 1 .. candle /\ IsFiniteSet(bars \cup {b})
      /\ bars \cup {b} \subseteq 1 .. b
      /\ Cardinality(bars \cup {b}) = Cardinality(bars) + 1
      /\ Cardinality(bars) \in Nat
  BY NewBarIsAdded
<1>2. /\ trend \in Trends /\ trend.dir \in Ways /\ from \in Int
      /\ ~Beyond(trend.dir, from, trend.ref)
  BY DEF PullInv, PullTypes, RefHolds
<1>3. lastCandle' \in 0 .. candle' /\ candle' \in Nat \ {0}
  BY <1>1 DEF PullInv, PullTypes
<1>0. /\ IsFiniteSet(since \cup {b}) /\ Cardinality(since) \in Nat
      /\ Cardinality(since \cup {b}) \in Nat
      /\ Cardinality(since \cup {b}) <= Cardinality(since) + 1
      /\ IsFiniteSet({b}) /\ Cardinality({b}) = 1
  BY OneMore, OneBar
<1>4. CASE trend.state = "PULLBACK" /\ Beyond(trend.dir, c, trend.ref) /\ rvol # "low"
           /\ BreakOut(b, c, rvol)
  <2>1. /\ trend' = NoTrend /\ signal' = [dir |-> trend.dir, at |-> c]
        /\ bars' = bars \cup {b} /\ since' = since \cup {b} /\ from' = from
    BY <1>4 DEF BreakOut, Leave
  <2>2. PullTypes' /\ trend'.state = "none"
    BY <1>0, <1>1, <1>2, <1>3, <2>1 DEF PullTypes, Trends, NoTrend
  <2>3. Beyond(trend.dir, c, from)
    BY <1>2, <1>4 DEF Beyond, Trends, Ways
  <2>4. SignalIsBreakout'
    BY <2>1, <2>3 DEF SignalIsBreakout
  <2>5. Cardinality(bars) >= 2
    BY <1>1, <1>2, <1>4 DEF PullInv, BarsAreCounted, Trends
  <2>6. SignalTakesBars'
    BY <1>1, <2>1, <2>5 DEF SignalTakesBars
  <2>7. SignalIsFresh'
    <3>1. Cardinality(since) <= 1 + trend.pulled /\ trend.pulled + 1 <= MaxPullback
      BY <1>2, <1>4, MaxPullbackAssumption DEF PullInv, PullbackIsShort, Trends
    <3>. QED  BY <1>0, <1>2, <2>1, <3>1, MaxPullbackAssumption DEF SignalIsFresh, Trends
  <2>. QED
    BY <2>2, <2>4, <2>6, <2>7
    DEF PullInv, RefHolds, BarsAreCounted, PullbackIsShort, SignalIsEarned
<1>5. CASE trend.state = "PULLBACK" /\ ~(Beyond(trend.dir, c, trend.ref) /\ rvol # "low")
           /\ GoOn(b)
  <2>1. CASE trend.pulled + 1 >= MaxPullback
    BY <1>3, <1>5, <2>1, ForgetKeeps DEF GoOn
  <2>2. CASE ~(trend.pulled + 1 >= MaxPullback)
    <3>1. /\ trend' = [trend EXCEPT !.pulled = @ + 1] /\ signal' = Hold
          /\ bars' = bars \cup {b} /\ since' = since \cup {b} /\ from' = from
      BY <1>5, <2>2 DEF GoOn, Leave
    <3>2. PullTypes'
      BY <1>0, <1>1, <1>2, <1>3, <3>1 DEF PullTypes, Trends
    <3>3. RefHolds'
      BY <1>2, <3>1 DEF RefHolds, Trends
    <3>4. BarsAreCounted'
      BY <1>1, <1>2, <1>5, <3>1 DEF PullInv, BarsAreCounted, Trends
    <3>5. PullbackIsShort'
      <4>1. Cardinality(since) <= 1 + trend.pulled
        BY <1>5 DEF PullInv, PullbackIsShort
      <4>2. /\ trend'.state = "PULLBACK" /\ trend'.pulled = trend.pulled + 1
            /\ trend.pulled \in Int
        BY <1>2, <1>5, <3>1 DEF Trends
      <4>. QED  BY <1>0, <2>2, <3>1, <4>1, <4>2, MaxPullbackAssumption DEF PullbackIsShort
    <3>. QED  BY <3>1, <3>2, <3>3, <3>4, <3>5, NoSignalIsEarned DEF PullInv
  <2>. QED  BY <2>1, <2>2
<1>6. CASE trend.state = "ESTABLISHED" /\ Beyond(trend.dir, c, trend.ref)
           /\ Extend(b, c, rvol)
  <2>1. bars' = bars \cup {b} /\ since' = {b} /\ from' = from
    BY <1>6 DEF Extend
  <2>2. Beyond(trend.dir, c, from) /\ ~Beyond(trend.dir, from, c)
    BY <1>2, <1>6 DEF Beyond, Trends, Ways
  <2>3. CASE trend.extended + 1 >= MinEstablished /\ rvol = "high"
    <3>1. trend' = NoTrend /\ signal' = [dir |-> trend.dir, at |-> c]
      BY <1>6, <2>3 DEF Extend, Leave
    <3>2. PullTypes' /\ trend'.state = "none"
      BY <1>0, <1>1, <1>2, <1>3, <2>1, <3>1 DEF PullTypes, Trends, NoTrend
    <3>3. SignalIsBreakout'
      BY <2>1, <2>2, <3>1 DEF SignalIsBreakout
    <3>4. Cardinality(bars) >= 2
      BY <1>1, <1>2, <1>6, <2>3, MinEstablishedAssumption DEF PullInv, BarsAreCounted, Trends
    <3>5. SignalTakesBars'
      BY <1>1, <2>1, <3>4 DEF SignalTakesBars
    <3>6. SignalIsFresh'
      BY <1>0, <2>1, MaxPullbackAssumption DEF SignalIsFresh
    <3>. QED
      BY <3>2, <3>3, <3>5, <3>6
      DEF PullInv, RefHolds, BarsAreCounted, PullbackIsShort, SignalIsEarned
  <2>4. CASE ~(trend.extended + 1 >= MinEstablished /\ rvol = "high")
    <3>1. trend' = [trend EXCEPT !.ref = c, !.extended = @ + 1] /\ signal' = Hold
      BY <1>6, <2>4 DEF Extend, Leave
    <3>2. PullTypes'
      <4>. DEFINE moved == [trend EXCEPT !.ref = c]
      <4>1. moved \in Trends /\ trend' = [moved EXCEPT !.extended = @ + 1]
        BY <1>2, <3>1 DEF Trends
      <4>2. trend' \in Trends
        <5>. HIDE DEF moved
        <5>. QED  BY <4>1 DEF Trends
      <4>. QED  BY <1>0, <1>1, <1>2, <1>3, <2>1, <4>2 DEF PullTypes
    <3>3. RefHolds'
      BY <1>2, <2>1, <2>2, <3>1 DEF RefHolds, Trends
    <3>4. BarsAreCounted'
      BY <1>1, <1>2, <1>6, <2>1, <3>1 DEF PullInv, BarsAreCounted, Trends
    <3>5. PullbackIsShort'
      BY <1>0, <1>2, <1>6, <2>1, <3>1 DEF PullbackIsShort, Trends
    <3>. QED  BY <3>1, <3>2, <3>3, <3>4, <3>5, NoSignalIsEarned DEF PullInv
  <2>. QED  BY <2>3, <2>4
<1>7. CASE trend.state = "ESTABLISHED" /\ PullBack(b, c)
  <2>1. /\ trend' = [trend EXCEPT !.state = "PULLBACK", !.pulled = 1] /\ signal' = Hold
        /\ bars' = bars \cup {b} /\ since' = since \cup {b} /\ from' = from
    BY <1>7 DEF PullBack, Leave
  <2>2. PullTypes'
    <3>. DEFINE turned == [trend EXCEPT !.state = "PULLBACK"]
    <3>2. turned \in Trends /\ trend' = [turned EXCEPT !.pulled = 1]
      BY <1>2, <2>1 DEF Trends
    <3>1. trend' \in Trends
      <4>. HIDE DEF turned
      <4>. QED  BY <3>2 DEF Trends
    <3>. QED  BY <1>0, <1>1, <1>2, <1>3, <2>1, <3>1 DEF PullTypes
  <2>3. RefHolds'
    BY <1>2, <2>1 DEF RefHolds, Trends
  <2>4. BarsAreCounted'
    BY <1>1, <1>2, <1>7, <2>1 DEF PullInv, BarsAreCounted, Trends
  <2>5. PullbackIsShort'
    <3>1. Cardinality(since) <= 1
      BY <1>7 DEF PullInv, PullbackIsShort
    <3>2. trend'.state = "PULLBACK" /\ trend'.pulled = 1
      BY <1>2, <2>1 DEF Trends
    <3>. QED  BY <1>0, <2>1, <3>1, <3>2, MaxPullbackAssumption DEF PullbackIsShort
  <2>. QED  BY <2>1, <2>2, <2>3, <2>4, <2>5, NoSignalIsEarned DEF PullInv
<1>. QED  BY <1>4, <1>5, <1>6, <1>7 DEF NewBarStep, BreakOut

-----------------------------------------------------------------------------

\* Every read keeps the invariant.
LEMMA ReadKeeps ==
    ASSUME PullInv, Read
    PROVE  PullInv'
<1>1. PICK raw \in Ways \cup {"none"}, still \in Ways \cup {"none"},
           b \in {candle, NoCandle}, c \in Closes, nearby \in BOOLEAN,
           rvol \in {"low", "ok", "high"} :
              /\ raw # "none" => still = raw
              /\ lastCandle' = IF b = NoCandle THEN lastCandle ELSE b
              /\ Evaluate(Judged(raw, still), b, c, nearby, rvol)
              /\ UNCHANGED candle
  BY Zenon DEF Read
<1>. DEFINE d == Judged(raw, still)
<1>2. c \in Int /\ lastCandle' \in 0 .. candle
  BY <1>1 DEF Closes, PullInv, PullTypes, NoCandle
<1>3. d \in Ways \cup {"none"} /\ trend.state \in {"none", "ESTABLISHED", "PULLBACK"}
  BY DEF Judged, PullInv, PullTypes, Trends
<1>4. CASE d = "none"
  BY <1>1, <1>2, <1>4, ForgetKeeps DEF Evaluate
<1>5. CASE d # "none" /\ (trend.state = "none" \/ (trend.dir # d /\ IsNewBar(b)))
  <2>1. Establish(d, b, c, nearby) /\ d \in Ways
    BY <1>1, <1>3, <1>5 DEF Evaluate
  <2>. QED  BY <1>1, <1>2, <2>1, EstablishKeeps
<1>6. CASE d # "none" /\ trend.state # "none" /\ ~IsNewBar(b)
  <2>1. /\ trend' = trend /\ signal' = Hold
        /\ from' = from /\ bars' = bars /\ since' = since
    BY <1>1, <1>6 DEF Evaluate, Keep, Leave, ghosts
  <2>2. lastCandle' = lastCandle
    BY <1>1, <1>6 DEF IsNewBar
  <2>. QED
    BY <1>1, <2>1, <2>2, NoSignalIsEarned
    DEF PullInv, PullTypes, RefHolds, BarsAreCounted, PullbackIsShort
<1>7. CASE d # "none" /\ trend.state # "none" /\ trend.dir = d /\ IsNewBar(b)
  <2>1. lastCandle' = b
    BY <1>1, <1>7 DEF IsNewBar
  <2>2. NewBarStep(b, c, rvol)
    BY <1>1, <1>3, <1>7 DEF Evaluate, NewBarStep
  <2>. QED  BY <1>1, <1>2, <1>7, <2>1, <2>2, NewBarKeeps
<1>8. \/ d = "none"
      \/ d # "none" /\ (trend.state = "none" \/ (trend.dir # d /\ IsNewBar(b)))
      \/ d # "none" /\ trend.state # "none" /\ ~IsNewBar(b)
      \/ d # "none" /\ trend.state # "none" /\ trend.dir = d /\ IsNewBar(b)
  BY DEF IsNewBar
<1>. QED  BY <1>4, <1>5, <1>6, <1>7, <1>8

LEMMA PullInvariant == PullSpec => []PullInv
<1>1. PullInit => PullInv
  BY FS_EmptySet
  DEF PullInit, PullInv, PullTypes, Trends, NoTrend, NoCandle, RefHolds, BarsAreCounted,
      PullbackIsShort, SignalIsEarned, SignalTakesBars, SignalIsFresh, SignalIsBreakout
<1>2. ASSUME PullInv, [PullNext]_pullVars
      PROVE  PullInv'
  <2>1. CASE Read
    BY <1>2, <2>1, ReadKeeps
  <2>2. CASE NoClose
    BY <1>2, <2>2, ForgetKeeps DEF NoClose, PullInv, PullTypes
  <2>3. CASE NextCandle
    BY <1>2, <2>3
    DEF NextCandle, ghosts, PullInv, PullTypes, RefHolds, BarsAreCounted,
        PullbackIsShort, SignalIsEarned, SignalTakesBars, SignalIsFresh, SignalIsBreakout
  <2>4. CASE Reset
    BY <1>2, <2>4, ForgetKeeps DEF Reset, NoCandle, PullInv, PullTypes
  <2>5. CASE UNCHANGED pullVars
    BY <1>2, <2>5
    DEF pullVars, ghosts, PullInv, PullTypes, RefHolds, BarsAreCounted,
        PullbackIsShort, SignalIsEarned, SignalTakesBars, SignalIsFresh, SignalIsBreakout
  <2>. QED  BY <1>2, <2>1, <2>2, <2>3, <2>4, <2>5 DEF PullNext
<1>. QED  BY <1>1, <1>2, PTL DEF PullSpec

\* A momentum signal takes three distinct bars, however often each is read, is given on a
\* reference that is not too old, and beyond the close that established the trend
\* (_pullback_continuation_signal() of src/strategies/momentum.py).
THEOREM SignalEarned == PullSpec => []SignalIsEarned
BY PullInvariant, PTL DEF PullInv

-----------------------------------------------------------------------------
(***************************************************************************)
(* What is proved of StructureRules, for every chain of strikes, every     *)
(* price, crowd and volatility, and for any quotes and estimates: the      *)
(* strikes that are chosen exist, the nearest listed strikes keep the      *)
(* order of those that were aimed at, hence a hedge is never on the wrong  *)
(* side of its short leg; and no exit rule applies to what has just been   *)
(* entered but for what its short legs are read at.                        *)
(***************************************************************************)

\* The least of some numbers that are not below another.
LEMMA LeastExists ==
    ASSUME NEW S \in SUBSET Int, S # {}, NEW lo \in Int, \A i \in S : lo <= i
    PROVE  \E i \in S : \A j \in S : i <= j
<1> DEFINE N == {i - lo : i \in S}
<1>1. N \in SUBSET Nat /\ N # {}
  <2>1. PICK i \in S : TRUE
    OBVIOUS
  <2>2. i - lo \in N
    BY <2>1
  <2>3. \A j \in S : j - lo \in Nat
    OBVIOUS
  <2> QED BY <2>2, <2>3
<1>2. PICK n \in N : \A k \in N : ~ (<<k, n>> \in OpToRel(<, Nat))
  BY <1>1, NatLessThanWellFounded, WFMin
<1>3. PICK i \in S : n = i - lo
  OBVIOUS
<1>4. ASSUME NEW j \in S PROVE i <= j
  <2>1. j - lo \in Nat /\ n \in Nat /\ j - lo \in N
    BY <1>1
  <2>2. j - lo < n => <<j - lo, n>> \in {ss \in Nat \X Nat : ss[1] < ss[2]}
    BY <2>1
  <2>3. ~ (j - lo < n)
    BY <1>2, <2>1, <2>2 DEF OpToRel
  <2> QED BY <1>3, <2>1, <2>3
<1> QED BY <1>4

\* The first of those nearest to what is aimed at.
LEMMA ClosestExists ==
    ASSUME NEW S \in SUBSET Int, S # {}, NEW f \in [S -> Nat], NEW lo \in Int,
           \A i \in S : lo - f[i] <= i
    PROVE  \E i \in S : \A j \in S : f[i] < f[j] \/ (f[i] = f[j] /\ i <= j)
<1> DEFINE F == {f[i] : i \in S}
<1>1. F \in SUBSET Int /\ F # {} /\ 0 \in Int /\ \A n \in F : 0 <= n
  <2>1. PICK i \in S : TRUE
    OBVIOUS
  <2>2. f[i] \in F
    BY <2>1
  <2>3. F \subseteq Nat
    OBVIOUS
  <2> HIDE DEF F
  <2>4. F \in SUBSET Int /\ \A n \in F : 0 <= n
    BY <2>3
  <2> QED BY <2>2, <2>4
<1> HIDE DEF F
<1>2. PICK m \in F : \A n \in F : m <= n
  BY <1>1, LeastExists
<1> USE DEF F
<1> DEFINE T == {i \in S : f[i] = m}
<1>3. T \in SUBSET Int /\ T # {} /\ lo - m \in Int /\ \A i \in T : lo - m <= i
  <2>1. PICK i \in S : m = f[i]
    BY <1>2
  <2>2. i \in T
    BY <2>1
  <2>3. m \in Int /\ lo - m \in Int
    BY <1>1
  <2>4. \A j \in T : j \in S /\ j \in Int /\ lo - m <= j
    OBVIOUS
  <2> QED BY <2>2, <2>3, <2>4
<1> HIDE DEF T
<1>4. PICK i \in T : \A j \in T : i <= j
  BY <1>3, LeastExists
<1> USE DEF T
<1>5. ASSUME NEW j \in S PROVE f[i] < f[j] \/ (f[i] = f[j] /\ i <= j)
  <2>1. m <= f[j] /\ m \in Nat /\ f[j] \in Nat /\ f[i] = m
    BY <1>2
  <2>2. f[j] = m => i <= j
    BY <1>4
  <2> QED BY <2>1, <2>2
<1> QED BY <1>5

-----------------------------------------------------------------------------
(* Strikes.                                                                *)

LEMMA DistanceIsInt ==
    ASSUME NEW opt \in Opts, NEW strike \in Int, NEW at \in Int
    PROVE  Otm(opt, strike, at) \in Int
BY DEF Otm, Toward

\* |delta| is a number, and beyond 50 for a strike the price has passed, only.
LEMMA DeltaTyped ==
    ASSUME NEW opt \in Opts, NEW strike \in Int, NEW at \in Int, NEW sigma \in Sigmas
    PROVE  /\ Delta(opt, strike, at, sigma) \in Nat
           /\ Otm(opt, strike, at) < 0 => Delta(opt, strike, at, sigma) = 60
<1> DEFINE d == (2 * Otm(opt, strike, at)) \div sigma
<1>1. Otm(opt, strike, at) \in Int /\ sigma \in {1, 2, 4}
  BY DistanceIsInt DEF Sigmas
<1>2. d \in Int /\ (Otm(opt, strike, at) < 0 => d < 0)
  BY <1>1
<1> HIDE DEF d
<1>3. Delta(opt, strike, at, sigma)
        = IF d < 0 THEN 60 ELSE IF d < 8 THEN <<50, 40, 30, 20, 14, 10, 6, 4>>[d + 1] ELSE 2
  BY DEF Delta, d
<1>4. d \in 0 .. 7 => <<50, 40, 30, 20, 14, 10, 6, 4>>[d + 1] \in Nat
  <2> SUFFICES ASSUME d \in 0 .. 7
               PROVE  <<50, 40, 30, 20, 14, 10, 6, 4>>[d + 1] \in Nat
    OBVIOUS
  <2>1. d = 0 \/ d = 1 \/ d = 2 \/ d = 3 \/ d = 4 \/ d = 5 \/ d = 6 \/ d = 7
    OBVIOUS
  <2> QED BY <2>1
<1> QED BY <1>2, <1>3, <1>4

LEMMA DiffIsNat ==
    ASSUME NEW a \in Int, NEW b \in Int
    PROVE  AbsDiff(a, b) \in Nat /\ b - AbsDiff(a, b) <= a
BY DEF AbsDiff

\* get_real_contract() finds a listed strike, no other being nearer.
LEMMA NearestIsChosen ==
    ASSUME chain \in SUBSET Int, chain # {}, NEW strike \in Int
    PROVE  /\ Nearest(strike) \in chain
           /\ \A j \in chain :
                 \/ AbsDiff(Nearest(strike), strike) < AbsDiff(j, strike)
                 \/ /\ AbsDiff(Nearest(strike), strike) = AbsDiff(j, strike)
                    /\ Nearest(strike) <= j
<1> DEFINE f == [k \in chain |-> AbsDiff(k, strike)]
<1>1. f \in [chain -> Nat] /\ \A k \in chain : strike - f[k] <= k
  BY DiffIsNat
<1> HIDE DEF f
<1>2. PICK k \in chain : \A j \in chain : f[k] < f[j] \/ (f[k] = f[j] /\ k <= j)
  BY <1>1, ClosestExists
<1>3. \A j \in chain : AbsDiff(k, strike) < AbsDiff(j, strike)
                       \/ (AbsDiff(k, strike) = AbsDiff(j, strike) /\ k <= j)
  BY <1>2 DEF f
<1> QED BY <1>3 DEF Nearest

\* What is listed is found.
LEMMA ListedIsNearest ==
    ASSUME chain \in SUBSET Int, NEW strike \in chain
    PROVE  Nearest(strike) = strike
<1> DEFINE k == Nearest(strike)
<1>1. k \in Int /\ (AbsDiff(k, strike) < AbsDiff(strike, strike)
                     \/ AbsDiff(k, strike) = AbsDiff(strike, strike))
  BY NearestIsChosen
<1> HIDE DEF k
<1>2. k = strike
  BY <1>1 DEF AbsDiff
<1> QED BY <1>2 DEF k

\* Two strikes are found in the order they are looked for in.
LEMMA NearestKeepsOrder ==
    ASSUME chain \in SUBSET Int, chain # {}, NEW a \in Int, NEW b \in Int, a <= b
    PROVE  Nearest(a) <= Nearest(b)
<1> DEFINE k == Nearest(a)
           l == Nearest(b)
<1>1. /\ k \in Int /\ l \in Int
      /\ AbsDiff(k, a) < AbsDiff(l, a) \/ (AbsDiff(k, a) = AbsDiff(l, a) /\ k <= l)
      /\ AbsDiff(l, b) < AbsDiff(k, b) \/ AbsDiff(l, b) = AbsDiff(k, b)
  BY NearestIsChosen
<1> HIDE DEF k, l
<1>2. k <= l
  BY <1>1 DEF AbsDiff
<1> QED BY <1>2 DEF k, l

\* A strike both of whose neighbours are listed is found for itself alone.
LEMMA NearestAmongNeighbours ==
    ASSUME chain \in SUBSET Int, chain # {}, NEW a \in Int,
           {Nearest(a) - 1, Nearest(a) + 1} \subseteq chain
    PROVE  a = Nearest(a)
<1> DEFINE k == Nearest(a)
<1>1. k \in Int
  BY NearestIsChosen
<1>2. Nearest(k - 1) = k - 1 /\ Nearest(k + 1) = k + 1
  BY ListedIsNearest
<1>3. ~ (a <= k - 1)
  BY <1>1, <1>2, NearestKeepsOrder
<1>4. ~ (k + 1 <= a)
  BY <1>1, <1>2, NearestKeepsOrder
<1> HIDE DEF k
<1>5. a = k
  BY <1>1, <1>3, <1>4
<1> QED BY <1>5 DEF k

LEMMA FindDeltaStrikeIsInt ==
    ASSUME price \in Int, NEW opt \in Opts, NEW target \in Int, NEW sigma \in Sigmas
    PROVE  FindDeltaStrike(opt, target, sigma) \in Int
<1> DEFINE off(i) == AbsDiff(Delta(opt, price + Toward(opt) * i, price, sigma), target)
           f == [i \in -2 .. 16 |-> off(i)]
           Best(i) == \A j \in -2 .. 16 : off(i) < off(j) \/ (off(i) = off(j) /\ i <= j)
           best == CHOOSE i \in -2 .. 16 : Best(i)
<1>1. Toward(opt) \in Int
  BY DEF Toward
<1>2. ASSUME NEW i \in -2 .. 16 PROVE off(i) \in Nat
  <2>1. i \in Int /\ price + Toward(opt) * i \in Int
    BY <1>1
  <2> DEFINE d == Delta(opt, price + Toward(opt) * i, price, sigma)
  <2>2. d \in Nat
    BY <2>1, DeltaTyped
  <2> HIDE DEF d
  <2>3. AbsDiff(d, target) \in Nat
    BY <2>2, DiffIsNat
  <2> QED BY <2>3 DEF d
<1> HIDE DEF off
<1>3. f \in [-2 .. 16 -> Nat] /\ -2 \in Int /\ \A i \in -2 .. 16 : -2 - f[i] <= i
  BY <1>2
<1>4. -2 .. 16 \in SUBSET Int /\ -2 .. 16 # {}
  <2>1. 0 \in -2 .. 16
    OBVIOUS
  <2> QED BY <2>1
<1> HIDE DEF f
<1>5. PICK i \in -2 .. 16 : \A j \in -2 .. 16 : f[i] < f[j] \/ (f[i] = f[j] /\ i <= j)
  BY <1>3, <1>4, ClosestExists
<1>6. Best(i)
  BY <1>5 DEF f
<1>7. best \in -2 .. 16
  BY <1>6
<1>8. FindDeltaStrike(opt, target, sigma) = price + Toward(opt) * Max({best, 1})
  BY DEF FindDeltaStrike, off
<1> HIDE DEF best
<1>9. Max({best, 1}) \in {best, 1}
  <2>1. \E x \in {best, 1} : \A y \in {best, 1} : x >= y
    BY <1>7
  <2> QED BY <2>1 DEF Max
<1>10. Max({best, 1}) \in Int
  BY <1>7, <1>9
<1> HIDE DEF Best
<1> QED BY <1>1, <1>8, <1>10

\* Two strikes on a side, and two of which the hedge is aimed farther out.
Pair(opt) == [opt : {opt}, short : Int, long : Int]

ApartPair(opt) == {m \in Pair(opt) : Otm(opt, m.long, m.short) > 0}

\* What resolving them to listed strikes may leave.
ListedPair(opt) ==
    {m \in Pair(opt) : \/ Otm(opt, m.long, m.short) > 0
                       \/ /\ m.long = m.short
                          /\ ~ ({m.short - 1, m.short + 1} \subseteq chain)}

LEMMA ApartIsApart ==
    ASSUME NEW opt \in Opts, NEW wing \in Pair(opt)
    PROVE  Apart(opt, wing) \in ApartPair(opt)
<1>1. /\ wing.short \in Int /\ wing.long \in Int
      /\ Toward(opt) \in {-1, 1}
  BY DEF Pair, Toward
<1>2. CASE Otm(opt, wing.long, wing.short) > 0
  BY <1>2 DEF Apart, ApartPair
<1>3. CASE ~ (Otm(opt, wing.long, wing.short) > 0)
  <2> DEFINE far == [wing EXCEPT !.long = wing.short + 2 * Toward(opt)]
  <2>1. wing.short + 2 * Toward(opt) \in Int
    BY <1>1
  <2>2. /\ far \in Pair(opt) /\ far.short = wing.short
        /\ far.long = wing.short + 2 * Toward(opt)
    BY <2>1 DEF Pair
  <2>3. Otm(opt, far.long, far.short) > 0
    BY <1>1, <2>2 DEF Otm
  <2> QED BY <1>3, <2>2, <2>3 DEF Apart, ApartPair
<1> QED BY <1>2, <1>3

LEMMA TargetIsApart ==
    ASSUME price \in Int, NEW opt \in Opts, NEW sigma \in Sigmas
    PROVE  Target(opt, sigma) \in ApartPair(opt)
<1> DEFINE s == FindDeltaStrike(opt, 20, sigma)
           l == FindDeltaStrike(opt, 10, sigma)
<1>1. s \in Int /\ l \in Int
  BY FindDeltaStrikeIsInt
<1> HIDE DEF s, l
<1>2. [opt |-> opt, short |-> s, long |-> l] \in Pair(opt)
  BY <1>1 DEF Pair
<1> QED BY <1>2, ApartIsApart DEF Target, s, l

LEMMA RehedgedIsApart ==
    ASSUME NEW opt \in Opts, NEW wing \in Pair(opt), NEW short \in Int
    PROVE  Rehedged(wing, short) \in ApartPair(opt)
<1>1. wing.opt = opt /\ [wing EXCEPT !.short = short] \in Pair(opt)
  BY DEF Pair
<1> QED BY <1>1, ApartIsApart DEF Rehedged

LEMMA UncrowdedAreInt ==
    ASSUME NEW opt \in Opts, NEW strike \in Int, NEW crowded, NEW sigma \in Sigmas,
           NEW k \in Uncrowded(opt, strike, crowded, sigma)
    PROVE  k \in Int
<1> DEFINE ok == {i \in 1 .. 3 : LET q == strike + Toward(opt) * i IN
                    q \notin crowded /\ AbsDiff(Delta(opt, q, price, sigma), 20) <= 8}
<1>1. ok # {} /\ k = strike + Toward(opt) * Min(ok)
  BY DEF Uncrowded
<1>2. ok \in SUBSET Int /\ 1 \in Int /\ \A i \in ok : 1 <= i
  OBVIOUS
<1> HIDE DEF ok
<1>3. \E i \in ok : \A j \in ok : i <= j
  BY <1>1, <1>2, LeastExists
<1>4. Min(ok) \in ok
  BY <1>3 DEF Min
<1>5. Toward(opt) \in Int
  BY DEF Toward
<1> QED BY <1>1, <1>2, <1>4, <1>5

\* Of two strikes that are aimed apart the hedge is not found on the near side, and both
\* are found at one strike only where its neighbours are not both listed.
LEMMA ListedKeepsTheSide ==
    ASSUME chain \in SUBSET Int, chain # {}, NEW opt \in Opts, NEW wing \in ApartPair(opt)
    PROVE  Listed(wing) \in ListedPair(opt)
<1> DEFINE s == Nearest(wing.short)
           l == Nearest(wing.long)
           m == Listed(wing)
<1>1. wing.short \in Int /\ wing.long \in Int /\ wing \in Pair(opt)
  BY DEF ApartPair, Pair
<1>2. s \in Int /\ l \in Int
  BY <1>1, NearestIsChosen
<1>3. m \in Pair(opt) /\ m.short = s /\ m.long = l
  BY <1>1, <1>2 DEF Listed, Pair
<1>4. /\ opt = "PE" => wing.long < wing.short
      /\ opt # "PE" => wing.short < wing.long
  BY <1>1 DEF ApartPair, Otm, Toward
<1>5. /\ opt = "PE" => l <= s
      /\ opt # "PE" => s <= l
  BY <1>1, <1>4, NearestKeepsOrder
<1>6. ASSUME s = l, {s - 1, s + 1} \subseteq chain PROVE FALSE
  <2>1. wing.short = s /\ wing.long = l
    BY <1>1, <1>6, NearestAmongNeighbours
  <2> HIDE DEF s, l
  <2> QED BY <1>1, <1>4, <1>6, <2>1
<1> HIDE DEF s, l, m
<1>7. s # l => Otm(opt, l, s) > 0
  BY <1>2, <1>5 DEF Otm, Toward
<1> QED BY <1>3, <1>6, <1>7 DEF ListedPair, m

LEMMA SpreadStrikesAreListed ==
    ASSUME price \in Int, chain \in SUBSET Int, chain # {}, NEW opt \in Opts,
           NEW crowded, NEW sigma \in Sigmas, NEW m \in SpreadStrikes(opt, crowded, sigma)
    PROVE  m \in ListedPair(opt)
<1> DEFINE first == Listed(Target(opt, sigma))
<1>1. first \in ListedPair(opt)
  BY TargetIsApart, ListedKeepsTheSide
<1>2. first \in Pair(opt) /\ first.short \in Int
  BY <1>1 DEF ListedPair, Pair
<1> HIDE DEF first
<1>3. CASE m = first
  BY <1>1, <1>3
<1>4. CASE m # first
  <2>1. PICK k \in Uncrowded(opt, first.short, crowded, sigma) :
            m = Listed(Rehedged(first, Nearest(k)))
    BY <1>4 DEF SpreadStrikes, first
  <2>2. k \in Int
    BY <1>2, UncrowdedAreInt
  <2>3. Nearest(k) \in Int
    BY <2>2, NearestIsChosen
  <2> QED BY <1>2, <2>1, <2>3, RehedgedIsApart, ListedKeepsTheSide
<1> QED BY <1>3, <1>4

LEMMA CondorStrikesAreListed ==
    ASSUME price \in Int, chain \in SUBSET Int, chain # {}, NEW opt \in Opts,
           NEW crowded, NEW sigma \in Sigmas, NEW m \in CondorStrikes(opt, crowded, sigma)
    PROVE  m \in ListedPair(opt)
<1> DEFINE aimed == Target(opt, sigma)
<1>1. aimed \in ApartPair(opt)
  BY TargetIsApart
<1>2. aimed \in Pair(opt) /\ aimed.short \in Int
  BY <1>1 DEF ApartPair, Pair
<1> HIDE DEF aimed
<1>3. CASE m = Listed(aimed)
  BY <1>1, <1>3, ListedKeepsTheSide
<1>4. CASE m # Listed(aimed)
  <2>1. PICK k \in Uncrowded(opt, aimed.short, crowded, sigma) : m = Listed(Rehedged(aimed, k))
    BY <1>4 DEF CondorStrikes, aimed
  <2>2. k \in Int
    BY <1>2, UncrowdedAreInt
  <2> QED BY <1>2, <2>1, <2>2, RehedgedIsApart, ListedKeepsTheSide
<1> QED BY <1>3, <1>4

\* A wing away from the price, which is why no rule about the price speaks against it.
Calm(w, sigma) ==
    w.shortPremium > 0 /\ ~Breached(w) /\ Delta(w.opt, w.short, price, sigma) <= 40

\* What the gates let through, at whatever the legs were quoted: the side of the hedge is
\* that of its strike, and a delta near the target says that the price is not past the
\* short strike.
LEMMA WingsAreSound ==
    ASSUME price \in Int, NEW opt \in Opts, NEW strikes, strikes \subseteq ListedPair(opt),
           NEW sigma \in Sigmas, NEW w \in Wings(strikes, sigma)
    PROVE  w \in Wing /\ w.opt = opt /\ Hedged(w) /\ Calm(w, sigma)
<1>1. PICK m \in strikes : w \in Priced(m)
  BY DEF Wings
<1>2. DeltaOk(w, sigma) /\ Credit(w) > 0
  BY DEF Wings
<1>3. PICK p \in Quotes, q \in Quotes :
        w = [opt |-> m.opt, short |-> m.short, long |-> m.long,
             shortPremium |-> p, longPremium |-> q]
  BY <1>1 DEF Priced
<1>4. m.opt = opt /\ m.short \in Int /\ m.long \in Int /\ m \in ListedPair(opt)
  BY DEF ListedPair, Pair
<1>5. p \in Nat \ {0} /\ q \in Nat \ {0}
  BY RulesConstants
<1>6. w \in Wing
  BY <1>3, <1>4, <1>5 DEF Wing
<1>7. Hedged(w)
  <2>1. w.longPremium < w.shortPremium
    BY <1>2, <1>3, <1>5 DEF Credit
  <2> QED BY <1>3, <1>4, <2>1 DEF Hedged, ListedPair
<1>8. Calm(w, sigma)
  <2> DEFINE d == Delta(opt, m.short, price, sigma)
  <2>1. /\ d \in Nat /\ (Otm(opt, m.short, price) < 0 => d = 60)
        /\ Otm(opt, m.short, price) \in Int
    BY <1>4, DeltaTyped, DistanceIsInt
  <2>2. AbsDiff(d, 20) <= 15 /\ d = Delta(w.opt, w.short, price, sigma)
    BY <1>2, <1>3, <1>4 DEF DeltaOk
  <2> HIDE DEF d
  <2>3. d <= 40 /\ ~ (Otm(opt, m.short, price) < 0)
    BY <2>1, <2>2 DEF AbsDiff
  <2>4. w.shortPremium > 0
    BY <1>3, <1>5
  <2> QED BY <1>3, <1>4, <2>2, <2>3, <2>4 DEF Calm, Breached
<1> QED BY <1>3, <1>4, <1>6, <1>7, <1>8

\* A structure that nothing has happened to since its entry: the market is the one it was
\* entered in, its expiry is far, and no leg is under threat.
EnteredIsCalm ==
    JustEntered => /\ book # None
                   /\ book.vix = vix /\ book.dte >= ReentryMinDte /\ book.old = FALSE
                   /\ \A w \in book.wings : Calm(w, enteredAt)

\* A restart that finds it does not flag it.
EnteredIsUnflagged == JustEntered /\ restored => ~forced

RulesInv == RulesTypeOK /\ HedgeIsFarther /\ EnteredIsCalm /\ EnteredIsUnflagged

\* What an exit check reads of a leg is a price.
LEMMA ReadingsArePrices ==
    ASSUME NEW s \in Structure, NEW unread \in BOOLEAN, NEW quoted \in Readings(s, unread),
           NEW w \in s.wings
    PROVE  quoted[w].short \in Nat
<1> DEFINE entry == UNION {{v.shortPremium, v.longPremium} : v \in s.wings}
           leg   == Quotes \cup (IF unread THEN entry ELSE Estimates)
<1>1. \A v \in s.wings : v.shortPremium \in Nat /\ v.longPremium \in Nat
  BY DEF Structure, Wing
<1>2. entry \subseteq Nat
  BY <1>1
<1> HIDE DEF entry
<1>3. leg \subseteq Nat
  BY <1>2, RulesConstants
<1>4. quoted \in [s.wings -> [short : leg, long : leg]]
  BY DEF Readings, entry
<1> HIDE DEF leg
<1> QED BY <1>3, <1>4

\* No rule speaks against a structure that stands as it was entered, but for what its
\* short legs are read at.
LEMMA CalmIsNoExit ==
    ASSUME RulesInv, JustEntered, ~forced, NEW unread \in BOOLEAN, NEW mood,
           NEW quoted \in Readings(book, unread),
           ExitReason(book, quoted, unread, enteredAt, mood)
    PROVE  \E w \in book.wings : AtMost(w, quoted, 45) \/ AtLeast(w, quoted, 200)
<1> USE DEF RulesInv
<1>1. /\ book # None /\ book \in Structure
      /\ book.vix = vix /\ book.dte \in Dtes /\ book.dte >= 14 /\ book.old = FALSE
      /\ vix \in VixLevels /\ enteredAt \in Sigmas
  BY DEF EnteredIsCalm, RulesTypeOK, IsStructure, Structure, ReentryMinDte, JustEntered
<1>2. ~VixSpike(book)
  BY <1>1 DEF VixSpike, VixLevels
<1>3. ~TooLate(book)
  BY <1>1 DEF TooLate, MinDte, Dtes
<1>4. ProfitTier(book) \in {45, 35, 25}
  BY DEF ProfitTier
<1>5. ASSUME NEW w \in book.wings
      PROVE  /\ ~UnderThreat(w, unread, enteredAt)
             /\ \A p \in {25, 35, 45} : AtMost(w, quoted, p) => AtMost(w, quoted, 45)
  <2>1. Calm(w, enteredAt) /\ w \in Wing
    BY <1>1, <1>5 DEF EnteredIsCalm, Structure
  <2>2. w.opt \in Opts /\ w.short \in Int /\ w.shortPremium \in Nat
    BY <2>1 DEF Wing
  <2>3. price \in Int
    BY RulesConstants DEF RulesTypeOK
  <2> DEFINE d == Delta(w.opt, w.short, price, enteredAt)
  <2>4. d \in Nat /\ d <= 40
    BY <1>1, <2>1, <2>2, <2>3, DeltaTyped DEF Calm
  <2> HIDE DEF d
  <2>5. ~ (d > 40)
    BY <2>4
  <2>6. ~UnderThreat(w, unread, enteredAt)
    BY <2>1, <2>5 DEF Calm, UnderThreat, d
  <2>7. quoted[w].short \in Nat
    BY <1>1, <1>5, ReadingsArePrices
  <2>8. \A p \in {25, 35, 45} : AtMost(w, quoted, p) => AtMost(w, quoted, 45)
    BY <2>2, <2>7 DEF AtMost
  <2> QED BY <2>6, <2>8
<1>6. Max({ProfitTier(book), IF VixSpike(book) THEN 40 ELSE 0}) \in {25, 35, 45}
  <2> DEFINE t == ProfitTier(book)
  <2>1. t \in {25, 35, 45}
    BY <1>4
  <2> HIDE DEF t
  <2>2. Max({t, 0}) = t
    <3>1. \A x \in {t, 0} : (\A y \in {t, 0} : x >= y) <=> x = t
      BY <2>1
    <3> QED BY <3>1 DEF Max
  <2> QED BY <1>2, <2>1, <2>2 DEF t
<1>7. CASE SpreadExitReason(book, quoted, unread, enteredAt)
  <2>1. PICK w \in book.wings :
            AtMost(w, quoted, ProfitTier(book)) \/ AtMost(w, quoted, 25) \/ AtLeast(w, quoted, 200)
    BY <1>2, <1>3, <1>5, <1>7 DEF SpreadExitReason
  <2> QED BY <1>4, <1>5, <2>1
<1>8. CASE CondorExitReason(book, quoted, unread, enteredAt, mood)
  <2> DEFINE tier == Max({ProfitTier(book), IF VixSpike(book) THEN 40 ELSE 0})
  <2>1. PICK w \in book.wings : AtMost(w, quoted, tier) \/ AtLeast(w, quoted, 200)
    BY <1>1, <1>2, <1>3, <1>5, <1>8 DEF CondorExitReason
  <2>2. tier \in {25, 35, 45}
    BY <1>6
  <2> HIDE DEF tier
  <2> QED BY <1>5, <2>1, <2>2
<1> QED BY <1>7, <1>8 DEF ExitReason

LEMMA RulesInvImplies == RulesInv => RulesTypeOK /\ EntryIsSound
<1> SUFFICES ASSUME RulesInv PROVE EntryIsNoExit
  BY DEF RulesInv, EntryIsSound
<1> SUFFICES ASSUME JustEntered /\ (forced => restored), NEW unread \in BOOLEAN,
                    NEW mood \in MarketRegimes, NEW quoted \in Readings(book, unread),
                    ExitReason(book, quoted, unread, enteredAt, mood)
             PROVE  \E w \in book.wings : AtMost(w, quoted, 45) \/ AtLeast(w, quoted, 200)
  BY DEF EntryIsNoExit
<1>1. ~forced
  BY DEF RulesInv, EnteredIsUnflagged
<1> QED BY <1>1, CalmIsNoExit

LEMMA RulesInitInv == RulesInit => RulesInv
<1> SUFFICES ASSUME RulesInit PROVE RulesInv
  OBVIOUS
<1>1. RulesTypeOK
  <2>1. 0 \in 0 .. MaxNights
    BY RulesConstants
  <2> QED BY <2>1 DEF RulesInit, RulesTypeOK, Dtes
<1> QED BY <1>1
        DEF RulesInit, RulesInv, HedgeIsFarther, EnteredIsCalm, EnteredIsUnflagged, JustEntered

\* The market the rules read.
LEMMA MarketTyped ==
    ASSUME RulesTypeOK
    PROVE  price \in Int /\ chain \in SUBSET Int /\ chain # {}
BY RulesConstants DEF RulesTypeOK

LEMMA EntryDtesAreFar ==
    ASSUME near \in Dtes, NEW dte \in EntryDtes
    PROVE  dte \in Dtes /\ dte >= ReentryMinDte
BY DEF EntryDtes, Dtes, ReentryMinDte, EntryMinDte

\* One wing of a spread, or the two of a condor, is all that an entry needs.
LEMMA EnteredKeepsInv ==
    ASSUME RulesInv, NEW kind \in {"spread", "condor"}, NEW wings, NEW dte \in EntryDtes,
           NEW sigma \in Sigmas,
           Entered(kind, wings, dte, sigma),
           \A w \in wings : w \in Wing /\ Hedged(w) /\ Calm(w, sigma),
           Cardinality(wings) = (IF kind = "spread" THEN 1 ELSE 2),
           kind = "condor" => {w.opt : w \in wings} = Opts
    PROVE  RulesInv'
<1> DEFINE b == [kind |-> kind, wings |-> wings, dte |-> dte, vix |-> vix, old |-> FALSE]
<1>1. /\ book' = b /\ enteredAt' = sigma /\ restored' = FALSE
      /\ UNCHANGED <<chain, price, vix, near, single, lostToday, won, losses, forced, nights>>
  BY DEF Entered
<1>2. dte \in Dtes /\ dte >= ReentryMinDte
  BY EntryDtesAreFar DEF RulesInv, RulesTypeOK
<1>3. b \in Structure
  BY <1>2 DEF Structure, RulesInv, RulesTypeOK
<1>4. IsStructure(b)
  BY <1>3 DEF IsStructure
<1>5. b # None
  <2>1. b.kind # None.kind
    BY DEF None
  <2> QED BY <2>1
<1>6. RulesTypeOK'
  <2>1. IsStructure(book')
    BY <1>1, <1>4
  <2>2. IsStructure(book)'
    BY <2>1 DEF IsStructure, Structure
  <2> QED BY <1>1, <2>2 DEF RulesInv, RulesTypeOK
<1>7. HedgeIsFarther'
  <2>1. \A w \in wings : Hedged(w)'
    BY <1>1 DEF Hedged
  <2> QED BY <1>1, <2>1 DEF HedgeIsFarther
<1>8. EnteredIsCalm'
  <2>1. \A w \in wings : Calm(w, enteredAt)'
    BY <1>1 DEF Calm, Breached
  <2> QED BY <1>1, <1>2, <1>5, <2>1 DEF EnteredIsCalm
<1>9. EnteredIsUnflagged'
  BY <1>1 DEF EnteredIsUnflagged
<1> QED BY <1>6, <1>7, <1>8, <1>9 DEF RulesInv

LEMMA SpreadSignalKeepsInv ==
    ASSUME RulesInv, NEW opt \in Opts, CreditSpreadSignal(opt) PROVE RulesInv'
<1> DEFINE Crowded(sigma) == Crowds(opt, Nearest(Target(opt, sigma).short))
<1>1. PICK sigma \in Sigmas, dte \in EntryDtes : \E crowded \in Crowded(sigma) :
        \E w \in Wings(SpreadStrikes(opt, crowded, sigma), sigma) :
            Entered("spread", {w}, dte, sigma)
  BY DEF CreditSpreadSignal
<1>2. PICK crowded \in Crowded(sigma) :
        \E w \in Wings(SpreadStrikes(opt, crowded, sigma), sigma) :
            Entered("spread", {w}, dte, sigma)
  BY <1>1
<1> HIDE DEF Crowded
<1>3. PICK w \in Wings(SpreadStrikes(opt, crowded, sigma), sigma) :
        Entered("spread", {w}, dte, sigma)
  BY <1>2
<1>4. SpreadStrikes(opt, crowded, sigma) \subseteq ListedPair(opt)
  BY MarketTyped, SpreadStrikesAreListed DEF RulesInv
<1>5. w \in Wing /\ Hedged(w) /\ Calm(w, sigma)
  BY <1>4, MarketTyped, WingsAreSound DEF RulesInv
<1>6. Cardinality({w}) = 1
  BY FS_Singleton
<1> QED BY <1>3, <1>5, <1>6, EnteredKeepsInv

LEMMA CondorSignalKeepsInv == ASSUME RulesInv, IronCondorSignal PROVE RulesInv'
<1> DEFINE Crowded(opt, sigma) == Crowds(opt, Target(opt, sigma).short)
           Entry(crowdedPut, crowdedCall, dte, sigma) ==
             \E put \in Wings(CondorStrikes("PE", crowdedPut, sigma), sigma),
                call \in Wings(CondorStrikes("CE", crowdedCall, sigma), sigma) :
                 Entered("condor", {put, call}, dte, sigma)
<1>1. PICK sigma \in Sigmas, dte \in EntryDtes :
        \E crowdedPut \in Crowded("PE", sigma), crowdedCall \in Crowded("CE", sigma) :
            Entry(crowdedPut, crowdedCall, dte, sigma)
  BY DEF IronCondorSignal
<1>2. PICK crowdedPut \in Crowded("PE", sigma), crowdedCall \in Crowded("CE", sigma) :
        Entry(crowdedPut, crowdedCall, dte, sigma)
  BY <1>1
<1> HIDE DEF Crowded
<1>3. PICK put \in Wings(CondorStrikes("PE", crowdedPut, sigma), sigma),
           call \in Wings(CondorStrikes("CE", crowdedCall, sigma), sigma) :
        Entered("condor", {put, call}, dte, sigma)
  BY <1>2
<1> HIDE DEF Entry
<1>4. /\ put \in Wing /\ put.opt = "PE" /\ Hedged(put) /\ Calm(put, sigma)
      /\ call \in Wing /\ call.opt = "CE" /\ Hedged(call) /\ Calm(call, sigma)
  <2>1. /\ CondorStrikes("PE", crowdedPut, sigma) \subseteq ListedPair("PE")
        /\ CondorStrikes("CE", crowdedCall, sigma) \subseteq ListedPair("CE")
    BY MarketTyped, CondorStrikesAreListed DEF RulesInv, Opts
  <2> QED BY <2>1, MarketTyped, WingsAreSound DEF RulesInv, Opts
<1>5. {w.opt : w \in {put, call}} = Opts
  BY <1>4 DEF Opts
<1>6. Cardinality({put, call}) = 2
  <2>1. put # call
    BY <1>4
  <2>2. IsFiniteSet({put}) /\ Cardinality({put}) = 1
    BY FS_Singleton
  <2>3. {put} \cup {call} = {put, call} /\ call \notin {put}
    BY <2>1
  <2>4. Cardinality({put} \cup {call}) = Cardinality({put}) + 1
    BY <2>2, <2>3, FS_AddElement
  <2> QED BY <2>2, <2>3, <2>4
<1> QED BY <1>3, <1>4, <1>5, <1>6, EnteredKeepsInv

LEMMA RulesNextInv == ASSUME RulesInv, [RulesNext]_ruleVars PROVE RulesInv'
<1> USE DEF RulesInv
<1>1. ASSUME NEW opt \in Opts, CreditSpreadSignal(opt) PROVE RulesInv'
  BY <1>1, SpreadSignalKeepsInv
<1>2. CASE IronCondorSignal
  BY <1>2, CondorSignalKeepsInv
<1>3. ASSUME UNCHANGED <<chain, price, vix, near, nights>>, book' = None, enteredAt' = 0,
             {single', lostToday', won', forced', restored'} \subseteq BOOLEAN, losses' \in Nat
      PROVE  RulesInv'
  BY <1>3
  DEF RulesTypeOK, HedgeIsFarther, Hedged, EnteredIsCalm, EnteredIsUnflagged, JustEntered
<1>4. CASE CloseStructure
  <2>1. /\ UNCHANGED <<chain, price, vix, near, single, nights>>
        /\ book' = None /\ forced' = FALSE /\ enteredAt' = 0 /\ restored' = FALSE
    BY <1>4 DEF CloseStructure
  <2>2. \E adverse \in BOOLEAN :
           /\ lostToday' = (lostToday \/ adverse) /\ won' = (won \/ ~adverse)
           /\ losses' = IF adverse /\ losses < 2 THEN losses + 1 ELSE losses
    BY <1>4 DEF CloseStructure
  <2>3. lostToday' \in BOOLEAN /\ won' \in BOOLEAN
    BY <2>2
  <2>4. losses' \in Nat
    BY <2>2 DEF RulesTypeOK
  <2> QED BY <1>3, <2>1, <2>3, <2>4 DEF RulesTypeOK
<1>5. CASE SquareOffLast
  BY <1>3, <1>5 DEF SquareOffLast, RulesTypeOK
<1>6. CASE SingleOpened
  <2>1. ~JustEntered
    BY <1>6 DEF SingleOpened, EnteredIsCalm
  <2> QED BY <1>6, <2>1
      DEF SingleOpened, RulesTypeOK, HedgeIsFarther, Hedged, EnteredIsCalm,
          EnteredIsUnflagged, JustEntered
<1>7. CASE SingleClosed
  <2>1. EnteredIsCalm'
    BY <1>7 DEF SingleClosed, EnteredIsCalm, Calm, Breached, JustEntered
  <2> QED BY <1>7, <2>1
      DEF SingleClosed, RulesTypeOK, HedgeIsFarther, Hedged, EnteredIsUnflagged, JustEntered
<1>8. CASE MarketMoves
  <2>1. price' \in PriceLevels /\ vix' \in VixLevels
    BY <1>8 DEF MarketMoves, RulesTypeOK
  <2> QED BY <1>8, <2>1
      DEF MarketMoves, RulesTypeOK, HedgeIsFarther, Hedged, EnteredIsCalm,
          EnteredIsUnflagged, JustEntered
<1>9. CASE NextWeek
  <2>1. near' \in Dtes /\ nights' \in 0 .. MaxNights
    BY <1>9, RulesConstants DEF NextWeek, RulesTypeOK, Dtes, MinDte
  <2>2. /\ UNCHANGED <<chain, price, vix, single, forced, restored>>
        /\ lostToday' = FALSE /\ won' = FALSE /\ losses' = 0 /\ enteredAt' = 0
    BY <1>9 DEF NextWeek
  <2>3. CASE book = None
    <3>1. book' = None
      BY <1>9, <2>3 DEF NextWeek
    <3> QED BY <2>1, <2>2, <3>1
        DEF RulesTypeOK, HedgeIsFarther, Hedged, EnteredIsCalm, EnteredIsUnflagged, JustEntered
  <2>4. CASE book # None
    <3>1. /\ IsStructure(book) /\ book \in Structure /\ book.dte > 7
          /\ book' = [book EXCEPT !.dte = @ - 7, !.old = TRUE]
      BY <1>9, <2>4 DEF NextWeek, RulesTypeOK, IsStructure
    <3>2. book.dte - 7 \in Dtes
      BY <3>1 DEF Structure, Dtes
    <3>3. book' \in Structure /\ book'.wings = book.wings /\ book'.kind = book.kind
      BY <3>1, <3>2 DEF Structure
    <3>4. IsStructure(book')
      BY <3>1, <3>3 DEF IsStructure
    <3>5. RulesTypeOK'
      BY <2>1, <2>2, <3>4 DEF RulesTypeOK, IsStructure, Structure
    <3>6. HedgeIsFarther'
      BY <2>2, <2>4, <3>3 DEF HedgeIsFarther, Hedged
    <3> QED BY <2>2, <3>5, <3>6 DEF EnteredIsCalm, EnteredIsUnflagged, JustEntered
  <2> QED BY <2>3, <2>4
<1>10. CASE RulesRestart
  <2>1. EnteredIsCalm'
    BY <1>10 DEF RulesRestart, EnteredIsCalm, Calm, Breached, JustEntered
  <2>2. JustEntered => ~(book.dte < MinDte)
    BY DEF EnteredIsCalm, RulesTypeOK, IsStructure, Structure, Dtes, MinDte, ReentryMinDte
  <2>3. forced' = (book # None /\ book.dte < MinDte) /\ restored' = (book # None)
    BY <1>10 DEF RulesRestart
  <2>4. EnteredIsUnflagged'
    BY <1>10, <2>2, <2>3 DEF RulesRestart, EnteredIsUnflagged, JustEntered
  <2>5. forced' \in BOOLEAN /\ restored' \in BOOLEAN
    BY <2>3
  <2>6. RulesTypeOK' /\ HedgeIsFarther'
    BY <1>10, <2>5 DEF RulesRestart, RulesTypeOK, HedgeIsFarther, Hedged
  <2> QED BY <2>1, <2>4, <2>6
<1>11. CASE UNCHANGED ruleVars
  <2>1. EnteredIsCalm'
    BY <1>11 DEF ruleVars, EnteredIsCalm, Calm, Breached, JustEntered
  <2> QED BY <1>11, <2>1
      DEF ruleVars, RulesTypeOK, HedgeIsFarther, Hedged, EnteredIsUnflagged, JustEntered
<1> QED BY <1>1, <1>2, <1>4, <1>5, <1>6, <1>7, <1>8, <1>9, <1>10, <1>11 DEF RulesNext

\* What the gates of credit spreads and iron condors let in is hedged on the right side,
\* whatever strikes are listed, how the crowd stands and what the legs are quoted at, and
\* collapses only beside a strike that is not listed; and in the market it was entered in
\* no rule would close it but for what a short leg is read at
\* (live_trading_engine.py: the strikes of _process_credit_spread() and
\* _process_iron_condor() against _check_spread_exits() and _check_condor_exits()).
THEOREM EntriesAreSound == RulesSpec => [](RulesTypeOK /\ EntryIsSound)
<1>1. RulesInit => RulesInv
  BY RulesInitInv
<1>2. RulesInv /\ [RulesNext]_ruleVars => RulesInv'
  BY RulesNextInv
<1>3. RulesInv => RulesTypeOK /\ EntryIsSound
  BY RulesInvImplies
<1> QED BY <1>1, <1>2, <1>3, PTL DEF RulesSpec

-----------------------------------------------------------------------------
(***************************************************************************)
(* What is proved of TickRecord, for days, bars and volumes of any size.   *)
(* Each of the four records there are, the one in Redis and the copies     *)
(* that the writers hold, is sound by itself (SoundAt), so that it does    *)
(* not matter which of them is written over which; and from the first bar  *)
(* that is closed on no writer holds a copy from before the day.           *)
(***************************************************************************)

RecordsAt(today, newest) ==
    [day : 0 .. today, closed : 0 .. newest, total : 0 .. MaxVolume,
     key : 0 .. newest, volume : 0 .. MaxVolume, cum : Absent .. MaxVolume,
     base : 0 .. MaxVolume, ws : BOOLEAN, stamp : Ages, rvol : BOOLEAN]

\* A record that is true of a day, a newest bar, a volume and an age of the indicators.
SoundAt(r, today, newest, volume, age) ==
    /\ r \in RecordsAt(today, newest)
    /\ r.closed <= r.key /\ AddsUp(r)
    /\ r.day # 0 => r.base <= r.cum
    /\ r.day = today => r.cum <= volume
    /\ r.stamp # Absent => age \in 0 .. r.stamp
    /\ Usable(r) /\ r.rvol => r.day = today /\ r.closed >= RvolBars

Sound(r) == SoundAt(r, Today, Bar, traded, polled)

\* A bar of this day is closed, or the one that forms is not the first.
Begun(r) == r.day = Today /\ (r.closed > 0 \/ r.key # Bar)

Writers == {tick, poll, rest}

ClockTyped ==
    /\ now \in 0 .. LastMinute /\ traded \in 0 .. MaxVolume
    /\ polled \in Ages /\ faults \in 0 .. MaxFailedReads

WritersTyped ==
    /\ tick.phase \in {"idle", "read"} /\ rest.phase \in {"idle", "read"}
    /\ poll.phase \in {"idle", "read", "blind"}
    /\ \A w \in Writers : w.phase # "read" => w.rec = Empty
    /\ \A w \in Writers : w = [phase |-> w.phase, rec |-> w.rec]
    /\ poll.phase = "read" => poll.rec.day = Today

\* The market closes two minutes before the day ends: what the poll wrote is too old then
\* for an entry.
CloseIsQuiet ==
    ~IsOpen => /\ \A w \in Writers : w.phase = "idle"
               /\ rec.stamp # 0
               /\ now % DayLength = DayLength - 1 => rec.stamp # 1

RecordsAreSound == Sound(rec) /\ \A w \in Writers : Sound(w.rec)

\* Once the day has begun in one of the records, it has in all that may still be written.
DayIsSeen ==
    faults = 0 /\ (Begun(rec) \/ \E w \in Writers : Begun(w.rec)) =>
        /\ rec.day = Today
        /\ \A w \in Writers : w.phase # "idle" => w.phase = "read" /\ w.rec.day = Today

RecordInv == ClockTyped /\ WritersTyped /\ CloseIsQuiet /\ RecordsAreSound /\ DayIsSeen

\* The minute after: the count of the days, or of the bars, goes up when it begins.
LEMMA NextMinute ==
    ASSUME NEW n \in Nat, NEW d \in Nat, d > 0
    PROVE  /\ n \div d \in Nat /\ n % d \in 0 .. d - 1
           /\ (n + 1) % d = 0 => (n + 1) \div d = (n \div d) + 1 /\ n % d = d - 1
           /\ (n + 1) % d # 0 => (n + 1) \div d = n \div d /\ (n + 1) % d = (n % d) + 1
<1> DEFINE q == n \div d
           r == n % d
           p == (n + 1) \div d
           s == (n + 1) % d
<1>1. q \in Int /\ r \in 0 .. d - 1 /\ n = d * q + r
  OBVIOUS
<1>2. p \in Int /\ s \in 0 .. d - 1 /\ n + 1 = d * p + s
  OBVIOUS
<1> HIDE DEF q, r, p, s
<1>3. d * p + s = d * q + (r + 1)
  BY <1>1, <1>2
<1>4. p = q \/ p = q + 1
  <2>1. d * (p - q) = r + 1 - s
    BY <1>1, <1>2, <1>3
  <2>2. r + 1 - s \in Int /\ r + 1 - s <= d /\ r + 1 - s > -d
    BY <1>1, <1>2
  <2>3. p - q >= 2 => d * (p - q) >= 2 * d
    BY <1>1, <1>2
  <2>4. p - q <= -1 => d * (p - q) <= -d
    BY <1>1, <1>2
  <2> QED BY <1>1, <1>2, <2>1, <2>2, <2>3, <2>4
<1>5. p = q => s = r + 1
  BY <1>1, <1>2, <1>3
<1>6. p = q + 1 => s = 0 /\ r = d - 1
  <2>1. p = q + 1 => d * p = d * q + d
    BY <1>1, <1>2
  <2> QED BY <1>1, <1>2, <1>3, <2>1
<1>7. q >= 0
  <2>1. q <= -1 => d * q <= -d
    BY <1>1
  <2> QED BY <1>1, <2>1
<1> QED BY <1>1, <1>2, <1>4, <1>5, <1>6, <1>7 DEF q, r, p, s

LEMMA ClockIsTyped ==
    ASSUME now \in 0 .. LastMinute
    PROVE  now \in Nat /\ Today \in Nat /\ Today >= 1 /\ Bar \in Nat /\ now % DayLength \in Nat
<1>1. now \in Nat /\ DayLength \in Nat /\ DayLength > 0 /\ BarLength \in Nat /\ BarLength > 0
  BY TickConstants
<1>2. now \div DayLength \in Nat /\ now \div BarLength \in Nat
      /\ now % DayLength \in 0 .. DayLength - 1
  BY <1>1, NextMinute
<1> QED BY <1>1, <1>2 DEF Today, Bar

\* A copy does not know how lately the ticker has written.
Copied(r) == [r EXCEPT !.ws = FALSE]

LEMMA CopyIsSound ==
    ASSUME NEW today \in Nat, NEW newest \in Nat, NEW volume, NEW age, NEW r,
           SoundAt(r, today, newest, volume, age)
    PROVE  /\ SoundAt(Copied(r), today, newest, volume, age)
           /\ Copied(r).day = r.day /\ Copied(r).closed = r.closed
           /\ Copied(r).key = r.key /\ Copied(r).stamp = r.stamp
<1> DEFINE c == Copied(r)
<1>1. r \in RecordsAt(today, newest)
  BY DEF SoundAt
<1>2. /\ c \in RecordsAt(today, newest)
      /\ c.day = r.day /\ c.closed = r.closed /\ c.total = r.total /\ c.key = r.key
      /\ c.volume = r.volume /\ c.cum = r.cum /\ c.base = r.base /\ c.stamp = r.stamp
      /\ c.rvol = r.rvol
  BY <1>1 DEF RecordsAt, Copied
<1> HIDE DEF c
<1>3. SoundAt(c, today, newest, volume, age)
  BY <1>2 DEF SoundAt, AddsUp, Usable
<1> QED BY <1>2, <1>3 DEF c

\* What the ticker writes says that it has.
Marked(r) == [r EXCEPT !.ws = TRUE]

LEMMA MarkedIsSound ==
    ASSUME NEW today \in Nat, NEW newest \in Nat, NEW volume, NEW age, NEW r,
           SoundAt(r, today, newest, volume, age)
    PROVE  /\ SoundAt(Marked(r), today, newest, volume, age)
           /\ Marked(r).day = r.day /\ Marked(r).closed = r.closed
           /\ Marked(r).key = r.key /\ Marked(r).stamp = r.stamp
<1> DEFINE c == Marked(r)
<1>1. r \in RecordsAt(today, newest)
  BY DEF SoundAt
<1>2. /\ c \in RecordsAt(today, newest)
      /\ c.day = r.day /\ c.closed = r.closed /\ c.total = r.total /\ c.key = r.key
      /\ c.volume = r.volume /\ c.cum = r.cum /\ c.base = r.base /\ c.stamp = r.stamp
      /\ c.rvol = r.rvol
  BY <1>1 DEF RecordsAt, Marked
<1> HIDE DEF c
<1>3. SoundAt(c, today, newest, volume, age)
  BY <1>2 DEF SoundAt, AddsUp, Usable
<1> QED BY <1>2, <1>3 DEF c

\* More may be traded, and the indicators computed again.
LEMMA SoundStays ==
    ASSUME NEW today \in Nat, NEW newest \in Nat, NEW volume \in Nat, NEW age \in Ages, NEW r,
           SoundAt(r, today, newest, volume, age),
           NEW v \in Nat, v >= volume, NEW a \in {age, 0}
    PROVE  SoundAt(r, today, newest, v, a)
<1>1. r \in RecordsAt(today, newest) /\ r.cum \in Int /\ r.stamp \in Ages
  BY DEF SoundAt, RecordsAt, Absent
<1>2. r.day = today => r.cum <= v
  BY <1>1 DEF SoundAt
<1>3. r.stamp # Absent => a \in 0 .. r.stamp
  BY <1>1 DEF SoundAt, Ages, Absent, Old
<1> QED BY <1>1, <1>2, <1>3 DEF SoundAt

\* Nothing is known: that is sound on every day.
LEMMA EmptyIsSound ==
    ASSUME NEW today \in Nat, today >= 1, NEW newest \in Nat, NEW volume, NEW age
    PROVE  SoundAt(Empty, today, newest, volume, age) /\ Empty.day = 0
<1>1. MaxVolume \in Nat
  BY TickConstants
<1>2. Empty \in RecordsAt(today, newest)
  BY <1>1 DEF Empty, RecordsAt, Absent, Ages, Old
<1> QED BY <1>2 DEF SoundAt, AddsUp, Usable, Empty, Absent

\* A minute makes it older.
Later(r) == [r EXCEPT !.ws = FALSE, !.stamp = Aged(@)]

\* A minute later, without the clock's variables.
LEMMA AgedIsSound ==
    ASSUME NEW today \in Nat, NEW newest \in Nat, NEW volume \in Nat, NEW age \in Ages, NEW r,
           SoundAt(r, today, newest, volume, age),
           NEW today2 \in {today, today + 1}, NEW newest2 \in {newest, newest + 1}, NEW volume2,
           today2 = today => volume2 = volume,
           today2 # today => r.stamp \notin {0, 1}
    PROVE  SoundAt(Later(r), today2, newest2, volume2, Aged(age))
<1> DEFINE c == Later(r)
<1>1. r \in RecordsAt(today, newest)
  BY DEF SoundAt
<1>2. r.stamp \in Ages /\ Aged(r.stamp) \in Ages
  BY <1>1 DEF RecordsAt, Ages, Aged, Absent, Old
<1>3. /\ c \in RecordsAt(today, newest) /\ c.stamp = Aged(r.stamp)
      /\ c.day = r.day /\ c.closed = r.closed /\ c.total = r.total /\ c.key = r.key
      /\ c.volume = r.volume /\ c.cum = r.cum /\ c.base = r.base /\ c.rvol = r.rvol
  BY <1>1, <1>2 DEF RecordsAt, Later
<1>4. r.day \in Nat /\ r.day <= today
  BY <1>1 DEF RecordsAt
<1> HIDE DEF c
<1>5. c \in RecordsAt(today2, newest2)
  BY <1>3 DEF RecordsAt
<1>6. c.day = today2 => c.cum <= volume2
  BY <1>3, <1>4 DEF SoundAt
<1>7. c.stamp # Absent => Aged(age) \in 0 .. c.stamp
  BY <1>2, <1>3 DEF SoundAt, Aged, Ages, Absent, Old
<1>8. Usable(c) /\ c.rvol => c.day = today2 /\ c.closed >= RvolBars
  <2>1. Usable(c) => r.stamp = 0
    BY <1>2, <1>3 DEF Usable, Aged, Ages, Absent, Old
  <2> QED BY <1>3, <2>1 DEF SoundAt, Usable
<1>9. c.closed <= c.key /\ AddsUp(c) /\ (c.day # 0 => c.base <= c.cum)
  BY <1>3 DEF SoundAt, AddsUp
<1> QED BY <1>5, <1>6, <1>7, <1>8, <1>9 DEF SoundAt, c

\* A record of any ranges.
RecordOf(D, B, V, U) ==
    [day : D, closed : B, total : V, key : B, volume : V, cum : U, base : V,
     ws : BOOLEAN, stamp : Ages, rvol : BOOLEAN]

\* What a tick makes of a sound record is sound, of this day, and begun only if it was.
LEMMA TickIsSound ==
    ASSUME ClockTyped, NEW r, Sound(r)
    PROVE  LET c == IntradayBar(r, traded) IN
           Sound(c) /\ c.day = Today /\ (Begun(c) => Begun(r))
<1> DEFINE c == IntradayBar(r, traded)
<1>1. /\ Today \in Nat /\ Today >= 1 /\ Bar \in Nat /\ traded \in Nat /\ MaxVolume \in Nat
      /\ traded <= MaxVolume /\ polled \in Ages /\ RvolBars \in Nat
  BY ClockIsTyped, TickConstants DEF ClockTyped
<1>2. /\ r \in RecordsAt(Today, Bar) /\ r.closed <= r.key /\ AddsUp(r)
      /\ r.day # 0 => r.base <= r.cum
      /\ r.day = Today => r.cum <= traded
      /\ r.stamp # Absent => polled \in 0 .. r.stamp
      /\ Usable(r) /\ r.rvol => r.day = Today /\ r.closed >= RvolBars
  BY DEF Sound, SoundAt
<1>3. /\ r.day \in 0 .. Today /\ r.closed \in 0 .. Bar /\ r.total \in 0 .. MaxVolume
      /\ r.key \in 0 .. Bar /\ r.volume \in 0 .. MaxVolume /\ r.cum \in -1 .. MaxVolume
      /\ r.base \in 0 .. MaxVolume /\ r.ws \in BOOLEAN /\ r.stamp \in Ages
      /\ r.rvol \in BOOLEAN
  BY <1>2 DEF RecordsAt, Absent
<1> DEFINE D == 0 .. Today
           B == 0 .. Bar
           V == 0 .. MaxVolume
           U == Absent .. MaxVolume
<1>0. /\ RecordsAt(Today, Bar) = RecordOf(D, B, V, U)
      /\ 0 \in B /\ 0 \in V /\ Bar \in B /\ traded \in V /\ traded \in U /\ Today \in D
      /\ r.base \in V /\ r.closed \in B /\ r.total \in V
  BY <1>1, <1>3 DEF RecordsAt, RecordOf, Absent
<1>4. CASE r.day # Today
  <2>1. c = DayStarted(r, traded)
    BY <1>4 DEF IntradayBar
  <2>2. /\ c \in RecordsAt(Today, Bar)
        /\ c.day = Today /\ c.closed = 0 /\ c.total = 0 /\ c.key = Bar /\ c.volume = 0
        /\ c.cum = traded /\ c.base = traded /\ c.stamp = r.stamp /\ c.rvol = r.rvol
    <3>1. r \in RecordOf(D, B, V, U)
      BY <1>0, <1>2
    <3>2. c = [r EXCEPT !.day = Today, !.closed = 0, !.total = 0, !.key = Bar, !.volume = 0,
                        !.cum = traded, !.base = traded]
      BY <2>1 DEF DayStarted
    <3> HIDE DEF c, D, B, V, U
    <3> QED BY <1>0, <3>1, <3>2 DEF RecordOf
  <2> HIDE DEF c
  <2>3. SoundAt(c, Today, Bar, traded, polled)
    BY <1>1, <1>2, <1>4, <2>2 DEF SoundAt, AddsUp, Usable
  <2> QED BY <1>1, <2>2, <2>3 DEF Sound, Begun, c
<1>5. r.day = Today => /\ VolumeSince(r, traded) = traded - r.cum
                       /\ r.total + r.volume = r.cum - r.base /\ r.base <= r.cum
  BY <1>1, <1>2, <1>3 DEF VolumeSince, AddsUp, Absent
<1>6. CASE r.day = Today /\ r.key = Bar
  <2>1. c = BarUpdated(r, traded)
    BY <1>6 DEF IntradayBar
  <2> DEFINE more == r.volume + (traded - r.cum)
  <2>2. more \in 0 .. MaxVolume
    BY <1>1, <1>2, <1>3, <1>5, <1>6
  <2>3. c = [r EXCEPT !.volume = more, !.cum = traded]
    BY <1>5, <1>6, <2>1 DEF BarUpdated
  <2>4. more = r.volume + (traded - r.cum)
    OBVIOUS
  <2> HIDE DEF more
  <2>5. /\ c \in RecordsAt(Today, Bar)
        /\ c.day = Today /\ c.closed = r.closed /\ c.total = r.total /\ c.key = r.key
        /\ c.volume = more
        /\ c.cum = traded /\ c.base = r.base /\ c.stamp = r.stamp /\ c.rvol = r.rvol
    <3>1. r \in RecordOf(D, B, V, U) /\ more \in V
      BY <1>0, <1>2, <2>2
    <3> HIDE DEF c, D, B, V, U
    <3> QED BY <1>0, <1>6, <2>3, <3>1 DEF RecordOf
  <2> HIDE DEF c
  <2>6. AddsUp(c) /\ c.base <= c.cum
    BY <1>1, <1>2, <1>3, <1>5, <1>6, <2>4, <2>5 DEF AddsUp
  <2>7. SoundAt(c, Today, Bar, traded, polled)
    BY <1>1, <1>2, <1>6, <2>5, <2>6 DEF SoundAt, Usable
  <2> QED BY <1>6, <2>5, <2>7 DEF Sound, Begun, c
<1>7. CASE r.day = Today /\ r.key # Bar
  <2>1. c = BarClosed(r, traded)
    BY <1>7 DEF IntradayBar
  <2> DEFINE sum == r.total + r.volume
             more == traded - r.cum
             one == r.closed + 1
  <2>2. more \in 0 .. MaxVolume /\ sum \in 0 .. MaxVolume /\ one \in 0 .. Bar
    BY <1>1, <1>2, <1>3, <1>5, <1>7
  <2>3. c = [r EXCEPT !.closed = one, !.total = sum, !.key = Bar, !.volume = more,
                      !.cum = traded]
    BY <1>5, <1>7, <2>1 DEF BarClosed
  <2>4. sum + more = traded - r.base /\ one >= r.closed /\ r.base <= traded
    BY <1>1, <1>2, <1>3, <1>5, <1>7
  <2> HIDE DEF sum, more, one
  <2>5. /\ c \in RecordsAt(Today, Bar)
        /\ c.day = Today /\ c.closed = one /\ c.total = sum /\ c.key = Bar
        /\ c.volume = more
        /\ c.cum = traded /\ c.base = r.base /\ c.stamp = r.stamp /\ c.rvol = r.rvol
    <3>1. r \in RecordOf(D, B, V, U) /\ more \in V /\ sum \in V /\ one \in B
      BY <1>0, <1>2, <2>2
    <3> HIDE DEF c, D, B, V, U
    <3> QED BY <1>0, <1>7, <2>3, <3>1 DEF RecordOf
  <2> HIDE DEF c
  <2>6. c.closed <= c.key /\ AddsUp(c) /\ c.base <= c.cum
    BY <1>1, <2>2, <2>4, <2>5 DEF AddsUp
  <2>7. Usable(c) /\ c.rvol => c.closed >= RvolBars
    BY <1>1, <1>2, <1>3, <2>2, <2>4, <2>5 DEF Usable
  <2>8. SoundAt(c, Today, Bar, traded, polled)
    BY <1>1, <1>2, <2>5, <2>6, <2>7 DEF SoundAt
  <2> QED BY <1>7, <2>5, <2>8 DEF Sound, Begun, c
<1> QED BY <1>4, <1>6, <1>7

LEMMA RecordInitInv == RecordInit => RecordInv
<1> SUFFICES ASSUME RecordInit PROVE RecordInv
  OBVIOUS
<1>1. /\ now = 0 /\ traded = 0 /\ rec = Empty /\ tick = Idle /\ poll = Idle /\ rest = Idle
      /\ polled = Absent /\ faults = 0
  BY DEF RecordInit
<1>2. ClockTyped
  BY <1>1, TickConstants DEF ClockTyped, Ages, Absent, Old
<1>3. WritersTyped
  BY <1>1 DEF WritersTyped, Writers, Idle
<1>4. CloseIsQuiet
  BY <1>1 DEF CloseIsQuiet, Writers, Idle, Empty, Absent
<1>5. Sound(Empty) /\ ~Begun(Empty)
  BY <1>2, ClockIsTyped, EmptyIsSound DEF Sound, Begun, ClockTyped
<1>6. RecordsAreSound
  BY <1>1, <1>5 DEF RecordsAreSound, Writers, Idle
<1>7. DayIsSeen
  BY <1>1, <1>5 DEF DayIsSeen, Writers, Idle
<1> QED BY <1>2, <1>3, <1>4, <1>6, <1>7 DEF RecordInv

\* All records stay sound while more is traded and the indicators are computed again.
LEMMA StillSound ==
    ASSUME RecordInv, traded' \in traded .. MaxVolume, polled' \in {polled, 0}
    PROVE  /\ SoundAt(rec, Today, Bar, traded', polled')
           /\ SoundAt(tick.rec, Today, Bar, traded', polled')
           /\ SoundAt(poll.rec, Today, Bar, traded', polled')
           /\ SoundAt(rest.rec, Today, Bar, traded', polled')
           /\ SoundAt(Empty, Today, Bar, traded', polled')
<1>1. /\ Today \in Nat /\ Today >= 1 /\ Bar \in Nat /\ traded \in Nat /\ polled \in Ages
      /\ traded' \in Nat /\ traded' >= traded
  BY ClockIsTyped, TickConstants DEF RecordInv, ClockTyped
<1>2. Sound(rec) /\ Sound(tick.rec) /\ Sound(poll.rec) /\ Sound(rest.rec)
  BY DEF RecordInv, RecordsAreSound, Writers
<1> QED BY <1>1, <1>2, SoundStays, EmptyIsSound DEF Sound

\* A step of a writer, within a minute.
LEMMA SameMinute ==
    ASSUME RecordInv, UNCHANGED now, IsOpen, traded' \in traded .. MaxVolume,
           polled' \in {polled, 0}, faults' \in 0 .. MaxFailedReads, WritersTyped', DayIsSeen',
           SoundAt(rec', Today, Bar, traded', polled'),
           SoundAt(tick'.rec, Today, Bar, traded', polled'),
           SoundAt(poll'.rec, Today, Bar, traded', polled'),
           SoundAt(rest'.rec, Today, Bar, traded', polled')
    PROVE  RecordInv'
<1>1. Today' = Today /\ Bar' = Bar /\ IsOpen'
  BY DEF Today, Bar, IsOpen
<1>2. ClockTyped'
  BY TickConstants DEF RecordInv, ClockTyped, Ages, Absent, Old
<1>3. CloseIsQuiet'
  BY <1>1 DEF CloseIsQuiet
<1>4. RecordsAreSound'
  BY <1>1 DEF RecordsAreSound, Sound, Writers
<1> QED BY <1>2, <1>3, <1>4 DEF RecordInv

\* A writer is at work in the hours of the market only.
LEMMA WritersAreOpen ==
    ASSUME RecordInv, \E w \in Writers : w.phase # "idle" PROVE IsOpen
BY DEF RecordInv, CloseIsQuiet

LEMMA CopyOfRec ==
    ASSUME RecordInv, traded' \in traded .. MaxVolume, polled' = polled, NEW phase
    PROVE  LET c == Reading(phase).rec IN
           /\ SoundAt(c, Today, Bar, traded', polled')
           /\ c.day = rec.day /\ (Begun(c) <=> Begun(rec))
           /\ Reading(phase) = [phase |-> phase, rec |-> c]
<1> DEFINE c == Copied(rec)
<1>1. Today \in Nat /\ Bar \in Nat /\ SoundAt(rec, Today, Bar, traded', polled')
  BY ClockIsTyped, StillSound DEF RecordInv, ClockTyped
<1>2. /\ SoundAt(c, Today, Bar, traded', polled')
      /\ c.day = rec.day /\ c.closed = rec.closed /\ c.key = rec.key
  BY <1>1, CopyIsSound
<1>3. Reading(phase) = [phase |-> phase, rec |-> c]
  BY DEF Reading, Copied
<1>4. Reading(phase).rec = c
  BY <1>3
<1> HIDE DEF c
<1> QED BY <1>2, <1>3, <1>4 DEF Begun

LEMMA TickReadsKeeps == ASSUME RecordInv, TickReads PROVE RecordInv'
<1> DEFINE c == Reading("read").rec
<1>1. /\ IsOpen /\ tick' = Reading("read") /\ traded' \in traded .. MaxVolume
      /\ UNCHANGED <<now, rec, poll, rest, polled, faults>> /\ faults' \in 0 .. MaxFailedReads
  BY TickConstants DEF TickReads, RecordInv, ClockTyped
<1>2. /\ SoundAt(c, Today, Bar, traded', polled') /\ c.day = rec.day
      /\ Begun(c) <=> Begun(rec)
      /\ tick' = [phase |-> "read", rec |-> c]
  BY <1>1, CopyOfRec
<1> HIDE DEF c
<1>3. Today' = Today /\ Bar' = Bar
  BY <1>1 DEF Today, Bar
<1>4. WritersTyped'
  BY <1>1, <1>2, <1>3 DEF RecordInv, WritersTyped, Writers
<1>5. Begun(rec)' = Begun(rec) /\ Begun(tick.rec)' = Begun(c)
      /\ Begun(poll.rec)' = Begun(poll.rec) /\ Begun(rest.rec)' = Begun(rest.rec)
  BY <1>1, <1>2, <1>3 DEF Begun
<1>6. DayIsSeen'
  BY <1>1, <1>2, <1>3, <1>5 DEF RecordInv, DayIsSeen, Writers
<1> QED BY <1>1, <1>2, <1>4, <1>6, StillSound, SameMinute

LEMMA RestReadsKeeps == ASSUME RecordInv, RestReads PROVE RecordInv'
<1> DEFINE c == Reading("read").rec
<1>1. /\ IsOpen /\ rest' = Reading("read") /\ traded' \in traded .. MaxVolume
      /\ UNCHANGED <<now, traded, rec, tick, poll, polled, faults>>
      /\ faults' \in 0 .. MaxFailedReads
  BY TickConstants DEF RestReads, RecordInv, ClockTyped
<1>2. /\ SoundAt(c, Today, Bar, traded', polled') /\ c.day = rec.day
      /\ Begun(c) <=> Begun(rec)
      /\ rest' = [phase |-> "read", rec |-> c]
  BY <1>1, CopyOfRec
<1> HIDE DEF c
<1>3. Today' = Today /\ Bar' = Bar
  BY <1>1 DEF Today, Bar
<1>4. WritersTyped'
  BY <1>1, <1>2, <1>3 DEF RecordInv, WritersTyped, Writers
<1>5. Begun(rec)' = Begun(rec) /\ Begun(rest.rec)' = Begun(c)
      /\ Begun(poll.rec)' = Begun(poll.rec) /\ Begun(tick.rec)' = Begun(tick.rec)
  BY <1>1, <1>2, <1>3 DEF Begun
<1>6. DayIsSeen'
  BY <1>1, <1>2, <1>3, <1>5 DEF RecordInv, DayIsSeen, Writers
<1> QED BY <1>1, <1>2, <1>4, <1>6, StillSound, SameMinute

LEMMA PollReadsKeeps == ASSUME RecordInv, PollReads PROVE RecordInv'
<1> DEFINE c == Reading("read").rec
<1>1. /\ IsOpen /\ traded' \in traded .. MaxVolume
      /\ UNCHANGED <<now, traded, rec, tick, rest, polled>> /\ polled' \in {polled, 0}
      /\ \/ poll' = Reading("read") /\ IsLive(rec) /\ UNCHANGED faults
         \/ poll' = Blind /\ ~IsLive(rec) /\ UNCHANGED faults
         \/ poll' = Blind /\ faults < MaxFailedReads /\ faults' = faults + 1
  BY TickConstants DEF PollReads, RecordInv, ClockTyped
<1>2. faults \in Nat /\ faults' \in 0 .. MaxFailedReads /\ (faults' = 0 => UNCHANGED faults)
  BY <1>1, TickConstants DEF RecordInv, ClockTyped
<1>3. Today' = Today /\ Bar' = Bar
  BY <1>1 DEF Today, Bar
<1>4. Begun(rec)' = Begun(rec) /\ Begun(rest.rec)' = Begun(rest.rec)
      /\ Begun(tick.rec)' = Begun(tick.rec)
  BY <1>1, <1>3 DEF Begun
<1>5. CASE poll' = Reading("read") /\ IsLive(rec)
  <2>1. /\ SoundAt(c, Today, Bar, traded', polled') /\ c.day = rec.day
        /\ Begun(c) <=> Begun(rec)
        /\ poll' = [phase |-> "read", rec |-> c]
    BY <1>1, <1>5, CopyOfRec
  <2> HIDE DEF c
  <2>2. WritersTyped'
    BY <1>1, <1>3, <1>5, <2>1 DEF RecordInv, WritersTyped, Writers, IsLive
  <2>3. Begun(poll.rec)' = Begun(c)
    BY <1>3, <2>1 DEF Begun
  <2>4. DayIsSeen'
    BY <1>1, <1>2, <1>3, <1>4, <2>1, <2>3 DEF RecordInv, DayIsSeen, Writers
  <2> QED BY <1>1, <1>2, <2>1, <2>2, <2>4, StillSound, SameMinute
<1>6. CASE poll' = Blind
  <2>1. poll' = [phase |-> "blind", rec |-> Empty]
    BY <1>6 DEF Blind, Idle
  <2>2. WritersTyped'
    BY <1>1, <1>3, <2>1 DEF RecordInv, WritersTyped, Writers
  <2>3. ~Begun(poll.rec)'
    <3>1. Today >= 1
      BY ClockIsTyped DEF RecordInv, ClockTyped
    <3> QED BY <1>3, <2>1, <3>1 DEF Begun, Empty
  <2>4. faults' = 0 => ~IsLive(rec)
    <3>1. poll' # Reading("read")
      <4>1. Reading("read").phase = "read"
        BY DEF Reading
      <4> QED BY <2>1, <4>1
    <3> QED BY <1>1, <1>2, <3>1
  <2>5. DayIsSeen'
    BY <1>1, <1>2, <1>3, <1>4, <2>1, <2>3, <2>4 DEF RecordInv, DayIsSeen, Writers, IsLive
  <2> QED BY <1>1, <1>2, <2>1, <2>2, <2>5, StillSound, SameMinute
<1> QED BY <1>1, <1>5, <1>6

\* The poll's own fields, and with them the day of a sound record of this day.
LEMMA EnrichedIsSound ==
    ASSUME NEW today \in Nat, today >= 1, NEW newest \in Nat, NEW volume, NEW live \in BOOLEAN,
           NEW closed \in Int
    PROVE  LET e == Enriched(live, closed) IN
           /\ e \in RecordsAt(today, newest) /\ e.day = 0 /\ e.stamp = 0
           /\ e.rvol <=> live /\ closed >= RvolBars
           /\ ~live => SoundAt(e, today, newest, volume, 0)
<1> DEFINE e == Enriched(live, closed)
           valid == live /\ closed >= RvolBars
           D == 0 .. today
           B == 0 .. newest
           V == 0 .. MaxVolume
           U == Absent .. MaxVolume
<1>1. MaxVolume \in Nat /\ valid \in BOOLEAN /\ 0 \in Ages
  BY TickConstants DEF Ages, Absent, Old
<1>2. /\ Empty \in RecordOf(D, B, V, U)
      /\ Empty.day = 0 /\ Empty.closed = 0 /\ Empty.total = 0 /\ Empty.key = 0
      /\ Empty.volume = 0
  BY <1>1, EmptyIsSound DEF SoundAt, RecordsAt, RecordOf, Empty
<1>3. RecordsAt(today, newest) = RecordOf(D, B, V, U)
  BY DEF RecordsAt, RecordOf
<1>4. e = [Empty EXCEPT !.stamp = 0, !.rvol = valid]
  BY DEF Enriched
<1> HIDE DEF valid, e, D, B, V, U
<1>5. /\ e \in RecordOf(D, B, V, U)
      /\ e.day = Empty.day /\ e.closed = Empty.closed /\ e.total = Empty.total
      /\ e.key = Empty.key /\ e.volume = Empty.volume /\ e.stamp = 0 /\ e.rvol = valid
  BY <1>1, <1>2, <1>4 DEF RecordOf
<1>6. /\ e \in RecordsAt(today, newest) /\ e.day = 0 /\ e.closed = 0 /\ e.total = 0 /\ e.key = 0
      /\ e.volume = 0 /\ e.stamp = 0 /\ e.rvol = valid
  BY <1>2, <1>3, <1>5
<1>7. ~live => SoundAt(e, today, newest, volume, 0)
  BY <1>6 DEF SoundAt, AddsUp, Usable, valid
<1> QED BY <1>6, <1>7 DEF e, valid

LEMMA CarriedIsSound ==
    ASSUME ClockTyped, NEW r, Sound(r), r.day = Today
    PROVE  LET c == Carried(Enriched(TRUE, r.closed), r) IN
           /\ SoundAt(c, Today, Bar, traded, 0)
           /\ c.day = Today /\ c.closed = r.closed /\ c.key = r.key
<1> DEFINE e == Enriched(TRUE, r.closed)
           c == Carried(e, r)
           D == 0 .. Today
           B == 0 .. Bar
           V == 0 .. MaxVolume
           U == Absent .. MaxVolume
<1>1. Today \in Nat /\ Today >= 1 /\ Bar \in Nat /\ RvolBars \in Nat
  BY ClockIsTyped, TickConstants DEF ClockTyped
<1>2. /\ r \in RecordsAt(Today, Bar) /\ r.closed <= r.key /\ AddsUp(r)
      /\ r.base <= r.cum /\ r.cum <= traded
  BY <1>1 DEF Sound, SoundAt
<1>3. /\ r.day \in D /\ r.closed \in B /\ r.total \in V /\ r.key \in B /\ r.volume \in V
      /\ r.cum \in U /\ r.base \in V /\ r.closed \in Int
  BY <1>2 DEF RecordsAt
<1>4. e \in RecordsAt(Today, Bar) /\ e.stamp = 0 /\ (e.rvol <=> r.closed >= RvolBars)
  BY <1>1, <1>3, EnrichedIsSound
<1>5. RecordsAt(Today, Bar) = RecordOf(D, B, V, U)
  BY DEF RecordsAt, RecordOf
<1>6. c = [e EXCEPT !.day = r.day, !.closed = r.closed, !.total = r.total, !.key = r.key,
                    !.volume = r.volume, !.cum = r.cum, !.base = r.base]
  BY DEF Carried
<1>7. e \in RecordOf(D, B, V, U)
  BY <1>4, <1>5
<1> HIDE DEF c, e, D, B, V, U
<1>8. /\ c \in RecordsAt(Today, Bar)
      /\ c.day = r.day /\ c.closed = r.closed /\ c.total = r.total /\ c.key = r.key
      /\ c.volume = r.volume /\ c.cum = r.cum /\ c.base = r.base
      /\ c.stamp = e.stamp /\ c.rvol = e.rvol
  <2>1. /\ c \in RecordOf(D, B, V, U)
        /\ c.day = r.day /\ c.closed = r.closed /\ c.total = r.total /\ c.key = r.key
        /\ c.volume = r.volume /\ c.cum = r.cum /\ c.base = r.base
        /\ c.stamp = e.stamp /\ c.rvol = e.rvol
    BY <1>3, <1>6, <1>7 DEF RecordOf
  <2> QED BY <1>5, <2>1
<1>9. SoundAt(c, Today, Bar, traded, 0)
  BY <1>2, <1>4, <1>8 DEF SoundAt, AddsUp, Usable, Absent
<1> QED BY <1>8, <1>9 DEF c, e

\* A writer that ends leaves what it has written.
LEMMA TickWritesKeeps == ASSUME RecordInv, TickWrites PROVE RecordInv'
<1> DEFINE d == IntradayBar(tick.rec, traded)
           c == Marked(d)
<1>1. /\ tick.phase = "read" /\ rec' = c /\ tick' = [phase |-> "idle", rec |-> Empty]
      /\ UNCHANGED <<now, traded, poll, rest, polled, faults>>
      /\ faults' \in 0 .. MaxFailedReads /\ traded' \in traded .. MaxVolume
  BY TickConstants DEF TickWrites, RecordInv, ClockTyped, Idle, Marked
<1>2. Sound(tick.rec) /\ ClockTyped
  BY DEF RecordInv, RecordsAreSound, Writers
<1>3. Sound(d) /\ d.day = Today /\ (Begun(d) => Begun(tick.rec))
  BY <1>2, TickIsSound
<1> HIDE DEF d
<1>4. /\ Sound(c) /\ c.day = Today /\ (Begun(c) => Begun(tick.rec))
  <2>1. Today \in Nat /\ Bar \in Nat
    BY <1>2, ClockIsTyped DEF ClockTyped
  <2>2. /\ SoundAt(c, Today, Bar, traded, polled)
        /\ c.day = d.day /\ c.closed = d.closed /\ c.key = d.key
    BY <1>3, <2>1, MarkedIsSound DEF Sound
  <2> HIDE DEF c
  <2> QED BY <1>3, <2>2 DEF Sound, Begun
<1> HIDE DEF c
<1>5. Today' = Today /\ Bar' = Bar /\ Today >= 1
  BY <1>1, <1>2, ClockIsTyped DEF Today, Bar, ClockTyped
<1>6. WritersTyped'
  BY <1>1, <1>5 DEF RecordInv, WritersTyped, Writers
<1>7. /\ Begun(rec)' = Begun(c) /\ ~Begun(tick.rec)'
      /\ Begun(poll.rec)' = Begun(poll.rec) /\ Begun(rest.rec)' = Begun(rest.rec)
  BY <1>1, <1>5 DEF Begun, Empty
<1>8. DayIsSeen'
  BY <1>1, <1>4, <1>5, <1>7 DEF RecordInv, DayIsSeen, Writers
<1>9. IsOpen
  BY <1>1, WritersAreOpen DEF Writers
<1> QED BY <1>1, <1>4, <1>6, <1>8, <1>9, StillSound, SameMinute DEF Sound

LEMMA RestWritesKeeps == ASSUME RecordInv, RestWrites PROVE RecordInv'
<1>1. /\ rest.phase = "read" /\ rec' = rest.rec /\ rest' = [phase |-> "idle", rec |-> Empty]
      /\ UNCHANGED <<now, traded, poll, tick, polled, faults>>
      /\ faults' \in 0 .. MaxFailedReads /\ traded' \in traded .. MaxVolume
  BY TickConstants DEF RestWrites, RecordInv, ClockTyped, Idle
<1>2. Today' = Today /\ Bar' = Bar /\ Today >= 1
  BY <1>1, ClockIsTyped DEF Today, Bar, RecordInv, ClockTyped
<1>3. WritersTyped'
  BY <1>1, <1>2 DEF RecordInv, WritersTyped, Writers
<1>4. /\ Begun(rec)' = Begun(rest.rec) /\ ~Begun(rest.rec)'
      /\ Begun(poll.rec)' = Begun(poll.rec) /\ Begun(tick.rec)' = Begun(tick.rec)
  BY <1>1, <1>2 DEF Begun, Empty
<1>5. DayIsSeen'
  BY <1>1, <1>2, <1>4 DEF RecordInv, DayIsSeen, Writers
<1>6. IsOpen
  BY <1>1, WritersAreOpen DEF Writers
<1> QED BY <1>1, <1>3, <1>5, <1>6, StillSound, SameMinute

LEMMA PollWritesKeeps == ASSUME RecordInv, PollWrites PROVE RecordInv'
<1> DEFINE e == Enriched(poll.phase = "read", poll.rec.closed)
<1>1. /\ poll.phase \in {"read", "blind"} /\ poll' = [phase |-> "idle", rec |-> Empty]
      /\ rec' = IF poll.phase = "read" THEN Carried(e, poll.rec) ELSE e
      /\ UNCHANGED <<now, traded, tick, rest, faults>> /\ polled' = 0
      /\ faults' \in 0 .. MaxFailedReads /\ traded' \in traded .. MaxVolume
  BY TickConstants DEF PollWrites, RecordInv, ClockTyped, Idle
<1>2. /\ Today' = Today /\ Bar' = Bar /\ Today >= 1 /\ Today \in Nat /\ Bar \in Nat
      /\ ClockTyped /\ Sound(poll.rec)
  BY <1>1, ClockIsTyped DEF Today, Bar, RecordInv, ClockTyped, RecordsAreSound, Writers
<1>3. WritersTyped'
  BY <1>1, <1>2 DEF RecordInv, WritersTyped, Writers
<1>4. /\ ~Begun(poll.rec)'
      /\ Begun(rest.rec)' = Begun(rest.rec) /\ Begun(tick.rec)' = Begun(tick.rec)
  BY <1>1, <1>2 DEF Begun, Empty
<1>5. IsOpen
  BY <1>1, WritersAreOpen DEF Writers
<1>6. CASE poll.phase = "read"
  <2>1. rec' = Carried(Enriched(TRUE, poll.rec.closed), poll.rec)
    <3>1. (poll.phase = "read") = TRUE
      BY <1>6
    <3> QED BY <1>1, <3>1
  <2>2. poll.rec.day = Today
    BY <1>6 DEF RecordInv, WritersTyped
  <2>3. /\ SoundAt(rec', Today, Bar, traded, 0)
        /\ rec'.day = Today /\ rec'.closed = poll.rec.closed /\ rec'.key = poll.rec.key
    BY <1>2, <2>1, <2>2, CarriedIsSound
  <2>4. Begun(rec)' = Begun(poll.rec)
    BY <1>2, <2>2, <2>3 DEF Begun
  <2>5. DayIsSeen'
    BY <1>1, <1>2, <1>4, <1>6, <2>3, <2>4 DEF RecordInv, DayIsSeen, Writers
  <2> QED BY <1>1, <1>3, <1>5, <2>3, <2>5, StillSound, SameMinute
<1>7. CASE poll.phase = "blind"
  <2>1. rec' = Enriched(FALSE, poll.rec.closed)
    <3>1. (poll.phase = "read") = FALSE
      BY <1>7
    <3> QED BY <1>1, <3>1
  <2>2. poll.rec.closed \in Int
    BY <1>2 DEF Sound, SoundAt, RecordsAt
  <2>3. SoundAt(rec', Today, Bar, traded, 0) /\ rec'.day = 0
    BY <1>2, <2>1, <2>2, EnrichedIsSound
  <2>4. ~Begun(rec)'
    BY <1>2, <2>3 DEF Begun
  <2>5. DayIsSeen'
    BY <1>1, <1>4, <1>7, <2>4 DEF RecordInv, DayIsSeen, Writers
  <2> QED BY <1>1, <1>3, <1>5, <2>3, <2>5, StillSound, SameMinute
<1> QED BY <1>1, <1>6, <1>7


\* The minute after finds every writer idle.
LEMMA MinuteKeeps == ASSUME RecordInv, Minute PROVE RecordInv'
<1>1. /\ now \in 0 .. LastMinute /\ now < LastMinute /\ now' = now + 1
      /\ \A w \in Writers : w = Idle
      /\ rec' = Later(rec) /\ polled' = Aged(polled)
      /\ traded' = (IF now' % DayLength = 0 THEN 0 ELSE traded)
      /\ UNCHANGED <<tick, poll, rest, faults>>
  BY DEF Minute, Later, Writers, RecordInv, ClockTyped
<1>2. now \in Nat /\ now' \in 0 .. LastMinute /\ DayLength \in Nat /\ DayLength > 2
      /\ BarLength \in Nat /\ BarLength > 0 /\ LastMinute \in Nat /\ MaxVolume \in Nat
  BY <1>1, TickConstants
<1>3. /\ now % DayLength \in 0 .. DayLength - 1
      /\ now' % DayLength = 0 => Today' = Today + 1 /\ now % DayLength = DayLength - 1
      /\ now' % DayLength # 0 => Today' = Today /\ now' % DayLength = (now % DayLength) + 1
  <2> DEFINE q == now \div DayLength
             p == now' \div DayLength
  <2>1. /\ q \in Nat /\ now % DayLength \in 0 .. DayLength - 1
        /\ now' % DayLength = 0 => p = q + 1 /\ now % DayLength = DayLength - 1
        /\ now' % DayLength # 0 => p = q /\ now' % DayLength = (now % DayLength) + 1
    BY <1>1, <1>2, NextMinute
  <2>2. Today = q + 1 /\ Today' = p + 1
    BY DEF Today
  <2> HIDE DEF q, p
  <2> QED BY <2>1, <2>2
<1>4. Bar' \in {Bar, Bar + 1}
  BY <1>1, <1>2, NextMinute DEF Bar
<1>5. Today \in Nat /\ Today >= 1 /\ Bar \in Nat /\ Today' \in Nat /\ Today' >= 1 /\ Bar' \in Nat
  <2>1. Today \in Nat /\ Today >= 1 /\ Bar \in Nat
    BY <1>1, ClockIsTyped
  <2> QED BY <1>3, <1>4, <2>1
<1>6. /\ tick = Idle /\ poll = Idle /\ rest = Idle /\ tick' = Idle /\ poll' = Idle /\ rest' = Idle
      /\ Idle.phase = "idle" /\ Idle.rec = Empty /\ Idle = [phase |-> "idle", rec |-> Empty]
  BY <1>1 DEF Writers, Idle
<1>7. rec.stamp \in Ages /\ rec'.stamp = Aged(rec.stamp)
  <2>1. rec \in RecordsAt(Today, Bar)
    BY DEF RecordInv, RecordsAreSound, Sound, SoundAt
  <2> QED BY <1>1, <2>1 DEF RecordsAt, Later
<1>8. ClockTyped'
  BY <1>1, <1>2, TickConstants DEF RecordInv, ClockTyped, Aged, Ages, Absent, Old
<1>9. WritersTyped'
  BY <1>6 DEF WritersTyped, Writers
<1>10. CloseIsQuiet'
  <2>1. rec'.stamp # 0 /\ (rec'.stamp = 1 => rec.stamp = 0)
    BY <1>7 DEF Aged, Ages, Absent, Old
  <2>2. now' % DayLength = DayLength - 1 => now % DayLength = DayLength - 2
    <3> DEFINE a == now % DayLength
               b == now' % DayLength
    <3>1. b # 0 => b = a + 1 /\ a \in Int
      BY <1>3
    <3> HIDE DEF a, b
    <3>2. b = DayLength - 1 => a = DayLength - 2
      BY <1>2, <3>1
    <3> QED BY <3>2 DEF a, b
  <2>3. now % DayLength = DayLength - 2 => rec.stamp # 0
    BY <1>2 DEF RecordInv, CloseIsQuiet, IsOpen
  <2> QED BY <1>6, <2>1, <2>2, <2>3 DEF CloseIsQuiet, Writers
<1>11. Today' # Today => rec.stamp \notin {0, 1}
  <2>1. Today' # Today => now % DayLength = DayLength - 1
    BY <1>3
  <2> QED BY <1>2, <2>1 DEF RecordInv, CloseIsQuiet, IsOpen
<1>12. SoundAt(rec', Today', Bar', traded', polled')
  <2>1. SoundAt(rec, Today, Bar, traded, polled) /\ traded \in Nat /\ polled \in Ages
    BY <1>2 DEF RecordInv, RecordsAreSound, Sound, ClockTyped
  <2>2. Today' \in {Today, Today + 1} /\ (Today' = Today => traded' = traded)
    BY <1>1, <1>3, <1>5
  <2> QED BY <1>1, <1>4, <1>5, <1>11, <2>1, <2>2, AgedIsSound
<1>13. SoundAt(Empty, Today', Bar', traded', polled') /\ ~Begun(Empty)'
  BY <1>5, EmptyIsSound DEF Begun
<1>14. RecordsAreSound'
  BY <1>6, <1>12, <1>13 DEF RecordsAreSound, Sound, Writers
<1>15. DayIsSeen'
  BY <1>6, <1>13 DEF DayIsSeen, Writers, Begun
<1> QED BY <1>8, <1>9, <1>10, <1>14, <1>15 DEF RecordInv

LEMMA TickAgesKeeps == ASSUME RecordInv, TickAges PROVE RecordInv'
<1> DEFINE c == Copied(rec)
<1>1. /\ rec' = c /\ UNCHANGED <<now, traded, tick, poll, rest, polled, faults>>
      /\ Today' = Today /\ Bar' = Bar
  BY DEF TickAges, Copied, Today, Bar
<1>2. Today \in Nat /\ Bar \in Nat /\ Sound(rec)
  BY ClockIsTyped DEF RecordInv, ClockTyped, RecordsAreSound
<1>3. /\ SoundAt(c, Today, Bar, traded, polled)
      /\ c.day = rec.day /\ c.closed = rec.closed /\ c.key = rec.key /\ c.stamp = rec.stamp
  BY <1>2, CopyIsSound DEF Sound
<1> HIDE DEF c
<1>4. ClockTyped' /\ WritersTyped'
  BY <1>1 DEF RecordInv, ClockTyped, WritersTyped, Writers
<1>5. CloseIsQuiet'
  BY <1>1, <1>3 DEF RecordInv, CloseIsQuiet, IsOpen, Writers
<1>6. RecordsAreSound'
  BY <1>1, <1>3 DEF RecordInv, RecordsAreSound, Sound, Writers
<1>7. DayIsSeen'
  BY <1>1, <1>3 DEF RecordInv, DayIsSeen, Begun, Writers
<1> QED BY <1>4, <1>5, <1>6, <1>7 DEF RecordInv

LEMMA RecordNextInv == RecordInv /\ [RecordNext]_tickVars => RecordInv'
<1> SUFFICES ASSUME RecordInv, [RecordNext]_tickVars PROVE RecordInv'
  OBVIOUS
<1>1. CASE UNCHANGED tickVars
  BY <1>1 DEF RecordInv, ClockTyped, WritersTyped, Writers, CloseIsQuiet, RecordsAreSound,
              DayIsSeen, Sound, Begun, Today, Bar, IsOpen, tickVars
<1> QED BY <1>1, TickReadsKeeps, TickWritesKeeps, RestReadsKeeps, RestWritesKeeps,
           PollReadsKeeps, PollWritesKeeps, MinuteKeeps, TickAgesKeeps DEF RecordNext

LEMMA RecordInvIsTrue ==
    ASSUME RecordInv
    PROVE  RecordTypeOK /\ VolumeAddsUp /\ IndicatorsAreFresh /\ RvolIsBacked
<1>1. Sound(rec) /\ Sound(tick.rec) /\ Sound(poll.rec) /\ Sound(rest.rec)
  BY DEF RecordInv, RecordsAreSound, Writers
<1>2. RecordTypeOK
  BY <1>1 DEF RecordInv, ClockTyped, WritersTyped, Sound, SoundAt, RecordsAt, Records, RecordTypeOK
<1>3. VolumeAddsUp
  BY <1>1 DEF VolumeAddsUp, Sound, SoundAt
<1>4. IndicatorsAreFresh
  BY <1>1 DEF IndicatorsAreFresh, Usable, Sound, SoundAt, Absent
<1>5. RvolIsBacked
  BY <1>1 DEF RvolIsBacked, Sound, SoundAt
<1> QED BY <1>2, <1>3, <1>4, <1>5

\* From the first closed bar on, each writer has a copy of the day, and writes it back.
LEMMA DayStays ==
    ASSUME RecordInv, [RecordNext]_tickVars, rec.day = Today, rec.closed > 0, now' = now,
           faults = 0
    PROVE  rec'.day = Today
<1>1. \A w \in Writers : w.phase # "idle" => w.phase = "read" /\ w.rec.day = Today
  BY DEF RecordInv, DayIsSeen, Begun
<1>2. Today \in Nat /\ Bar \in Nat /\ ClockTyped /\ Sound(rec) /\ \A w \in Writers : Sound(w.rec)
  BY ClockIsTyped DEF RecordInv, ClockTyped, RecordsAreSound
<1>3. CASE TickWrites
  <2> DEFINE d == IntradayBar(tick.rec, traded)
  <2>1. Sound(d) /\ d.day = Today
    BY <1>2, TickIsSound DEF Writers
  <2>2. rec' = Marked(d)
    BY <1>3 DEF TickWrites, Marked
  <2> HIDE DEF d
  <2>3. SoundAt(d, Today, Bar, traded, polled)
    BY <2>1 DEF Sound
  <2>4. Marked(d).day = d.day
    BY <1>2, <2>3, MarkedIsSound
  <2> QED BY <2>1, <2>2, <2>4
<1>4. CASE RestWrites
  BY <1>1, <1>4 DEF RestWrites, Writers
<1>5. CASE PollWrites
  <2>1. poll.phase = "read" /\ poll.rec.day = Today /\ Sound(poll.rec)
    BY <1>1, <1>2, <1>5 DEF PollWrites, Writers
  <2>2. (poll.phase = "read") = TRUE
    BY <2>1
  <2>3. rec' = Carried(Enriched(TRUE, poll.rec.closed), poll.rec)
    BY <1>5, <2>2 DEF PollWrites
  <2> QED BY <1>2, <2>1, <2>3, CarriedIsSound
<1>6. CASE TickAges
  <2>1. rec' = Copied(rec)
    BY <1>6 DEF TickAges, Copied
  <2> QED BY <1>2, <2>1, CopyIsSound DEF Sound
<1>7. CASE Minute
  BY <1>7, TickConstants DEF Minute, RecordInv, ClockTyped
<1>8. CASE TickReads \/ RestReads \/ PollReads \/ UNCHANGED tickVars
  BY <1>8 DEF TickReads, RestReads, PollReads, tickVars
<1> QED BY <1>3, <1>4, <1>5, <1>6, <1>7, <1>8 DEF RecordNext

\* Three writers that overwrite one another's record lose no volume of the bars, no
\* freshness of the indicators and, once a bar is closed, not the day
\* (update_intraday_bar(), LTPPoller.poll(), refresh_ltp(), _on_ticks()).
THEOREM RecordStaysTrue == RecordSpec => []RecordTypeOK /\ RecordIsTrue
<1>1. RecordInit => RecordInv
  BY RecordInitInv
<1>2. RecordInv /\ [RecordNext]_tickVars => RecordInv'
  BY RecordNextInv
<1>3. RecordInv => RecordTypeOK /\ VolumeAddsUp /\ IndicatorsAreFresh /\ RvolIsBacked
  BY RecordInvIsTrue
<1>4. RecordInv /\ [RecordNext]_tickVars =>
        [rec.day = Today /\ rec.closed > 0 /\ now' = now /\ faults = 0
           => rec'.day = Today]_tickVars
  BY DayStays
<1> QED BY <1>1, <1>2, <1>3, <1>4, PTL DEF RecordSpec, RecordIsTrue, DayIsKept

-----------------------------------------------------------------------------
(***************************************************************************)
(* What is proved of TrackedUniverse, for any stocks, lists and pools: the *)
(* list is published while the market is closed, and no snapshot of the    *)
(* pools is young then.                                                    *)
(***************************************************************************)

\* A young snapshot is of this session, in which the list has stayed what it is; the pool
\* was chosen from it, also if the process has restarted since.
PoolIsListed ==
    snapshot => /\ market /\ pool \subseteq ActiveList
                /\ refreshed => activeSet = ActiveList

LEMMA UniverseNextInv == PoolIsListed /\ [UniverseNext]_universeVars => PoolIsListed'
<1> SUFFICES ASSUME PoolIsListed, [UniverseNext]_universeVars PROVE PoolIsListed'
  OBVIOUS
<1>1. CASE Poll
  <2>1. /\ market' = market /\ market /\ activeSet' = ActiveList /\ ActiveList' = ActiveList
    BY <1>1 DEF Poll, Refresh, ActiveList
  <2>2. PICK scored \in WithHistory :
           \E qualified \in Scores(scored) : pool' \in NewPools(qualified)
    BY <1>1 DEF Poll
  <2>3. PICK qualified \in Scores(scored) : pool' \in NewPools(qualified)
    BY <2>2
  <2>4. qualified \subseteq activeSet'
    BY <2>3 DEF Scores, Candidates
  <2>5. pool' \subseteq qualified
    BY <2>3 DEF NewPools, Published
  <2> QED BY <2>1, <2>4, <2>5 DEF PoolIsListed
<1>2. CASE PollFails
  BY <1>2 DEF PollFails, Refresh, PoolIsListed, ActiveList, redisVars
<1>3. CASE SnapshotAges \/ Hours
  BY <1>3 DEF SnapshotAges, Hours, PoolIsListed
<1>4. CASE Weekly
  BY <1>4 DEF Weekly, PoolIsListed
<1>5. CASE Reattach
  BY <1>5 DEF Reattach, PoolIsListed, ActiveList, redisVars
<1>6. CASE SyncMustTrack \/ (\E s \in Symbols : EnterStock(s) \/ ExitStock(s))
           \/ UNCHANGED universeVars
  <2>1. UNCHANGED <<market, listed, pool, snapshot, activeSet, refreshed>>
    BY <1>6 DEF SyncMustTrack, EnterStock, ExitStock, universeVars, redisVars, pollVars
  <2> QED BY <2>1 DEF PoolIsListed, ActiveList
<1> QED BY <1>1, <1>2, <1>3, <1>4, <1>5, <1>6 DEF UniverseNext

\* A stock that is polled for its position alone is not offered for an entry, neither by
\* its score nor by a pool that outlived a failed poll, a new list or a restart
\* (_publish_pool() and _refresh_active_symbols()).
THEOREM OnlyListedAreOffered == UniverseSpec => []PoolIsActive
<1>1. UniverseInit => PoolIsListed
  BY DEF UniverseInit, PoolIsListed
<1>2. PoolIsListed /\ [UniverseNext]_universeVars => PoolIsListed'
  BY UniverseNextInv
<1>3. PoolIsListed => PoolIsActive
  BY DEF PoolIsListed, PoolIsActive
<1> QED BY <1>1, <1>2, <1>3, PTL DEF UniverseSpec
=============================================================================
