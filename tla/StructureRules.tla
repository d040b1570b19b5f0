--------------------------- MODULE StructureRules -----------------------------
(***************************************************************************)
(* Why a credit spread or an iron condor is entered, with which strikes,   *)
(* and why it is left: the gates of _process_credit_spread() and           *)
(* _process_iron_condor(), and the rules of _check_spread_exits() and      *)
(* _check_condor_exits(), for one underlying.  How the orders go is the    *)
(* matter of StructureLifecycle: here an entry or an exit is one step.     *)
(*                                                                         *)
(* Prices and strikes count strike intervals, premiums count rupees.       *)
(* |delta| is a table over the distance of a strike from the price, which  *)
(* the volatility stretches; the volatility is read anew by every check.   *)
(* What an option is quoted at is unrelated to the strike, the price and   *)
(* the other leg: each leg is read by itself, from a cache, an old trade   *)
(* or one side of the book.  Gates that look at nothing modelled here (VIX *)
(* and IV rank, volume of open interest, ADX, events, sector, margin, a    *)
(* quote or a contract that is missing) may say no at any time.            *)
(***************************************************************************)
EXTENDS Integers, FiniteSets, FiniteSetsExt

CONSTANTS
    PriceLevels,       \* prices of the underlying
    Chains,            \* the sets of strikes that may be listed
    MinSpreadCredit,   \* MIN_SPREAD_NET_CREDIT and MIN_CONDOR_NET_CREDIT,
    MinCondorCredit,   \*   in rupees for one unit
    Quotes,            \* what an option may be quoted at,
    Estimates,         \*   and what may stand in for its quote
    MaxNights          \* bound: changes of the day

ASSUME RulesConstants ==
    /\ PriceLevels \subseteq Int /\ Chains \subseteq (SUBSET Int) \ {{}}
    /\ Quotes \subseteq Nat \ {0} /\ Estimates \subseteq Nat \ {0}
    /\ MaxNights \in Nat

Opts == {"PE", "CE"}
Interval == 50              \* rupees from a strike to the next
EntryMinDte == 21           \* _ENTRY_MIN_DTE
ReentryMinDte == 14         \* _REENTRY_MIN_DTE
MinDte == 7
Dtes == {2, 9, 16, 23, 30, 37, 44, 51}

VARIABLES
    chain,        \* the listed strikes
    price, vix,   \* the market
    near,         \* days to the expiry of get_near_month_expiry()
    book,         \* the structure in _active_spreads or _active_condors
    single,       \* a single-leg option of the underlying is open
    lostToday, won, \* it is in _exited_today, in _profit_closed_today
    losses,       \* sl_freq in Redis, which ends after five days
    forced,       \* it is in _close_on_first_cycle
    enteredAt,    \* the volatility of an entry since which nothing has happened, or 0
    restored,     \* the structure is one that a restart has found
    nights

ruleVars == <<chain, price, vix, near, book, single, lostToday, won, losses,
              forced, enteredAt, restored, nights>>

VixLevels == {1, 2}
Sigmas == {1, 2, 4}         \* _get_live_sigma(): implied, or of the past range

JustEntered == enteredAt # 0

-----------------------------------------------------------------------------
(* Strikes.                                                                *)

Toward(opt) == IF opt = "PE" THEN -1 ELSE 1

\* How far a strike is out of the money.
Otm(opt, strike, at) == Toward(opt) * (strike - at)

\* |bs_delta()|, in hundredths.
Delta(opt, strike, at, sigma) ==
    LET d == (2 * Otm(opt, strike, at)) \div sigma
    IN  IF d < 0 THEN 60 ELSE IF d < 8 THEN <<50, 40, 30, 20, 14, 10, 6, 4>>[d + 1] ELSE 2

AbsDiff(a, b) == IF a > b THEN a - b ELSE b - a

\* find_delta_strike(): the candidate whose delta is closest, the first of equals,
\* at least one interval out of the money.
FindDeltaStrike(opt, target, sigma) ==
    LET off(i) == AbsDiff(Delta(opt, price + Toward(opt) * i, price, sigma), target)
        best == CHOOSE i \in -2 .. 16 :
                  \A j \in -2 .. 16 : off(i) < off(j) \/ (off(i) = off(j) /\ i <= j)
    IN  price + Toward(opt) * Max({best, 1})

\* Mutant: strikes that are the same pass for a hedge.
ApartUnlessReversed(opt, wing) ==
    IF Otm(opt, wing.long, wing.short) >= 0 THEN wing
    ELSE [wing EXCEPT !.long = wing.short + 2 * Toward(opt)]

\* The hedge is aimed farther out than the short leg.
Apart(opt, wing) ==
    IF Otm(opt, wing.long, wing.short) > 0 THEN wing
    ELSE [wing EXCEPT !.long = wing.short + 2 * Toward(opt)]

\* get_real_contract(): the nearest strike that is listed, the lower of two.
Nearest(strike) ==
    CHOOSE k \in chain : \A j \in chain :
        AbsDiff(k, strike) < AbsDiff(j, strike)
        \/ (AbsDiff(k, strike) = AbsDiff(j, strike) /\ k <= j)

\* Nothing compares the strikes that this leaves.
Listed(wing) == [wing EXCEPT !.short = Nearest(@), !.long = Nearest(@)]

Target(opt, sigma) == Apart(opt, [opt |-> opt, short |-> FindDeltaStrike(opt, 20, sigma),
                                  long |-> FindDeltaStrike(opt, 10, sigma)])

\* _find_non_crowded_strike_within_delta_tolerance(), up to three strikes on.
Uncrowded(opt, strike, crowded, sigma) ==
    LET ok == {i \in 1 .. 3 : LET k == strike + Toward(opt) * i IN
                 k \notin crowded /\ AbsDiff(Delta(opt, k, price, sigma), 20) <= 8}
    IN  IF ok = {} THEN {} ELSE {strike + Toward(opt) * Min(ok)}

Rehedged(wing, short) == Apart(wing.opt, [wing EXCEPT !.short = short])

\* Of a spread the listed strike is looked for before the crowd is (is_strike_crowded()),
\* and again where the short leg is moved; without room it is not entered.
SpreadStrikes(opt, crowded, sigma) ==
    LET first == Listed(Target(opt, sigma)) IN
    IF first.short \notin crowded THEN {first}
    ELSE {Listed(Rehedged(first, Nearest(k))) :
            k \in Uncrowded(opt, first.short, crowded, sigma)}

\* Of a condor after it.
CondorStrikes(opt, crowded, sigma) ==
    LET aimed == Target(opt, sigma) IN
    IF aimed.short \notin crowded THEN {Listed(aimed)}
    ELSE {Listed(Rehedged(aimed, k)) : k \in Uncrowded(opt, aimed.short, crowded, sigma)}

-----------------------------------------------------------------------------
(* Quotes.                                                                 *)

\* get_entry_prices_for_spread(): two quotes, one after the other.
Priced(wing) ==
    {[opt |-> wing.opt, short |-> wing.short, long |-> wing.long,
      shortPremium |-> p, longPremium |-> q] : p \in Quotes, q \in Quotes}

Credit(w) == w.shortPremium - w.longPremium
Width(w) == AbsDiff(w.short, w.long) * Interval

\* _resolved_strike_delta_ok()
DeltaOk(w, sigma) == AbsDiff(Delta(w.opt, w.short, price, sigma), 20) <= 15

\* What passes: the short leg away from the price, and not quoted below its hedge.
Wings(strikes, sigma) ==
    {w \in UNION {Priced(m) : m \in strikes} : DeltaOk(w, sigma) /\ Credit(w) > 0}

\* The credit pays the fees, and is a tenth of what may be lost.
SpreadCreditOk(w) ==
    Credit(w) >= MinSpreadCredit /\ 10 * Credit(w) >= Width(w)

\* Of a condor each wing must bring seven hundredths.
CondorCreditOk(put, call) ==
    /\ Credit(put) + Credit(call) >= MinCondorCredit
    /\ \A w \in {put, call} : 100 * Credit(w) >= 7 * Width(w)

-----------------------------------------------------------------------------
(* The exits.                                                              *)

None == [kind |-> "none"]

\* What an exit check reads of each leg: its quote, or else an estimate
\* (estimate_option_premium()), for which it takes the price of the underlying; without
\* that (stale) the premium of the entry.
Readings(s, stale) ==
    LET entry == UNION {{w.shortPremium, w.longPremium} : w \in s.wings}
        leg   == Quotes \cup (IF stale THEN entry ELSE Estimates)
    IN  [s.wings -> [short : leg, long : leg]]

\* What closing the structure would bring as it reads, before fees.
Net(s, now) ==
    LET gain(w) == (w.shortPremium - now[w].short) - (w.longPremium - now[w].long)
    IN  MapThenSumSet(gain, s.wings)

Breached(w) == Otm(w.opt, w.short, price) < 0

VixSpike(s) == 2 * vix >= 3 * s.vix

\* Hundredths of the premium at which a profit is taken.
ProfitTier(s) == IF s.dte <= 14 THEN 45 ELSE IF s.dte <= 21 THEN 35 ELSE 25

AtMost(w, now, hundredths)  == 100 * now[w].short <= hundredths * w.shortPremium
AtLeast(w, now, hundredths) == 100 * now[w].short >= hundredths * w.shortPremium

\* Without fresh data of the underlying the rules about its price pause.
UnderThreat(w, stale, sigma) ==
    ~stale /\ (Breached(w) \/ Delta(w.opt, w.short, price, sigma) > 40)

TooLate(s) == forced \/ s.dte < MinDte

\* _check_spread_exits(), with manage_position() of the strategy, which looks at the
\* short leg alone.
SpreadExitReason(s, now, stale, sigma) ==
    \E w \in s.wings :
        \/ TooLate(s) \/ UnderThreat(w, stale, sigma)
        \/ VixSpike(s) /\ (AtLeast(w, now, 150) \/ (AtMost(w, now, 40) /\ Net(s, now) > 0))
        \/ AtMost(w, now, ProfitTier(s)) /\ Net(s, now) > 0
        \/ AtMost(w, now, 25) \/ AtLeast(w, now, 200)

\* _check_condor_exits(); the regime counts only from the second day.
CondorExitReason(s, now, stale, sigma, regime) ==
    \/ TooLate(s)
    \/ \E w \in s.wings :
        \/ UnderThreat(w, stale, sigma)
        \/ AtLeast(w, now, IF VixSpike(s) THEN 150 ELSE 200)
        \/ /\ AtMost(w, now, Max({ProfitTier(s), IF VixSpike(s) THEN 40 ELSE 0}))
           /\ Net(s, now) > 0
    \/ regime \in {"TRENDING", "VOLATILE"} /\ s.old

ExitReason(s, now, stale, sigma, regime) ==
    IF s.kind = "spread" THEN SpreadExitReason(s, now, stale, sigma)
    ELSE CondorExitReason(s, now, stale, sigma, regime)

MarketRegimes == {"RANGE_BOUND", "TRENDING"}

-----------------------------------------------------------------------------
Wing == [opt : Opts, short : Int, long : Int, shortPremium : Nat, longPremium : Nat]

Structure == [kind : {"spread", "condor"}, wings : SUBSET Wing,
              dte : Dtes, vix : VixLevels, old : BOOLEAN]

IsStructure(s) ==
    /\ s \in Structure
    /\ Cardinality(s.wings) = (IF s.kind = "spread" THEN 1 ELSE 2)
    /\ s.kind = "condor" => {w.opt : w \in s.wings} = Opts

RulesTypeOK ==
    /\ chain \in Chains /\ price \in PriceLevels /\ vix \in VixLevels /\ near \in Dtes
    /\ book = None \/ IsStructure(book)
    /\ {single, lostToday, won, forced, restored} \subseteq BOOLEAN
    /\ enteredAt \in Sigmas \cup {0} /\ losses \in Nat /\ nights \in 0 .. MaxNights

RulesInit ==
    /\ chain \in Chains /\ price \in PriceLevels /\ vix \in VixLevels
    /\ near \in {9, 16, 23}
    /\ book = None /\ single = FALSE
    /\ lostToday = FALSE /\ won = FALSE /\ losses = 0
    /\ forced = FALSE /\ enteredAt = 0 /\ restored = FALSE /\ nights = 0

\* The gates that stand before the market's: nothing else on this underlying, no
\* loss today, and not two in five days.
GatesOpen == book = None /\ ~single /\ ~lostToday /\ losses < 2

\* After a profit the same month again, if it is long enough; else the first
\* expiry that is far enough (get_entry_expiry()).
EntryDtes == IF won THEN {near} \cap (ReentryMinDte .. 60)
             ELSE IF near >= EntryMinDte THEN {near} ELSE {near + 28}

Entered(kind, wings, dte, sigma) ==
    /\ book' = [kind |-> kind, wings |-> wings, dte |-> dte, vix |-> vix, old |-> FALSE]
    /\ enteredAt' = sigma /\ restored' = FALSE
    /\ UNCHANGED <<chain, price, vix, near, single, lostToday, won, losses, forced, nights>>

\* The crowded strikes: none, the short leg's, and one farther.
Crowds(opt, short) == {{}, {short}, {short, short + Toward(opt)}}

\* CreditSpreadStrategy.generate_signal(): calm, the averages apart.
CreditSpreadSignal(opt) ==
    /\ GatesOpen
    /\ \E sigma \in Sigmas, dte \in EntryDtes :
        LET aimed == Target(opt, sigma) IN
        /\ Otm(opt, aimed.short, price) > 0
        /\ \E crowded \in Crowds(opt, Nearest(aimed.short)) :
           \E w \in Wings(SpreadStrikes(opt, crowded, sigma), sigma) :
            SpreadCreditOk(w) /\ Entered("spread", {w}, dte, sigma)

\* IronCondorStrategy.generate_signal(): calm, the averages together.
IronCondorSignal ==
    /\ GatesOpen
    /\ \E sigma \in Sigmas, dte \in EntryDtes :
       \E crowdedPut \in Crowds("PE", Target("PE", sigma).short),
          crowdedCall \in Crowds("CE", Target("CE", sigma).short) :
       \E put \in Wings(CondorStrikes("PE", crowdedPut, sigma), sigma),
          call \in Wings(CondorStrikes("CE", crowdedCall, sigma), sigma) :
            CondorCreditOk(put, call) /\ Entered("condor", {put, call}, dte, sigma)

\* Some reading speaks against it.  The result, which the fills decide and not what was
\* read, tells whether the day is over for the underlying.
CloseStructure ==
    /\ book # None
    /\ \E stale \in BOOLEAN, regime \in MarketRegimes, sigma \in Sigmas :
        ~ \A now \in Readings(book, stale) : ~ExitReason(book, now, stale, sigma, regime)
    /\ \E adverse \in BOOLEAN :
        /\ lostToday' = (lostToday \/ adverse) /\ won' = (won \/ ~adverse)
        /\ losses' = IF adverse /\ losses < 2 THEN losses + 1 ELSE losses
    /\ book' = None /\ forced' = FALSE /\ enteredAt' = 0 /\ restored' = FALSE
    /\ UNCHANGED <<chain, price, vix, near, single, nights>>

\* The square-off of its last days takes it as it is.
SquareOffLast ==
    /\ book # None /\ book.dte < MinDte
    /\ book' = None /\ enteredAt' = 0 /\ restored' = FALSE
    /\ UNCHANGED <<chain, price, vix, near, single, lostToday, won, losses, forced, nights>>

\* A single-leg entry leaves an underlying with a structure alone.
SingleOpened ==
    /\ ~single /\ book = None /\ ~lostToday
    /\ single' = TRUE
    /\ UNCHANGED <<chain, price, vix, near, book, lostToday, won, losses, forced, enteredAt,
                   restored, nights>>

\* Its loss ends the day as well.
SingleClosed ==
    /\ single /\ single' = FALSE
    /\ lostToday' \in {lostToday, TRUE}
    /\ UNCHANGED <<chain, price, vix, near, book, won, losses, forced, enteredAt,
                   restored, nights>>

MarketMoves ==
    /\ \/ price' \in PriceLevels \ {price} /\ UNCHANGED vix
       \/ vix' \in VixLevels \ {vix} /\ UNCHANGED price
    /\ enteredAt' = 0
    /\ UNCHANGED <<chain, near, book, single, lostToday, won, losses, forced, restored,
                   nights>>

\* A week goes by; the near month is left with less than seven days to go.
NextWeek ==
    /\ nights < MaxNights /\ nights' = nights + 1
    /\ near' = IF near - 7 < MinDte THEN near + 21 ELSE near - 7
    /\ IF book = None THEN UNCHANGED book
       ELSE /\ book.dte > 7
            /\ book' = [book EXCEPT !.dte = @ - 7, !.old = TRUE]
    /\ lostToday' = FALSE /\ won' = FALSE /\ losses' = 0 /\ enteredAt' = 0
    /\ UNCHANGED <<chain, price, vix, single, forced, restored>>

\* _restore_state() flags a structure that is near its expiry.
RulesRestart ==
    /\ forced' = (book # None /\ book.dte < MinDte)
    /\ restored' = (book # None)
    /\ UNCHANGED <<chain, price, vix, near, book, single, lostToday, won, losses, enteredAt,
                   nights>>

RulesNext ==
    \/ \E opt \in Opts : CreditSpreadSignal(opt)
    \/ IronCondorSignal \/ CloseStructure \/ SquareOffLast
    \/ SingleOpened \/ SingleClosed
    \/ MarketMoves \/ NextWeek \/ RulesRestart

RulesSpec == RulesInit /\ [][RulesNext]_ruleVars

-----------------------------------------------------------------------------
(* What must hold.                                                         *)

\* The hedge is farther out of the money than the short leg, or else a strike beside them
\* is not listed and their one contract was read at two prices, the lower for the hedge.
Hedged(w) ==
    \/ Otm(w.opt, w.long, w.short) > 0
    \/ /\ w.long = w.short /\ w.longPremium < w.shortPremium
       /\ ~ ({w.short - 1, w.short + 1} \subseteq chain)

\* However the listed strikes lie and the crowd has moved the short leg, no wing turns
\* around, and none collapses to one strike, sold and bought at once, unless as above.
HedgeIsFarther == book # None => \A w \in book.wings : Hedged(w)

\* What the entry takes the exits let stand: at the price, the VIX and the volatility at
\* which a structure was entered nothing closes it but a short leg that is read at no more
\* than 45 hundredths of its premium or at no less than twice, or it would be opened and
\* closed every minute.  (A later quote may be such a reading, and so may an estimate that
\* stands in for one.  After a square-off the flag of a restart stays, and closes the next
\* structure at once.)
EntryIsNoExit ==
    JustEntered /\ (forced => restored) =>
        \A stale \in BOOLEAN, regime \in MarketRegimes :
        \A now \in Readings(book, stale) :
            ExitReason(book, now, stale, enteredAt, regime) =>
                \E w \in book.wings : AtMost(w, now, 45) \/ AtLeast(w, now, 200)

\* What the rules enter is hedged on the right side, and is closed at once only for what
\* a short leg is read at.
EntryIsSound == HedgeIsFarther /\ EntryIsNoExit
=============================================================================
