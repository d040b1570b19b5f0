----------------------------- MODULE PaperBroker ------------------------------
(***************************************************************************)
(* The paper broker (src/paper_trading/paper_broker.py), the trades that   *)
(* the engine makes with it, and what a restart makes of its balance and   *)
(* its positions, which are kept in memory only: the engine rebuilds them  *)
(* from the trades it has restored and from the trade journal.             *)
(*                                                                         *)
(* Two trades stand for the engine's: one option bought, and a spread that *)
(* sells one contract and buys another, perhaps the one that the single    *)
(* option is in.  An order fills at once at a price of Prices or is        *)
(* rejected; quantities count lots, and amounts are even, to be halved.    *)
(***************************************************************************)
EXTENDS Integers

CONSTANTS
    Short, Long, Other,   \* contracts
    Prices,               \* of a fill, slippage included
    InitialCapital,
    FeePerOrder,          \* _transaction_fees()
    MarginMultiple,       \* SHORT_MARGIN_MULTIPLE_OF_PREMIUM
    MaxTrades             \* bound: trades that are opened

Contracts == {Short, Long, Other}

ASSUME PaperConstants ==
    /\ Short # Long /\ Short # Other /\ Long # Other
    /\ Prices \subseteq Nat \ {0} /\ MarginMultiple \in Nat \ {0}
    /\ InitialCapital \in Nat /\ FeePerOrder \in Nat /\ MaxTrades \in Nat

VARIABLES
    balance,
    positions,   \* contract -> quantity and avg_price
    margin,      \* margin_blocked
    \* the engine, restored from Redis after a restart
    option,      \* the single option: its contract, price, and fees paid
    spread,      \* the spread: where it is, its prices, fees, and result so far
    journal,     \* sum of the pnl of closed trades
    \* history
    untold,      \* what has reached the balance and not the journal
    clean,       \* the restarts found what they can rebuild
    opened

brokerVars == <<balance, positions, margin>>
paperVars == <<brokerVars, option, spread, journal, untold, clean, opened>>

Flat == [qty |-> 0, avg |-> 0]
NoOption == [contract |-> Other, price |-> 0, open |-> FALSE, paid |-> 0]
NoSpread == [at |-> "none", short |-> 0, long |-> 0, paid |-> 0, result |-> 0]

\* "naked" has its short leg only; "shortDone" and "longDone" are half closed.
SpreadStates == {"none", "naked", "open", "shortDone", "longDone"}
Half == spread.at \in {"shortDone", "longDone"}
HasShort == spread.at \in {"naked", "open", "longDone"}
HasLong == spread.at \in {"open", "shortDone"}

PaperTypeOK ==
    /\ balance \in Int /\ journal \in Int /\ untold \in Int /\ opened \in Nat
    /\ positions \in [Contracts -> [qty : Int, avg : Nat]]
    /\ margin \in [Contracts -> Nat]
    /\ option \in [contract : {Long, Other}, price : Nat, open : BOOLEAN, paid : Nat]
    /\ spread \in [at : SpreadStates, short : Nat, long : Nat, paid : Nat,
                   result : Int]
    /\ clean \in BOOLEAN

PaperInit ==
    /\ balance = InitialCapital
    /\ positions = [c \in Contracts |-> Flat]
    /\ margin = [c \in Contracts |-> 0]
    /\ option = NoOption /\ spread = NoSpread /\ journal = 0
    /\ untold = 0 /\ clean = TRUE /\ opened = 0

-----------------------------------------------------------------------------
(* The broker.                                                             *)

Abs(n) == IF n < 0 THEN -n ELSE n
Sign(side) == IF side = "BUY" THEN 1 ELSE -1
Total(f) == f[Short] + f[Long] + f[Other]

\* _update_position(): a position that grows averages its price, one that shrinks
\* keeps it.  (By one lot at a time none turns over.)
Updated(p, side, price) ==
    LET qty == p.qty + Sign(side) IN
    [qty |-> qty,
     avg |-> CASE qty = 0 -> 0
               [] Sign(side) * p.qty >= 0 ->
                    (Abs(p.qty) * p.avg + price) \div Abs(qty)
               [] OTHER -> p.avg]

\* A BUY needs the money, and a SELL that leaves a short position its margin.
Affordable(c, side, price) ==
    LET qty == positions[c].qty - 1 IN
    IF side = "BUY" THEN balance >= price + FeePerOrder
    ELSE qty < 0 =>
        balance - Total([margin EXCEPT ![c] = 0]) >= -qty * price * MarginMultiple

\* place_order(), when it is not rejected at random.
Fill(c, side, price) ==
    /\ Affordable(c, side, price)
    /\ positions' = [positions EXCEPT ![c] = Updated(@, side, price)]
    /\ margin' = [margin EXCEPT ![c] =
                    IF positions'[c].qty < 0
                    THEN -positions'[c].qty * price * MarginMultiple ELSE 0]
    /\ balance' = balance - Sign(side) * price - FeePerOrder

-----------------------------------------------------------------------------
(* The engine's trades, with net results in the journal.                   *)

OpenOption(c, price) ==
    /\ ~option.open /\ opened < MaxTrades
    /\ Fill(c, "BUY", price)
    /\ option' = [contract |-> c, price |-> price, open |-> TRUE, paid |-> FeePerOrder]
    /\ opened' = opened + 1
    /\ UNCHANGED <<spread, journal, untold, clean>>

\* The fees of both orders are in the result, also one paid before a restart.
CloseOption(price) ==
    /\ option.open
    /\ Fill(option.contract, "SELL", price)
    /\ journal' = journal + price - option.price - 2 * FeePerOrder
    /\ untold' = untold + FeePerOrder - option.paid
    /\ option' = NoOption
    /\ UNCHANGED <<spread, clean, opened>>

SellShort(price) ==
    /\ spread.at = "none" /\ opened < MaxTrades
    /\ Fill(Short, "SELL", price)
    /\ spread' = [NoSpread EXCEPT !.at = "naked", !.short = price, !.paid = FeePerOrder]
    /\ opened' = opened + 1
    /\ UNCHANGED <<option, journal, untold, clean>>

BuyHedge(price) ==
    /\ spread.at = "naked"
    /\ Fill(Long, "BUY", price)
    /\ spread' = [spread EXCEPT !.at = "open", !.long = price, !.paid = @ + FeePerOrder]
    /\ UNCHANGED <<option, journal, untold, clean, opened>>

\* The hedge is rejected: the short leg is bought back, and no trade is booked.
TakeBack(price) ==
    /\ spread.at = "naked"
    /\ Fill(Short, "BUY", price)
    /\ untold' = untold + spread.short - price - spread.paid - FeePerOrder
    /\ spread' = NoSpread
    /\ UNCHANGED <<option, journal, clean, opened>>

\* A leg is closed when its order is not rejected; the last books the trade.
LegClosed(half, result) ==
    IF Half
    THEN /\ journal' = journal + spread.result + result - 4 * FeePerOrder
         /\ untold' = untold + 2 * FeePerOrder - spread.paid
         /\ spread' = NoSpread
    ELSE /\ spread' = [spread EXCEPT !.at = half, !.result = result]
         /\ UNCHANGED <<journal, untold>>

CloseShortLeg(price) ==
    /\ spread.at \in {"open", "longDone"}
    /\ Fill(Short, "BUY", price)
    /\ LegClosed("shortDone", spread.short - price)
    /\ UNCHANGED <<option, clean, opened>>

CloseLongLeg(price) ==
    /\ spread.at \in {"open", "shortDone"}
    /\ Fill(Long, "SELL", price)
    /\ LegClosed("longDone", price - spread.long)
    /\ UNCHANGED <<option, clean, opened>>

-----------------------------------------------------------------------------
(* A restart.                                                              *)

\* A spread whose entry was not finished has not been saved.
Restored == IF spread.at = "naked" THEN NoSpread ELSE [spread EXCEPT !.paid = 0]

\* _rebuild_paper_broker_positions(): all legs of what was restored, the options
\* last, each in the place of what stood for its contract.
Rebuilt(c) ==
    IF option.open /\ c = option.contract THEN [qty |-> 1, avg |-> option.price]
    ELSE IF Restored.at # "none" /\ c = Short THEN [qty |-> -1, avg |-> Restored.short]
    ELSE IF Restored.at # "none" /\ c = Long THEN [qty |-> 1, avg |-> Restored.long]
    ELSE Flat

\* _reconcile_paper_broker_balance(), from the journal, when it can be read.
Reconciled ==
    InitialCapital + journal
        - Total([c \in Contracts |-> positions'[c].qty * positions'[c].avg])

\* It cannot rebuild a contract that two trades are in, nor a half-closed spread.
Shared == option.open /\ option.contract = Long /\ Restored.at # "none"

\* Mutant: the positions of the options are left out.
PaperRestartSpreadsOnly(readable) ==
    /\ positions' = [c \in Contracts |->
            CASE Restored.at # "none" /\ c = Short -> [qty |-> -1, avg |-> Restored.short]
              [] Restored.at # "none" /\ c = Long -> [qty |-> 1, avg |-> Restored.long]
              [] OTHER -> Flat]
    /\ margin' = [c \in Contracts |->
                    IF positions'[c].qty < 0 THEN positions'[c].avg * MarginMultiple ELSE 0]
    /\ balance' = IF readable THEN Reconciled ELSE InitialCapital
    /\ spread' = Restored
    /\ option' = [option EXCEPT !.paid = 0]
    /\ untold' = 0
    /\ clean' = (clean /\ readable /\ ~Half /\ ~Shared)
    /\ UNCHANGED <<journal, opened>>

PaperRestart(readable) ==
    /\ positions' = [c \in Contracts |-> Rebuilt(c)]
    /\ margin' = [c \in Contracts |->
                    IF positions'[c].qty < 0 THEN positions'[c].avg * MarginMultiple ELSE 0]
    /\ balance' = IF readable THEN Reconciled ELSE InitialCapital
    /\ spread' = Restored
    /\ option' = [option EXCEPT !.paid = 0]
    /\ untold' = 0
    /\ clean' = (clean /\ readable /\ ~Half /\ ~Shared)
    /\ UNCHANGED <<journal, opened>>

PaperNext ==
    \/ \E price \in Prices :
        \/ \E c \in {Long, Other} : OpenOption(c, price)
        \/ CloseOption(price)
        \/ SellShort(price) \/ BuyHedge(price) \/ TakeBack(price)
        \/ CloseShortLeg(price) \/ CloseLongLeg(price)
    \/ \E readable \in BOOLEAN : PaperRestart(readable)

PaperSpec == PaperInit /\ [][PaperNext]_paperVars

-----------------------------------------------------------------------------
(* What must hold.                                                         *)

\* The cash is explained by the journal: but for the price and the fees of what
\* is open, and the results of entries taken back, it is what the journal says,
\* so that a restart neither makes money nor loses it.  (Not after a restart
\* that found a contract of two trades, a half-closed spread, or no journal.)
CashIsExplained ==
    clean =>
        balance = InitialCapital + journal + untold
            - option.price - option.paid - spread.paid
            + (IF HasShort THEN spread.short ELSE 0)
            - (IF HasLong THEN spread.long ELSE 0)
            + (IF Half THEN spread.result - FeePerOrder ELSE 0)

\* The broker holds what the engine has open, before and after a restart: a
\* position it forgot would not be watched by any exit, one too many would be
\* sold short by the second exit.
BooksAreHeld ==
    clean =>
        /\ positions[Short].qty = (IF HasShort THEN -1 ELSE 0)
        /\ positions[Long].qty =
              (IF HasLong THEN 1 ELSE 0)
              + (IF option.open /\ option.contract = Long THEN 1 ELSE 0)
        /\ positions[Other].qty =
              (IF option.open /\ option.contract = Other THEN 1 ELSE 0)

\* Margin is held for what is short and for nothing else, through covers,
\* reversals and restarts.
MarginFollowsShorts ==
    \A c \in Contracts : margin[c] > 0 <=> positions[c].qty < 0

\* The account is that of the trades the engine has made, through restarts.
AccountIsSound == BooksAreHeld /\ CashIsExplained /\ MarginFollowsShorts
=============================================================================
