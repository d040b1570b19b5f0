---------------------------- MODULE BrokerProofs -----------------------------
(***************************************************************************)
(* The brokers: one live order per tag at Zerodha, for any number of       *)
(* attempts; the account of the paper broker, for any prices and fees; the *)
(* records of the orders after a run of the Zerodha sync; what Zerodha is  *)
(* asked to send, and how long it may send nothing.                        *)
(***************************************************************************)
EXTENDS OrderPlacement, PaperBroker, BrokerRecords, Subscriptions, FeedHealing,
        SequenceTheorems, FiniteSetTheorems, WellFoundedInduction, TLAPS

\* The lookup can be trusted, and a request that failed is dead.
LookupsTell == Tagged /\ "lookup_fails" \notin Events /\ "lands_later" \notin Events

LEMMA PlacementInit == Init => PlacementInv
BY PlacementConstants
DEF Init, PlacementInv, TypeOK, EarlierAreOver, Over, Live, Attempts

LEMMA PlacementStep ==
    ASSUME LookupsTell, PlacementInv, [Next]_vars
    PROVE  PlacementInv'
<1> USE DEF PlacementInv, TypeOK, EarlierAreOver, Over, Live
<1>1. CASE UNCHANGED vars
  BY <1>1 DEF vars
<1>2. CASE Submit
  <2>1. order[attempt] = "none" /\ \A i \in Attempts \ {attempt} : Over(i)
    BY <1>2 DEF Submit
  <2>2. TypeOK' /\ pc' = "wait" /\ UNCHANGED <<attempt, order>>
          /\ request' = [request EXCEPT ![attempt] = "flying"]
    BY <1>2 DEF Submit
  <2>3. \A i \in Attempts \ {attempt} : Over(i)'
    BY <2>1, <2>2
  <2>4. \A i \in Attempts : i > attempt => i # attempt
    BY PlacementConstants DEF Attempts
  <2> QED BY <2>1, <2>2, <2>3, <2>4
<1>3. CASE Answered
  <2>1. /\ TypeOK' /\ pc' = "returned" /\ request[attempt] = "accepted"
        /\ result' = attempt /\ UNCHANGED <<attempt, request, order>>
    BY <1>3 DEF Answered, Done
  <2>2. \A i \in Attempts \ {result'} : Over(i)
    BY <1>3, <2>1 DEF Answered
  <2> QED BY <2>1, <2>2
<1>4. ASSUME RetryOrRaise,
             \A i \in Attempts : request'[i] # "flying",
             \A i \in Attempts \ {attempt} : request'[i] = request[i],
             request' \in [Attempts -> {"accepted", "lost", "unsent", "refused"}],
             request[attempt] # "accepted" => request'[attempt] # "accepted"
             /\ order[attempt] = "none",
             request[attempt] = "accepted" => request'[attempt] = "accepted",
             pc = "wait", UNCHANGED <<order, result>>
      PROVE  PlacementInv'
  <2>1. CASE attempt < MaxAttempts
    <3>1. attempt' = attempt + 1 /\ attempt' \in Attempts /\ pc' = "lookup"
      BY <1>4, <2>1, PlacementConstants DEF RetryOrRaise, LookupsTell, Attempts
    <3> QED BY <1>4, <3>1 DEF Attempts
  <2>2. CASE ~(attempt < MaxAttempts)
    <3>1. attempt' = attempt /\ pc' = "raised"
      BY <1>4, <2>2 DEF RetryOrRaise
    <3> QED BY <1>4, <3>1 DEF Done
  <2> QED BY <2>1, <2>2
<1>5. CASE AnswerLost
  <2>1. CASE RetryOrRaise
    BY <1>4, <1>5, <2>1 DEF AnswerLost
  <2>2. CASE pc' = "raised" /\ UNCHANGED attempt
    BY <1>5, <2>2 DEF AnswerLost, Done
  <2> QED BY <1>5, <2>1, <2>2 DEF AnswerLost
<1>6. CASE AttemptFails
  BY <1>4, <1>6 DEF AttemptFails, Happens, LookupsTell
<1>7. CASE Refused
  BY <1>7 DEF Refused, Done
<1>8. CASE Lookup
  BY <1>8 DEF Lookup, Happens, LookupsTell, Done
<1>9. CASE TimesOut
  BY <1>9 DEF TimesOut, Done
<1>10. ASSUME NEW i \in Attempts, Accept(i) PROVE PlacementInv'
  BY <1>10 DEF Accept
<1>11. ASSUME NEW i \in Attempts, Resolve(i) PROVE PlacementInv'
  BY <1>11 DEF Resolve
<1> QED BY <1>1, <1>2, <1>3, <1>5, <1>6, <1>7, <1>8, <1>9, <1>10, <1>11
        DEF Next, Call

\* However many attempts place_order() makes, the order it is asked for exists
\* once at the exchange, provided its lookups can be trusted.
THEOREM TagIsUnique == ASSUME LookupsTell PROVE Spec => []OneOrderPerTag
<1>1. PlacementInv /\ [Next]_vars => PlacementInv'
  BY PlacementStep
<1>2. PlacementInv => OneOrderPerTag
  BY DEF PlacementInv, EarlierAreOver, Over, OneOrderPerTag
<1> QED BY <1>1, <1>2, PlacementInit, PTL DEF Spec

-----------------------------------------------------------------------------
(***************************************************************************)
(* The paper broker.  An order changes the position, the margin and the    *)
(* cash of one contract; the trades add up to the positions as long as the *)
(* restarts find what they can rebuild.                                    *)
(***************************************************************************)

\* What is open has a price; what is not, none.
TradesHavePrices ==
    /\ option.price \in Prices \/ option = NoOption
    /\ option.open <=> option # NoOption
    /\ spread.at = "none" => spread = NoSpread
    /\ spread.at # "none" => spread.short \in Prices

PaperInv == PaperTypeOK /\ TradesHavePrices /\ AccountIsSound

\* What has grown by one at a price has an average that is a number.
LEMMA AverageIsNat ==
    ASSUME NEW a \in Nat, NEW b \in Nat, NEW p \in Nat, NEW n \in Nat \ {0}
    PROVE  (a * b + p) \div n \in Nat
<1> DEFINE m == a * b + p
<1>1. m \in Nat
  <2>1. a * b \in Nat
    OBVIOUS
  <2> QED BY <2>1
<1> HIDE DEF m
<1>2. m \div n \in Nat
  BY <1>1
<1> QED BY <1>2 DEF m

LEMMA UpdatedIsTyped ==
    ASSUME NEW p \in [qty : Int, avg : Nat], NEW side \in {"BUY", "SELL"}, NEW price \in Nat
    PROVE  Updated(p, side, price) \in [qty : Int, avg : Nat]
<1> DEFINE qty == p.qty + Sign(side)
           mean == (Abs(p.qty) * p.avg + price) \div Abs(qty)
           grows == Sign(side) * p.qty >= 0
<1>1. /\ qty \in Int /\ p.avg \in Nat /\ Abs(p.qty) \in Nat
      /\ Abs(qty) \in Nat /\ (qty # 0 => Abs(qty) \in Nat \ {0})
      /\ qty = 0 => ~grows
  BY DEF Sign, Abs
<1> HIDE DEF qty
<1>2. qty # 0 => mean \in Nat
  BY <1>1, AverageIsNat
<1>3. Updated(p, side, price) =
        [qty |-> qty, avg |-> CASE qty = 0 -> 0 [] grows -> mean [] OTHER -> p.avg]
  BY DEF Updated, qty
<1> HIDE DEF mean, grows
<1>4. (CASE qty = 0 -> 0 [] grows -> mean [] OTHER -> p.avg) \in Nat
  BY <1>1, <1>2
<1> QED BY <1>1, <1>3, <1>4

LEMMA MarginOfShort ==
    ASSUME NEW q \in Int, NEW price \in Prices \cup {0}
    PROVE  /\ q < 0 => -q * price * MarginMultiple \in Nat
           /\ q < 0 /\ price # 0 => -q * price * MarginMultiple > 0
<1>1. price \in Nat /\ MarginMultiple \in Nat /\ MarginMultiple > 0
  BY PaperConstants
<1> DEFINE n == q * price
<1>2. n \in Int /\ (q < 0 => n <= 0 /\ (price # 0 => n < 0))
  BY <1>1
<1> HIDE DEF n
<1>3. n * MarginMultiple \in Int
        /\ (n <= 0 => n * MarginMultiple <= 0) /\ (n < 0 => n * MarginMultiple < 0)
  BY <1>1, <1>2
<1> DEFINE m == n * MarginMultiple
<1> HIDE DEF m
<1>4. q < 0 => -m \in Nat /\ (price # 0 => -m > 0)
  BY <1>2, <1>3 DEF m
<1> QED BY <1>4 DEF m, n

\* What an order does to its own contract, and that it does nothing to others.
LEMMA FillChanges ==
    ASSUME PaperTypeOK, NEW c \in Contracts, NEW side \in {"BUY", "SELL"},
           NEW price \in Prices, Fill(c, side, price)
    PROVE  /\ positions' \in [Contracts -> [qty : Int, avg : Nat]]
           /\ margin' \in [Contracts -> Nat]
           /\ price \in Nat /\ price > 0 /\ FeePerOrder \in Nat
           /\ balance' = balance - Sign(side) * price - FeePerOrder
           /\ positions'[c].qty = positions[c].qty + Sign(side)
           /\ \A d \in Contracts \ {c} : positions'[d] = positions[d] /\ margin'[d] = margin[d]
           /\ margin'[c] > 0 <=> positions'[c].qty < 0
<1>1. /\ price \in Nat /\ price > 0 /\ FeePerOrder \in Nat
      /\ positions \in [Contracts -> [qty : Int, avg : Nat]] /\ margin \in [Contracts -> Nat]
  BY PaperConstants DEF PaperTypeOK
<1>2. positions' = [positions EXCEPT ![c] = Updated(positions[c], side, price)]
  BY DEF Fill
<1>3. Updated(positions[c], side, price) \in [qty : Int, avg : Nat]
        /\ Updated(positions[c], side, price).qty = positions[c].qty + Sign(side)
  BY <1>1, UpdatedIsTyped DEF Updated
<1>4. /\ positions' \in [Contracts -> [qty : Int, avg : Nat]]
      /\ positions'[c].qty = positions[c].qty + Sign(side)
      /\ \A d \in Contracts \ {c} : positions'[d] = positions[d]
  BY <1>1, <1>2, <1>3
<1> DEFINE q == positions'[c].qty
           m == -q * price * MarginMultiple
<1>5. q \in Int /\ (q < 0 => m \in Nat /\ m > 0)
  BY <1>1, <1>4, MarginOfShort
<1>6. margin' = [margin EXCEPT ![c] = IF q < 0 THEN m ELSE 0]
  BY DEF Fill
<1>7. balance' = balance - Sign(side) * price - FeePerOrder
  BY DEF Fill
<1> HIDE DEF m, q
<1>8. /\ margin' \in [Contracts -> Nat] /\ (margin'[c] > 0 <=> q < 0)
      /\ \A d \in Contracts \ {c} : margin'[d] = margin[d]
  BY <1>1, <1>5, <1>6
<1> QED BY <1>1, <1>4, <1>7, <1>8 DEF q

LEMMA MarginStays ==
    ASSUME PaperTypeOK, MarginFollowsShorts, NEW c \in Contracts,
           NEW side \in {"BUY", "SELL"}, NEW price \in Prices, Fill(c, side, price)
    PROVE  MarginFollowsShorts'
<1>1. /\ \A d \in Contracts \ {c} : positions'[d] = positions[d] /\ margin'[d] = margin[d]
      /\ margin'[c] > 0 <=> positions'[c].qty < 0
  BY FillChanges
<1> QED BY <1>1 DEF MarginFollowsShorts

LEMMA PaperInitSound == PaperInit => PaperInv
<1> SUFFICES ASSUME PaperInit PROVE PaperInv
  OBVIOUS
<1>1. PaperTypeOK
  BY PaperConstants
  DEF PaperInit, PaperTypeOK, Flat, NoOption, NoSpread, SpreadStates, Contracts
<1>2. TradesHavePrices
  BY DEF PaperInit, TradesHavePrices, NoOption, NoSpread
<1>3. BooksAreHeld /\ CashIsExplained /\ MarginFollowsShorts
  BY PaperConstants
  DEF PaperInit, BooksAreHeld, CashIsExplained, MarginFollowsShorts, HasShort, HasLong,
      Half, Flat, NoOption, NoSpread, Contracts
<1> QED BY <1>1, <1>2, <1>3 DEF PaperInv, AccountIsSound

LEMMA OptionTrades ==
    ASSUME PaperInv, NEW price \in Prices,
           CloseOption(price) \/ \E c \in {Long, Other} : OpenOption(c, price)
    PROVE  PaperInv'
<1>1. /\ PaperTypeOK /\ TradesHavePrices /\ MarginFollowsShorts
      /\ BooksAreHeld /\ CashIsExplained
  BY DEF PaperInv, AccountIsSound
<1>2. /\ balance \in Int /\ journal \in Int /\ untold \in Int /\ opened \in Nat
      /\ option \in [contract : {Long, Other}, price : Nat, open : BOOLEAN, paid : Nat]
      /\ spread.at \in SpreadStates /\ spread.short \in Nat /\ spread.long \in Nat
      /\ spread.paid \in Nat /\ spread.result \in Int
      /\ \A c \in Contracts : positions[c].qty \in Int
  BY <1>1 DEF PaperTypeOK
<1>3. ASSUME NEW c \in {Long, Other}, OpenOption(c, price) PROVE PaperInv'
  <2>1. /\ ~option.open /\ Fill(c, "BUY", price) /\ opened' = opened + 1
        /\ option' = [contract |-> c, price |-> price, open |-> TRUE, paid |-> FeePerOrder]
        /\ UNCHANGED <<spread, journal, untold, clean>> /\ c \in Contracts
    BY <1>3 DEF OpenOption, Contracts
  <2>2. /\ positions' \in [Contracts -> [qty : Int, avg : Nat]]
        /\ margin' \in [Contracts -> Nat]
        /\ price \in Nat /\ price > 0 /\ FeePerOrder \in Nat
        /\ balance' = balance - price - FeePerOrder
        /\ positions'[c].qty = positions[c].qty + 1
        /\ \A d \in Contracts \ {c} : positions'[d] = positions[d]
    BY <1>1, <1>2, <2>1, FillChanges DEF Sign
  <2>3. PaperTypeOK'
    BY <1>1, <1>2, <2>1, <2>2 DEF PaperTypeOK
  <2>4. TradesHavePrices'
    BY <1>1, <2>1 DEF TradesHavePrices, NoOption
  <2>5. option.price = 0 /\ option.paid = 0
    BY <1>1, <2>1 DEF TradesHavePrices, NoOption
  <2>6. BooksAreHeld'
    BY <1>1, <1>2, <2>1, <2>2, PaperConstants DEF BooksAreHeld, HasShort, HasLong, Contracts
  <2>7. CashIsExplained'
    BY <1>1, <1>2, <2>1, <2>2, <2>5, PaperConstants
    DEF CashIsExplained, HasShort, HasLong, Half
  <2> QED BY <1>1, <2>1, <2>3, <2>4, <2>6, <2>7, MarginStays DEF PaperInv, AccountIsSound
<1>4. CASE CloseOption(price)
  <2> DEFINE c == option.contract
  <2>1. /\ option.open /\ Fill(c, "SELL", price) /\ option' = NoOption
        /\ journal' = journal + price - option.price - 2 * FeePerOrder
        /\ untold' = untold + FeePerOrder - option.paid
        /\ UNCHANGED <<spread, clean, opened>> /\ c \in Contracts
    BY <1>2, <1>4 DEF CloseOption, Contracts
  <2>2. /\ positions' \in [Contracts -> [qty : Int, avg : Nat]]
        /\ margin' \in [Contracts -> Nat]
        /\ price \in Nat /\ price > 0 /\ FeePerOrder \in Nat
        /\ balance' = balance + price - FeePerOrder
        /\ positions'[c].qty = positions[c].qty - 1
        /\ \A d \in Contracts \ {c} : positions'[d] = positions[d]
    BY <1>1, <1>2, <2>1, FillChanges DEF Sign
  <2>3. PaperTypeOK'
    BY <1>1, <1>2, <2>1, <2>2 DEF PaperTypeOK, NoOption
  <2>4. TradesHavePrices'
    BY <1>1, <2>1 DEF TradesHavePrices, NoOption
  <2>5. BooksAreHeld'
    BY <1>1, <1>2, <2>1, <2>2, PaperConstants
    DEF BooksAreHeld, HasShort, HasLong, Contracts, NoOption
  <2>6. CashIsExplained'
    BY <1>1, <1>2, <2>1, <2>2, PaperConstants
    DEF CashIsExplained, HasShort, HasLong, Half, NoOption
  <2> QED BY <1>1, <2>1, <2>3, <2>4, <2>5, <2>6, MarginStays DEF PaperInv, AccountIsSound
<1> QED BY <1>3, <1>4

\* What the spread's fields are worth, in each of its trades.
LEMMA SpreadTrades ==
    ASSUME PaperInv, NEW price \in Prices,
           \/ SellShort(price) \/ BuyHedge(price) \/ TakeBack(price)
           \/ CloseShortLeg(price) \/ CloseLongLeg(price)
    PROVE  PaperInv'
<1>1. /\ PaperTypeOK /\ TradesHavePrices /\ MarginFollowsShorts
      /\ BooksAreHeld /\ CashIsExplained
  BY DEF PaperInv, AccountIsSound
<1>2. /\ balance \in Int /\ journal \in Int /\ untold \in Int /\ opened \in Nat
      /\ option.price \in Nat /\ option.paid \in Nat
      /\ option \in [contract : {Long, Other}, price : Nat, open : BOOLEAN, paid : Nat]
      /\ spread \in [at : SpreadStates, short : Nat, long : Nat, paid : Nat, result : Int]
      /\ spread.at \in SpreadStates /\ spread.short \in Nat /\ spread.long \in Nat
      /\ spread.paid \in Nat /\ spread.result \in Int /\ clean \in BOOLEAN
      /\ \A c \in Contracts : positions[c].qty \in Int
      /\ Short \in Contracts /\ Long \in Contracts /\ Other \in Contracts
  BY <1>1 DEF PaperTypeOK, Contracts
<1>3. ASSUME NEW c \in Contracts, NEW side \in {"BUY", "SELL"}, Fill(c, side, price),
             UNCHANGED <<option, clean>>, opened' \in Nat, TradesHavePrices',
             journal' \in Int, untold' \in Int,
             spread' \in [at : SpreadStates, short : Nat, long : Nat, paid : Nat,
                          result : Int],
             balance' = balance - Sign(side) * price - FeePerOrder
               => BooksAreHeld' /\ CashIsExplained'
      PROVE  PaperInv'
  <2>1. /\ positions' \in [Contracts -> [qty : Int, avg : Nat]]
        /\ margin' \in [Contracts -> Nat]
        /\ balance' = balance - Sign(side) * price - FeePerOrder
        /\ price \in Nat /\ FeePerOrder \in Nat
    BY <1>1, <1>3, FillChanges
  <2>2. PaperTypeOK'
    BY <1>1, <1>2, <1>3, <2>1 DEF PaperTypeOK, Sign
  <2> QED BY <1>1, <1>3, <2>1, <2>2, MarginStays DEF PaperInv, AccountIsSound
<1>4. price \in Nat /\ FeePerOrder \in Nat /\ InitialCapital \in Nat /\ Short # Long /\ Short # Other /\ Long # Other
  BY PaperConstants
<1>5. ASSUME NEW c \in Contracts, NEW side \in {"BUY", "SELL"}, Fill(c, side, price)
      PROVE  /\ positions'[c].qty = positions[c].qty + Sign(side)
             /\ \A d \in Contracts \ {c} : positions'[d].qty = positions[d].qty
  BY <1>1, <1>5, FillChanges
<1>6. CASE SellShort(price)
  <2>1. /\ spread.at = "none" /\ Fill(Short, "SELL", price) /\ opened' = opened + 1
        /\ spread' = [NoSpread EXCEPT !.at = "naked", !.short = price,
                                      !.paid = FeePerOrder]
        /\ UNCHANGED <<option, journal, untold, clean>> /\ spread = NoSpread
    BY <1>1, <1>6 DEF SellShort, TradesHavePrices
  <2>2. spread' = [at |-> "naked", short |-> price, long |-> 0, paid |-> FeePerOrder,
                   result |-> 0]
    BY <2>1 DEF NoSpread
  <2>3. TradesHavePrices'
    BY <1>1, <2>1, <2>2 DEF TradesHavePrices
  <2>4. BooksAreHeld'
    BY <1>1, <1>2, <1>4, <1>5, <2>1, <2>2
       DEF BooksAreHeld, HasShort, HasLong, Sign, NoSpread
  <2>5. balance' = balance + price - FeePerOrder => CashIsExplained'
    BY <1>1, <1>2, <1>4, <2>1, <2>2
       DEF CashIsExplained, HasShort, HasLong, Half, NoSpread
  <2>6. spread' \in [at : SpreadStates, short : Nat, long : Nat, paid : Nat, result : Int]
    BY <1>4, <2>2 DEF SpreadStates
  <2>7. balance - Sign("SELL") * price - FeePerOrder = balance + price - FeePerOrder
    BY <1>2, <1>4 DEF Sign
  <2> QED BY <1>2, <1>3, <2>1, <2>3, <2>4, <2>5, <2>6, <2>7
<1>7. CASE BuyHedge(price)
  <2>1. /\ spread.at = "naked" /\ Fill(Long, "BUY", price)
        /\ spread' = [spread EXCEPT !.at = "open", !.long = price,
                                    !.paid = spread.paid + FeePerOrder]
        /\ UNCHANGED <<option, journal, untold, clean, opened>>
    BY <1>7 DEF BuyHedge
  <2>2. spread' = [at |-> "open", short |-> spread.short, long |-> price,
                   paid |-> spread.paid + FeePerOrder, result |-> spread.result]
    BY <1>2, <2>1
  <2>3. TradesHavePrices'
    BY <1>1, <2>1, <2>2 DEF TradesHavePrices
  <2>4. BooksAreHeld'
    BY <1>1, <1>2, <1>4, <1>5, <2>1, <2>2 DEF BooksAreHeld, HasShort, HasLong, Sign
  <2>5. balance' = balance - price - FeePerOrder => CashIsExplained'
    BY <1>1, <1>2, <1>4, <2>1, <2>2 DEF CashIsExplained, HasShort, HasLong, Half
  <2>6. spread' \in [at : SpreadStates, short : Nat, long : Nat, paid : Nat, result : Int]
    BY <1>2, <1>4, <2>2 DEF SpreadStates
  <2>7. Sign("BUY") * price = price
    BY <1>4 DEF Sign
  <2> QED BY <1>2, <1>3, <2>1, <2>3, <2>4, <2>5, <2>6, <2>7
<1>8. CASE TakeBack(price)
  <2>1. /\ spread.at = "naked" /\ Fill(Short, "BUY", price) /\ spread' = NoSpread
        /\ untold' = untold + spread.short - price - spread.paid - FeePerOrder
        /\ UNCHANGED <<option, journal, clean, opened>>
    BY <1>8 DEF TakeBack
  <2>2. TradesHavePrices'
    BY <1>1, <2>1 DEF TradesHavePrices, NoSpread
  <2>3. BooksAreHeld'
    BY <1>1, <1>2, <1>4, <1>5, <2>1
       DEF BooksAreHeld, HasShort, HasLong, Sign, NoSpread
  <2>4. balance' = balance - price - FeePerOrder => CashIsExplained'
    BY <1>1, <1>2, <1>4, <2>1 DEF CashIsExplained, HasShort, HasLong, Half, NoSpread
  <2>5. NoSpread \in [at : SpreadStates, short : Nat, long : Nat, paid : Nat, result : Int]
    BY DEF SpreadStates, NoSpread
  <2>6. Sign("BUY") * price = price /\ untold' \in Int
    BY <1>2, <1>4, <2>1 DEF Sign
  <2> QED BY <1>2, <1>3, <2>1, <2>2, <2>3, <2>4, <2>5, <2>6
<1>9. CASE CloseShortLeg(price)
  <2>1. /\ spread.at \in {"open", "longDone"} /\ Fill(Short, "BUY", price)
        /\ LegClosed("shortDone", spread.short - price)
        /\ UNCHANGED <<option, clean, opened>>
    BY <1>9 DEF CloseShortLeg
  <2>2. CASE Half
    <3>1. /\ journal' = journal + spread.result + (spread.short - price) - 4 * FeePerOrder
          /\ untold' = untold + 2 * FeePerOrder - spread.paid
          /\ spread' = NoSpread /\ spread.at = "longDone"
      BY <2>1, <2>2 DEF LegClosed, Half
    <3>2. TradesHavePrices'
      BY <1>1, <2>1, <3>1 DEF TradesHavePrices, NoSpread
    <3>3. BooksAreHeld'
      BY <1>1, <1>2, <1>4, <1>5, <2>1, <3>1
         DEF BooksAreHeld, HasShort, HasLong, Sign, NoSpread
    <3>4. balance' = balance - price - FeePerOrder => CashIsExplained'
      BY <1>1, <1>2, <1>4, <2>1, <3>1
         DEF CashIsExplained, HasShort, HasLong, Half, NoSpread
    <3>5. NoSpread \in [at : SpreadStates, short : Nat, long : Nat, paid : Nat, result : Int]
      BY DEF SpreadStates, NoSpread
    <3>6. Sign("BUY") * price = price /\ untold' \in Int /\ journal' \in Int
      BY <1>2, <1>4, <3>1 DEF Sign
    <3> QED BY <1>2, <1>3, <2>1, <3>1, <3>2, <3>3, <3>4, <3>5, <3>6
  <2>3. CASE ~Half
    <3>1. /\ spread' = [spread EXCEPT !.at = "shortDone", !.result = spread.short - price]
          /\ UNCHANGED <<journal, untold>> /\ spread.at = "open"
      BY <2>1, <2>3 DEF LegClosed, Half
    <3>2. spread' = [at |-> "shortDone", short |-> spread.short, long |-> spread.long,
                     paid |-> spread.paid, result |-> spread.short - price]
      BY <1>2, <3>1
    <3>3. TradesHavePrices'
      BY <1>1, <2>1, <3>1, <3>2 DEF TradesHavePrices
    <3>4. BooksAreHeld'
      BY <1>1, <1>2, <1>4, <1>5, <2>1, <3>1, <3>2 DEF BooksAreHeld, HasShort, HasLong, Sign
    <3>5. balance' = balance - price - FeePerOrder => CashIsExplained'
      BY <1>1, <1>2, <1>4, <2>1, <3>1, <3>2 DEF CashIsExplained, HasShort, HasLong, Half
    <3>6. spread' \in [at : SpreadStates, short : Nat, long : Nat, paid : Nat, result : Int]
      BY <1>2, <1>4, <3>2 DEF SpreadStates
    <3>7. Sign("BUY") * price = price
      BY <1>4 DEF Sign
    <3> QED BY <1>2, <1>3, <2>1, <3>1, <3>3, <3>4, <3>5, <3>6, <3>7
  <2> QED BY <2>2, <2>3
<1>10. CASE CloseLongLeg(price)
  <2>1. /\ spread.at \in {"open", "shortDone"} /\ Fill(Long, "SELL", price)
        /\ LegClosed("longDone", price - spread.long)
        /\ UNCHANGED <<option, clean, opened>>
    BY <1>10 DEF CloseLongLeg
  <2>2. balance - Sign("SELL") * price - FeePerOrder = balance + price - FeePerOrder
    BY <1>2, <1>4 DEF Sign
  <2>3. CASE Half
    <3>1. /\ journal' = journal + spread.result + (price - spread.long) - 4 * FeePerOrder
          /\ untold' = untold + 2 * FeePerOrder - spread.paid
          /\ spread' = NoSpread /\ spread.at = "shortDone"
      BY <2>1, <2>3 DEF LegClosed, Half
    <3>2. TradesHavePrices'
      BY <1>1, <2>1, <3>1 DEF TradesHavePrices, NoSpread
    <3>3. BooksAreHeld'
      BY <1>1, <1>2, <1>4, <1>5, <2>1, <3>1
         DEF BooksAreHeld, HasShort, HasLong, Sign, NoSpread
    <3>4. balance' = balance + price - FeePerOrder => CashIsExplained'
      BY <1>1, <1>2, <1>4, <2>1, <3>1
         DEF CashIsExplained, HasShort, HasLong, Half, NoSpread
    <3>5. NoSpread \in [at : SpreadStates, short : Nat, long : Nat, paid : Nat, result : Int]
      BY DEF SpreadStates, NoSpread
    <3>6. untold' \in Int /\ journal' \in Int
      BY <1>2, <1>4, <3>1
    <3> QED BY <1>2, <1>3, <2>1, <2>2, <3>1, <3>2, <3>3, <3>4, <3>5, <3>6
  <2>4. CASE ~Half
    <3>1. /\ spread' = [spread EXCEPT !.at = "longDone", !.result = price - spread.long]
          /\ UNCHANGED <<journal, untold>> /\ spread.at = "open"
      BY <2>1, <2>4 DEF LegClosed, Half
    <3>2. spread' = [at |-> "longDone", short |-> spread.short, long |-> spread.long,
                     paid |-> spread.paid, result |-> price - spread.long]
      BY <1>2, <3>1
    <3>3. TradesHavePrices'
      BY <1>1, <2>1, <3>1, <3>2 DEF TradesHavePrices
    <3>4. BooksAreHeld'
      BY <1>1, <1>2, <1>4, <1>5, <2>1, <3>1, <3>2 DEF BooksAreHeld, HasShort, HasLong, Sign
    <3>5. balance' = balance + price - FeePerOrder => CashIsExplained'
      BY <1>1, <1>2, <1>4, <2>1, <3>1, <3>2 DEF CashIsExplained, HasShort, HasLong, Half
    <3>6. spread' \in [at : SpreadStates, short : Nat, long : Nat, paid : Nat, result : Int]
      BY <1>2, <1>4, <3>2 DEF SpreadStates
    <3> QED BY <1>2, <1>3, <2>1, <2>2, <3>1, <3>3, <3>4, <3>5, <3>6
  <2> QED BY <2>3, <2>4
<1> QED BY <1>6, <1>7, <1>8, <1>9, <1>10

LEMMA RestartRebuilds ==
    ASSUME PaperInv, NEW readable \in BOOLEAN, PaperRestart(readable)
    PROVE  PaperInv'
<1>1. PaperTypeOK /\ TradesHavePrices
  BY DEF PaperInv
<1>2. /\ journal \in Int /\ untold \in Int /\ opened \in Nat /\ clean \in BOOLEAN
      /\ option \in [contract : {Long, Other}, price : Nat, open : BOOLEAN, paid : Nat]
      /\ spread \in [at : SpreadStates, short : Nat, long : Nat, paid : Nat, result : Int]
      /\ option.price \in Nat /\ InitialCapital \in Int
      /\ Short # Long /\ Short # Other /\ Long # Other
      /\ Short \in Contracts /\ Long \in Contracts /\ Other \in Contracts
  BY <1>1, PaperConstants DEF PaperTypeOK, Contracts
<1>3. /\ Restored \in [at : SpreadStates, short : Nat, long : Nat, paid : Nat, result : Int]
      /\ Restored.paid = 0 /\ Restored.at # "naked"
      /\ Restored.at # "none" => /\ spread.at # "naked" /\ Restored.at = spread.at
                                 /\ Restored.short = spread.short
                                 /\ Restored.long = spread.long
      /\ Restored.at = "none" => Restored = NoSpread /\ Restored.short = 0
  <2>1. CASE spread.at = "naked"
    BY <2>1 DEF Restored, NoSpread, SpreadStates
  <2>2. CASE spread.at # "naked"
    BY <1>1, <1>2, <2>2 DEF Restored, NoSpread, TradesHavePrices
  <2> QED BY <2>1, <2>2
<1>4. /\ spread' = Restored /\ untold' = 0
      /\ option' = [option EXCEPT !.paid = 0]
      /\ UNCHANGED <<journal, opened>>
      /\ clean' = (clean /\ readable /\ ~Half /\ ~Shared)
      /\ positions' = [c \in Contracts |-> Rebuilt(c)]
      /\ balance' = IF readable THEN Reconciled ELSE InitialCapital
      /\ margin' = [c \in Contracts |->
            IF positions'[c].qty < 0 THEN positions'[c].avg * MarginMultiple ELSE 0]
  BY DEF PaperRestart
<1>5. /\ option'.paid = 0 /\ option'.price = option.price
      /\ option'.open = option.open /\ option'.contract = option.contract
      /\ option' \in [contract : {Long, Other}, price : Nat, open : BOOLEAN, paid : Nat]
  BY <1>2, <1>4
<1>6. \A c \in Contracts : /\ Rebuilt(c).qty \in -1 .. 1 /\ Rebuilt(c).avg \in Nat
                           /\ Rebuilt(c) \in [qty : Int, avg : Nat]
                           /\ positions'[c] = Rebuilt(c)
                           /\ Rebuilt(c).qty < 0 => Rebuilt(c).avg > 0
  BY <1>1, <1>2, <1>3, <1>4, PaperConstants DEF Rebuilt, Flat, TradesHavePrices
<1>7. MarginFollowsShorts' /\ margin' \in [Contracts -> Nat]
  <2>1. ASSUME NEW n \in Nat PROVE /\ n * MarginMultiple \in Nat
                                   /\ n > 0 => n * MarginMultiple > 0
    BY PaperConstants
  <2>2. ASSUME NEW c \in Contracts
        PROVE  margin'[c] \in Nat /\ (margin'[c] > 0 <=> positions'[c].qty < 0)
    BY <1>4, <1>6, <2>1
  <2>3. margin' \in [Contracts -> Nat]
    BY <1>4, <2>2
  <2> QED BY <2>2, <2>3 DEF MarginFollowsShorts
<1>8. TradesHavePrices'
  <2>1. option' = [contract |-> option.contract, price |-> option.price,
                   open |-> option.open, paid |-> 0]
    BY <1>2, <1>4
  <2>2. option = NoOption => option' = NoOption
    BY <2>1 DEF NoOption
  <2>3. option # NoOption => option'.open
    BY <1>1, <1>5 DEF TradesHavePrices
  <2> QED BY <1>1, <1>3, <1>4, <1>5, <2>2, <2>3 DEF TradesHavePrices, NoOption
<1>9. balance' \in Int
  <2>1. \A c \in Contracts : positions'[c].qty * positions'[c].avg \in Int
    BY <1>6
  <2> DEFINE worth == [c \in Contracts |-> positions'[c].qty * positions'[c].avg]
  <2>2. worth[Short] \in Int /\ worth[Long] \in Int /\ worth[Other] \in Int
    BY <1>2, <2>1
  <2>3. balance' = IF readable THEN InitialCapital + journal - Total(worth) ELSE InitialCapital
    BY <1>4 DEF Reconciled
  <2> HIDE DEF worth
  <2> QED BY <1>2, <2>2, <2>3 DEF Total
<1>10. PaperTypeOK'
  BY <1>2, <1>3, <1>4, <1>5, <1>6, <1>7, <1>9 DEF PaperTypeOK
<1>11. BooksAreHeld'
  <2>1. /\ positions'[Short] = Rebuilt(Short) /\ positions'[Long] = Rebuilt(Long)
        /\ positions'[Other] = Rebuilt(Other)
    BY <1>2, <1>6
  <2>2. Rebuilt(Short).qty = IF Restored.at # "none" THEN -1 ELSE 0
    BY <1>2 DEF Rebuilt, Flat
  <2>3. ~Shared => Rebuilt(Long).qty = (IF Restored.at # "none" THEN 1 ELSE 0)
                       + (IF option.open /\ option.contract = Long THEN 1 ELSE 0)
    BY <1>2 DEF Rebuilt, Flat, Shared
  <2>4. Rebuilt(Other).qty = IF option.open /\ option.contract = Other THEN 1 ELSE 0
    BY <1>2 DEF Rebuilt, Flat
  <2>5. clean' => ~Shared /\ Restored.at \in {"none", "open"}
    BY <1>3, <1>4 DEF Half, SpreadStates
  <2> QED BY <1>4, <1>5, <2>1, <2>2, <2>3, <2>4, <2>5 DEF BooksAreHeld, HasShort, HasLong
<1>12. CashIsExplained'
  <2> SUFFICES ASSUME clean' PROVE CashIsExplained'
    BY DEF CashIsExplained
  <2>1. readable /\ ~Half /\ ~Shared /\ Restored.at \in {"none", "open"}
    BY <1>3, <1>4 DEF Half, SpreadStates
  <2> DEFINE worth == [c \in Contracts |-> positions'[c].qty * positions'[c].avg]
             s == IF Restored.at # "none" THEN Restored.short ELSE 0
             l == IF Restored.at # "none" THEN Restored.long ELSE 0
  <2>2. worth[Short] = -s /\ s \in Nat
    BY <1>2, <1>3, <1>6 DEF Rebuilt, Flat
  <2>3. option.open => option.price = option'.price
    BY <1>5
  <2>4. ~option.open => option'.price = 0
    BY <1>1, <1>5 DEF TradesHavePrices, NoOption
  <2>5. worth[Long] + worth[Other] = l + option'.price /\ l \in Nat
        /\ worth[Long] \in Int /\ worth[Other] \in Int
    BY <1>2, <1>3, <1>5, <1>6, <2>1, <2>4 DEF Rebuilt, Flat, Shared
  <2>6. balance' = InitialCapital + journal - (worth[Short] + worth[Long] + worth[Other])
    BY <1>4, <2>1 DEF Reconciled, Total
  <2>7. (HasShort' => s = spread'.short) /\ (~HasShort' => s = 0)
        /\ (HasLong' => l = spread'.long) /\ (~HasLong' => l = 0) /\ ~Half'
    BY <1>3, <1>4, <2>1 DEF HasShort, HasLong, Half
  <2>8. spread'.paid = 0 /\ option'.paid = 0 /\ option'.price \in Nat
    BY <1>3, <1>4, <1>5
  <2> HIDE DEF worth, s, l
  <2> QED BY <1>2, <1>4, <2>2, <2>5, <2>6, <2>7, <2>8 DEF CashIsExplained
<1> QED BY <1>7, <1>8, <1>10, <1>11, <1>12 DEF PaperInv, AccountIsSound

\* The account is that of the trades the engine has made: the positions are those that are
\* open, the cash is what the journal, the open prices and the fees explain, and margin is
\* held for what is short, through restarts (paper_broker.py, the engine's
\* _rebuild_paper_broker_positions() and _reconcile_paper_broker_balance()).
THEOREM PaperAccountIsSound == PaperSpec => [](PaperTypeOK /\ AccountIsSound)
<1>1. PaperInit => PaperInv
  BY PaperInitSound
<1>2. PaperInv /\ [PaperNext]_paperVars => PaperInv'
  <2> SUFFICES ASSUME PaperInv, [PaperNext]_paperVars PROVE PaperInv'
    OBVIOUS
  <2>1. CASE UNCHANGED paperVars
    BY <2>1
       DEF paperVars, brokerVars, PaperInv, PaperTypeOK, TradesHavePrices, AccountIsSound,
           BooksAreHeld, CashIsExplained, MarginFollowsShorts, HasShort, HasLong, Half
  <2>2. CASE PaperNext
    BY <2>2, OptionTrades, SpreadTrades, RestartRebuilds DEF PaperNext
  <2> QED BY <2>1, <2>2
<1>3. PaperInv => PaperTypeOK /\ AccountIsSound
  BY DEF PaperInv
<1> QED BY <1>1, <1>2, <1>3, PTL DEF PaperSpec

-----------------------------------------------------------------------------
(***************************************************************************)
(* The records of the orders.  Every order that a run of the sync has      *)
(* looked at is in one row: the rows of the program are given back to the  *)
(* program's orders, so that a row is inserted only for an order from      *)
(* outside.  It need not be the same order, when several of one shape are  *)
(* without a row, hence the counting.                                      *)
(***************************************************************************)

OrderRecord == [shape : Shapes, row : Nat, status : {"OPEN"} \cup Ended]
RowRecord == [shape : Shapes, id : Nat, status : RowStatuses, by : {"app", "sync"}]

\* The rows that place_order() has not finished with have no order's number yet.
PlacementsSettle ==
    /\ \A r \in flight : rows[r].status = "PENDING"
    /\ \A r \in Unsettled : /\ rows[r].by = "app" /\ rows[r].id = 0
                            /\ \A o \in OrderOf(r) : HasId(o) = {}
    /\ Running => Unsettled = {}

\* A row that has no number is the program's, and waits for one or was refused.
RowsWait ==
    \A r \in Rows : rows[r].id = 0 =>
        /\ rows[r].by = "app"
        /\ \/ rows[r].status \in {"PENDING", "PENDING_VERIFICATION"}
           \/ rows[r].status = "FAILED" /\ OrderOf(r) = {}

OneRowEach ==
    /\ \A r, q \in Rows : rows[r].id # 0 /\ rows[q].id = rows[r].id => q = r
    /\ \A r \in Rows : rows[r].id # 0 => rows[r].shape = broker[rows[r].id].shape
    /\ \A o \in Orders : broker[o].row # 0 =>
          /\ rows[broker[o].row].by = "app"
          /\ rows[broker[o].row].shape = broker[o].shape
          /\ \A p \in Orders : broker[p].row = broker[o].row => p = o

LooksInOrder ==
    /\ run \in {"search", "write"} => next <= Len(snapshot)
    /\ run = "done" => next > Len(snapshot)
    /\ run # "idle" => \A o \in 1 .. next - 1 : o \notin failed => HasId(o) # {}
    /\ run = "search" => HasId(next) = {}
    /\ run = "write" /\ target = 0 => HasId(next) = {} /\ Stuck(broker[next].shape) = {}
    /\ run = "write" /\ target # 0 =>
          \/ target \in HasId(next)
          \/ HasId(next) = {} /\ target \in Stuck(broker[next].shape)

SnapshotIsPast ==
    \A o \in DOMAIN snapshot : snapshot[o] = "OPEN" \/ snapshot[o] = broker[o].status

\* Each row of the sync has an order of its own that is not the program's.
HaveOrders(f) ==
    /\ \A r \in Inserted : broker[f[r]].shape = rows[r].shape
    /\ \A r, q \in Inserted : f[r] = f[q] => r = q
InsertedHaveOrders == \E f \in [Inserted -> Manual] : HaveOrders(f)

RecordsInv ==
    ~overlapped =>
        /\ PlacementsSettle /\ RowsWait /\ OneRowEach /\ LooksInOrder
        /\ SnapshotIsPast /\ RowsAreFollowed /\ InsertedHaveOrders

LEMMA FirstIsLeast ==
    ASSUME NEW S \in SUBSET Nat, S # {}
    PROVE  First(S) \in S
<1>1. PICK x \in S : \A y \in S : ~ (<<y, x>> \in OpToRel(<, Nat))
  BY NatLessThanWellFounded, WFMin
<1>2. ASSUME NEW y \in S PROVE x <= y
  <2>1. y < x => <<y, x>> \in {ss \in Nat \X Nat : ss[1] < ss[2]}
    OBVIOUS
  <2>2. x \in Nat /\ y \in Nat /\ ~ (y < x)
    BY <1>1, <2>1 DEF OpToRel
  <2> QED BY <2>2
<1> QED BY <1>2 DEF First

\* What is known of the two tables as sequences.
LEMMA TablesTyped ==
    ASSUME RecordsTypeOK
    PROVE  /\ Len(rows) \in Nat /\ Rows = 1 .. Len(rows) /\ rows \in Seq(RowRecord)
           /\ Len(broker) \in Nat /\ Orders = 1 .. Len(broker) /\ broker \in Seq(OrderRecord)
           /\ \A r \in Rows : rows[r] \in RowRecord
           /\ \A o \in Orders : broker[o] \in OrderRecord
           /\ Len(snapshot) \in Nat /\ DOMAIN snapshot = 1 .. Len(snapshot)
           /\ Len(snapshot) <= Len(broker)
           /\ \A o \in DOMAIN snapshot : snapshot[o] \in {"OPEN"} \cup Ended
<1>1. /\ rows \in Seq(RowRecord) /\ broker \in Seq(OrderRecord)
      /\ snapshot \in Seq({"OPEN"} \cup Ended)
  BY DEF RecordsTypeOK, RowRecord, OrderRecord
<1>2. /\ Len(rows) \in Nat /\ Rows = 1 .. Len(rows)
      /\ Len(broker) \in Nat /\ Orders = 1 .. Len(broker)
      /\ Len(snapshot) \in Nat /\ DOMAIN snapshot = 1 .. Len(snapshot)
  BY <1>1, LenProperties DEF Rows, Orders
<1>3. \A r \in Rows : rows[r] \in RowRecord
  BY <1>1, <1>2, ElementOfSeq
<1>4. \A o \in Orders : broker[o] \in OrderRecord
  BY <1>1, <1>2, ElementOfSeq
<1>5. \A o \in DOMAIN snapshot : snapshot[o] \in {"OPEN"} \cup Ended
  BY <1>1, <1>2, ElementOfSeq
<1>6. Len(snapshot) <= Len(broker)
  <2>1. DOMAIN snapshot \subseteq Orders
    BY DEF RecordsTypeOK
  <2>2. CASE Len(snapshot) = 0
    BY <1>2, <2>2
  <2>3. CASE Len(snapshot) # 0
    BY <1>2, <2>1, <2>3
  <2> QED BY <2>2, <2>3
<1> QED BY <1>1, <1>2, <1>3, <1>4, <1>5, <1>6

LEMMA RowWritten ==
    ASSUME RecordsTypeOK, NEW r \in Rows, NEW id \in Nat, NEW s \in RowStatuses,
           SetRow(r, id, s)
    PROVE  /\ rows' \in Seq(RowRecord) /\ Rows' = Rows
           /\ rows'[r].id = id /\ rows'[r].status = s
           /\ rows'[r].shape = rows[r].shape /\ rows'[r].by = rows[r].by
           /\ \A q \in Rows \ {r} : rows'[q] = rows[q]
<1> DEFINE e == [rows[r] EXCEPT !.id = id, !.status = s]
<1>1. rows \in Seq(RowRecord) /\ rows[r] \in RowRecord /\ r \in 1 .. Len(rows)
        /\ Rows = 1 .. Len(rows)
  BY TablesTyped
<1>2. /\ e \in RowRecord /\ e.id = id /\ e.status = s
      /\ e.shape = rows[r].shape /\ e.by = rows[r].by
  BY <1>1 DEF RowRecord
<1>3. rows' = [rows EXCEPT ![r] = e]
  BY <1>1 DEF SetRow, Rows
<1> HIDE DEF e
<1>4. /\ rows' \in Seq(RowRecord) /\ Len(rows') = Len(rows)
      /\ \A q \in 1 .. Len(rows) : rows'[q] = IF q = r THEN e ELSE rows[q]
  BY <1>1, <1>2, <1>3, ExceptSeq
<1>5. Rows' = 1 .. Len(rows')
  BY <1>4, LenProperties DEF Rows
<1> QED BY <1>1, <1>2, <1>4, <1>5

LEMMA RowAdded ==
    ASSUME RecordsTypeOK, NEW e \in RowRecord, rows' = Append(rows, e)
    PROVE  /\ rows' \in Seq(RowRecord) /\ Rows' = Rows \cup {Len(rows) + 1}
           /\ Len(rows) + 1 \notin Rows /\ Len(rows) + 1 # 0
           /\ rows'[Len(rows) + 1] = e
           /\ \A q \in Rows : rows'[q] = rows[q]
<1>1. rows \in Seq(RowRecord) /\ Rows = 1 .. Len(rows) /\ Len(rows) \in Nat
  BY TablesTyped
<1>2. /\ rows' \in Seq(RowRecord) /\ Len(rows') = Len(rows) + 1
      /\ \A q \in 1 .. Len(rows) : rows'[q] = rows[q]
      /\ rows'[Len(rows) + 1] = e
  BY <1>1, AppendProperties
<1>3. Rows' = 1 .. Len(rows')
  BY <1>2, LenProperties DEF Rows
<1> QED BY <1>1, <1>2, <1>3

LEMMA OrderAdded ==
    ASSUME RecordsTypeOK, NEW e \in OrderRecord, broker' = Append(broker, e)
    PROVE  /\ broker' \in Seq(OrderRecord) /\ Orders' = Orders \cup {Len(broker) + 1}
           /\ Len(broker) + 1 \notin Orders /\ Len(broker) + 1 # 0
           /\ broker'[Len(broker) + 1] = e
           /\ \A o \in Orders : broker'[o] = broker[o]
<1>1. broker \in Seq(OrderRecord) /\ Orders = 1 .. Len(broker) /\ Len(broker) \in Nat
  BY TablesTyped
<1>2. /\ broker' \in Seq(OrderRecord) /\ Len(broker') = Len(broker) + 1
      /\ \A q \in 1 .. Len(broker) : broker'[q] = broker[q]
      /\ broker'[Len(broker) + 1] = e
  BY <1>1, AppendProperties
<1>3. Orders' = 1 .. Len(broker')
  BY <1>2, LenProperties DEF Orders
<1> QED BY <1>1, <1>2, <1>3

\* When the sync knows no row for an order, and none of its shape waits for one, some
\* order of that shape is not the program's and has no row of the sync: were each of them
\* one or the other, all orders of the shape would have rows of their own, that know
\* other orders than this one.
LEMMA ManualIsLeft ==
    ASSUME RecordsTypeOK, RowsWait, OneRowEach, Unsettled = {},
           NEW f \in [Inserted -> Manual], HaveOrders(f),
           NEW o \in Orders, HasId(o) = {}, Stuck(broker[o].shape) = {}
    PROVE  \E m \in Manual : /\ broker[m].shape = broker[o].shape
                             /\ \A r \in Inserted : f[r] # m
<1> SUFFICES ASSUME \A m \in Manual : broker[m].shape = broker[o].shape =>
                        \E r \in Inserted : f[r] = m
             PROVE  FALSE
  OBVIOUS
<1> DEFINE S == {p \in Orders : broker[p].shape = broker[o].shape}
           g == [p \in S |-> IF broker[p].row # 0 THEN broker[p].row
                             ELSE CHOOSE r \in Inserted : f[r] = p]
           h == [p \in S |-> rows[g[p]].id]
<1>1. /\ \A r \in Rows : rows[r] \in RowRecord /\ rows[r].id \in {0} \cup Orders
      /\ \A p \in Orders : broker[p].row \in {0} \cup Rows
      /\ Inserted \subseteq Rows /\ 0 \notin Orders
  BY TablesTyped DEF RecordsTypeOK, Inserted
<1>2. ASSUME NEW p \in S, broker[p].row # 0
      PROVE  /\ g[p] = broker[p].row /\ g[p] \in Rows /\ rows[g[p]].by = "app"
             /\ rows[g[p]].id # 0 /\ rows[g[p]].shape = broker[o].shape
  <2> DEFINE r == broker[p].row
  <2>1. g[p] = r /\ r \in Rows /\ rows[r].by = "app" /\ rows[r].shape = broker[o].shape
    BY <1>1, <1>2 DEF OneRowEach
  <2>2. p \in OrderOf(r) /\ r \notin Unsettled /\ r \notin Stuck(broker[o].shape)
    BY DEF OrderOf
  <2>3. rows[r].status # "PENDING_VERIFICATION"
    BY <2>1, <2>2 DEF Unsettled
  <2>4. rows[r].id = 0 => rows[r].status # "PENDING"
    BY <1>1, <2>1, <2>2 DEF Stuck, RowRecord
  <2> QED BY <2>1, <2>2, <2>3, <2>4 DEF RowsWait
<1>3. ASSUME NEW p \in S, broker[p].row = 0
      PROVE  /\ g[p] \in Inserted /\ f[g[p]] = p /\ g[p] \in Rows /\ rows[g[p]].by = "sync"
             /\ rows[g[p]].id # 0 /\ rows[g[p]].shape = broker[o].shape
  <2>1. p \in Manual
    BY <1>3 DEF Manual
  <2>2. g[p] \in Inserted /\ f[g[p]] = p
    BY <1>3, <2>1
  <2> QED BY <1>1, <2>2 DEF HaveOrders, Inserted, RowsWait
<1> HIDE DEF g
<1>4. ASSUME NEW p \in S PROVE h[p] \in S \ {o}
  <2>1. g[p] \in Rows /\ rows[g[p]].id # 0 /\ rows[g[p]].shape = broker[o].shape
    BY <1>2, <1>3
  <2> QED BY <1>1, <2>1 DEF OneRowEach, HasId
<1>5. ASSUME NEW p \in S, NEW q \in S, h[p] = h[q] PROVE p = q
  <2>1. g[p] = g[q]
    BY <1>2, <1>3, <1>5 DEF OneRowEach
  <2>2. CASE broker[p].row # 0
    BY <1>2, <1>3, <2>1, <2>2 DEF OneRowEach
  <2>3. CASE broker[p].row = 0
    BY <1>2, <1>3, <2>1, <2>3
  <2> QED BY <2>2, <2>3
<1>6. IsFiniteSet(S)
  <2>1. Len(broker) \in Nat /\ Orders = 1 .. Len(broker)
    BY TablesTyped
  <2>2. IsFiniteSet(Orders)
    BY <2>1, FS_Interval
  <2> QED BY <2>2, FS_Subset
<1> HIDE DEF h, S
<1>7. h \in Injection(S, S \ {o})
  <2>1. h \in [S -> S \ {o}]
    BY <1>4 DEF h
  <2> QED BY <1>5, <2>1 DEF Injection, IsInjective
<1>8. o \in S
  BY DEF S
<1>9. /\ Cardinality(S) <= Cardinality(S \ {o}) /\ Cardinality(S) \in Nat
      /\ Cardinality(S \ {o}) = Cardinality(S) - 1
  BY <1>6, <1>7, <1>8, FS_Injection, FS_RemoveElement, FS_CardinalityType
<1> QED BY <1>9

LEMMA OrderEnded ==
    ASSUME RecordsTypeOK, NEW o \in Orders, NEW s \in Ended,
           broker' = [broker EXCEPT ![o].status = s]
    PROVE  /\ broker' \in Seq(OrderRecord) /\ Orders' = Orders
           /\ broker'[o].status = s
           /\ broker'[o].shape = broker[o].shape /\ broker'[o].row = broker[o].row
           /\ \A p \in Orders \ {o} : broker'[p] = broker[p]
<1> DEFINE e == [broker[o] EXCEPT !.status = s]
<1>1. broker \in Seq(OrderRecord) /\ broker[o] \in OrderRecord /\ o \in 1 .. Len(broker)
        /\ Orders = 1 .. Len(broker)
  BY TablesTyped
<1>2. /\ e \in OrderRecord /\ e.status = s
      /\ e.shape = broker[o].shape /\ e.row = broker[o].row
  BY <1>1 DEF OrderRecord
<1>3. broker' = [broker EXCEPT ![o] = e]
  BY <1>1 DEF Orders
<1> HIDE DEF e
<1>4. /\ broker' \in Seq(OrderRecord) /\ Len(broker') = Len(broker)
      /\ \A p \in 1 .. Len(broker) : broker'[p] = IF p = o THEN e ELSE broker[p]
  <2> DEFINE f == [broker EXCEPT ![o] = e]
  <2>1. /\ f \in Seq(OrderRecord) /\ Len(f) = Len(broker)
        /\ \A p \in 1 .. Len(broker) : f[p] = IF p = o THEN e ELSE broker[p]
    BY <1>1, <1>2, ExceptSeq
  <2> HIDE DEF f
  <2>2. broker' = f
    BY <1>3 DEF f
  <2> QED BY <2>1, <2>2
<1>5. Orders' = 1 .. Len(broker')
  BY <1>4, LenProperties DEF Orders
<1> QED BY <1>1, <1>2, <1>4, <1>5

\* What a change of the broker's orders, or of the rows, leaves to be shown of the types.
LEMMA TypesKept ==
    ASSUME RecordsTypeOK,
           broker' \in Seq(OrderRecord), Orders \subseteq Orders',
           rows' \in Seq(RowRecord), Rows \subseteq Rows',
           \A o \in Orders' : broker'[o].row \in {0} \cup Rows',
           \A r \in Rows' : rows'[r].id \in {0} \cup Orders',
           flight' \subseteq Rows', overlapped' \in BOOLEAN, mishaps' \in 0 .. MaxMishaps,
           \/ UNCHANGED syncVars
           \/ /\ run' = "look" /\ next' \in 1 .. Len(snapshot) + 1
              /\ UNCHANGED <<snapshot, target, failed, runs>>
    PROVE  RecordsTypeOK'
BY DEF RecordsTypeOK, OrderRecord, RowRecord, RowStatuses, syncVars

\* An order arrives at the broker: one placed by hand, or the first for a row in flight.
LEMMA OrderArrives ==
    ASSUME RecordsTypeOK, RecordsInv, ~overlapped,
           NEW e \in OrderRecord, broker' = Append(broker, e),
           UNCHANGED <<rows, flight, syncVars, overlapped, mishaps>>,
           e.row = 0 \/ (e.row \in flight /\ OrderOf(e.row) = {}
                            /\ e.shape = rows[e.row].shape)
    PROVE  RecordsTypeOK' /\ RecordsInv'
<1> DEFINE n == Len(broker) + 1
<1>1. /\ broker' \in Seq(OrderRecord) /\ Orders' = Orders \cup {n}
      /\ n \notin Orders /\ n # 0 /\ broker'[n] = e
      /\ \A o \in Orders : broker'[o] = broker[o]
  BY OrderAdded
<1>2. /\ PlacementsSettle /\ RowsWait /\ OneRowEach /\ LooksInOrder
      /\ SnapshotIsPast /\ RowsAreFollowed /\ InsertedHaveOrders
  BY DEF RecordsInv
<1>3. /\ rows \in Seq(RowRecord) /\ DOMAIN snapshot \subseteq Orders
      /\ DOMAIN snapshot = 1 .. Len(snapshot) /\ Len(snapshot) \in Nat
      /\ next \in 1 .. Len(snapshot) + 1
      /\ \A o \in Orders : broker[o].row \in {0} \cup Rows
      /\ \A r \in Rows : rows[r].id \in {0} \cup Orders
      /\ flight \subseteq Rows /\ 0 \notin Rows
  BY TablesTyped DEF RecordsTypeOK
<1>4. RecordsTypeOK'
  BY <1>1, <1>3, TypesKept DEF RecordsTypeOK, Rows
<1>5. /\ Rows' = Rows /\ Unsettled' = Unsettled /\ Inserted' = Inserted
      /\ Running' = Running /\ \A o : HasId(o)' = HasId(o)
      /\ \A s : Stuck(s)' = Stuck(s) /\ flight \subseteq Unsettled
  BY DEF Rows, Unsettled, Inserted, Running, HasId, Stuck, syncVars
<1>6. HasId(n) = {}
  BY <1>1, <1>3 DEF HasId
<1> HIDE DEF n
<1>7. ASSUME NEW r \in Rows
      PROVE  OrderOf(r)' = OrderOf(r) \/ (r = e.row /\ OrderOf(r)' = {n})
  <2>1. OrderOf(r)' = OrderOf(r) \cup {o \in {n} : broker'[o].row = r}
    BY <1>1 DEF OrderOf
  <2>2. CASE r = e.row
    <3>1. OrderOf(r) = {}
      BY <1>3, <2>2
    <3> QED BY <1>1, <2>1, <2>2, <3>1
  <2>3. CASE r # e.row
    BY <1>1, <2>1, <2>3
  <2> QED BY <2>2, <2>3
<1>8. PlacementsSettle'
  BY <1>2, <1>3, <1>5, <1>6, <1>7 DEF PlacementsSettle, Unsettled
<1>9. RowsWait'
  <2>1. \A r \in Rows : rows[r].status = "FAILED" => r # e.row
    BY <1>2, <1>3 DEF PlacementsSettle
  <2> QED BY <1>2, <1>5, <1>7, <2>1 DEF RowsWait
<1>10. OneRowEach'
  <2>1. ASSUME NEW r \in Rows, rows[r].id # 0 PROVE rows[r].shape = broker'[rows[r].id].shape
    BY <1>1, <1>2, <1>3, <2>1 DEF OneRowEach
  <2>2. ASSUME NEW o \in Orders', broker'[o].row # 0
        PROVE  /\ rows[broker'[o].row].by = "app"
               /\ rows[broker'[o].row].shape = broker'[o].shape
               /\ \A p \in Orders' : broker'[p].row = broker'[o].row => p = o
    <3>1. CASE o = n
      BY <1>1, <1>2, <1>5, <2>2, <3>1 DEF PlacementsSettle, OrderOf
    <3>2. CASE o # n
      <4>1. o \in Orders /\ broker'[o] = broker[o] /\ broker[o].row # 0
        BY <1>1, <2>2, <3>2
      <4>2. e.row # broker[o].row
        BY <4>1 DEF OrderOf
      <4>3. \A p \in Orders : broker[p].row = broker[o].row => p = o
        BY <1>2, <4>1 DEF OneRowEach
      <4>4. \A p \in Orders' : broker'[p].row = broker'[o].row => p = o
        BY <1>1, <4>1, <4>2, <4>3
      <4> QED BY <1>2, <4>1, <4>4 DEF OneRowEach
    <3> QED BY <3>1, <3>2
  <2> QED BY <1>2, <1>5, <2>1, <2>2 DEF OneRowEach
<1>11. LooksInOrder'
  <2>1. run \in {"search", "write"} => broker'[next] = broker[next]
    <3>1. run \in {"search", "write"} => next <= Len(snapshot)
      BY <1>2 DEF LooksInOrder
    <3>2. run \in {"search", "write"} => next \in Orders
      <4>1. run \in {"search", "write"} => next \in 1 .. Len(snapshot)
        BY <1>3, <3>1
      <4> QED BY <1>3, <4>1
    <3> QED BY <1>1, <3>2
  <2> QED BY <1>2, <1>5, <2>1 DEF LooksInOrder, syncVars
<1>12. SnapshotIsPast' /\ RowsAreFollowed'
  BY <1>1, <1>2, <1>3, <1>5 DEF SnapshotIsPast, RowsAreFollowed, syncVars
<1>13. InsertedHaveOrders'
  <2>1. PICK f \in [Inserted -> Manual] : HaveOrders(f)
    BY <1>2 DEF InsertedHaveOrders
  <2>2. Manual \subseteq Manual' /\ Manual \subseteq Orders
    BY <1>1 DEF Manual
  <2>3. f \in [Inserted' -> Manual'] /\ HaveOrders(f)'
    BY <1>1, <1>5, <2>1, <2>2 DEF HaveOrders
  <2> QED BY <2>3 DEF InsertedHaveOrders
<1> QED BY <1>4, <1>8, <1>9, <1>10, <1>11, <1>12, <1>13 DEF RecordsInv

LEMMA OrderEnds ==
    ASSUME RecordsTypeOK, RecordsInv, ~overlapped, NEW x \in Orders,
           NEW s \in Ended, Ends(x, s)
    PROVE  RecordsTypeOK' /\ RecordsInv'
<1>1. /\ broker[x].status = "OPEN" /\ UNCHANGED <<rows, flight, syncVars, overlapped, mishaps>>
      /\ broker' \in Seq(OrderRecord) /\ Orders' = Orders
      /\ \A o \in Orders : /\ broker'[o].shape = broker[o].shape
                           /\ broker'[o].row = broker[o].row
                           /\ o # x => broker'[o] = broker[o]
  BY OrderEnded DEF Ends
<1>2. /\ PlacementsSettle /\ RowsWait /\ OneRowEach /\ LooksInOrder
      /\ SnapshotIsPast /\ RowsAreFollowed /\ InsertedHaveOrders
  BY DEF RecordsInv
<1>3. /\ rows \in Seq(RowRecord) /\ DOMAIN snapshot \subseteq Orders
      /\ DOMAIN snapshot = 1 .. Len(snapshot) /\ Len(snapshot) \in Nat
      /\ next \in 1 .. Len(snapshot) + 1
      /\ \A o \in Orders : broker[o].row \in {0} \cup Rows
      /\ \A r \in Rows : rows[r].id \in {0} \cup Orders
      /\ flight \subseteq Rows
  BY TablesTyped DEF RecordsTypeOK
<1>4. RecordsTypeOK'
  BY <1>1, <1>3, TypesKept DEF RecordsTypeOK, Rows
<1>5. /\ Rows' = Rows /\ Unsettled' = Unsettled /\ Inserted' = Inserted
      /\ Running' = Running /\ \A o : HasId(o)' = HasId(o)
      /\ \A t : Stuck(t)' = Stuck(t)
  BY <1>1 DEF Rows, Unsettled, Inserted, Running, HasId, Stuck, syncVars
<1>6. (\A r : OrderOf(r)' = OrderOf(r)) /\ Manual' = Manual
  BY <1>1 DEF OrderOf, Manual
<1>7. PlacementsSettle' /\ RowsWait'
  BY <1>1, <1>2, <1>5, <1>6 DEF PlacementsSettle, RowsWait
<1>8. OneRowEach'
  BY <1>1, <1>2, <1>3, <1>5 DEF OneRowEach
<1>9. LooksInOrder'
  <2>1. run \in {"search", "write"} => broker'[next].shape = broker[next].shape
    BY <1>1, <1>2, <1>3 DEF LooksInOrder
  <2> QED BY <1>1, <1>2, <1>5, <2>1 DEF LooksInOrder, syncVars
<1>10. SnapshotIsPast'
  BY <1>1, <1>2, <1>3 DEF SnapshotIsPast, syncVars
<1>11. RowsAreFollowed'
  BY <1>1, <1>2, <1>3, <1>5 DEF RowsAreFollowed, MapBrokerStatus
<1>12. InsertedHaveOrders'
  <2>1. PICK f \in [Inserted -> Manual] : HaveOrders(f)
    BY <1>2 DEF InsertedHaveOrders
  <2>2. Manual \subseteq Orders
    BY DEF Manual
  <2>3. f \in [Inserted' -> Manual'] /\ HaveOrders(f)'
    BY <1>1, <1>5, <1>6, <2>1, <2>2 DEF HaveOrders
  <2> QED BY <2>3 DEF InsertedHaveOrders
<1> QED BY <1>4, <1>7, <1>8, <1>9, <1>10, <1>11, <1>12 DEF RecordsInv

\* A row is written: with the number that it has, or one that no row has yet.
LEMMA RowChanges ==
    ASSUME RecordsTypeOK, RecordsInv, ~overlapped, UNCHANGED broker,
           NEW r \in Rows, NEW id \in Nat, NEW s \in RowStatuses, SetRow(r, id, s),
           \/ id = rows[r].id
           \/ /\ rows[r].id = 0 /\ rows[r].by = "app" /\ id \in Orders
              /\ HasId(id) = {} /\ broker[id].shape = rows[r].shape,
           id # 0 => s \in {"OPEN", MapBrokerStatus(broker[id].status)},
           id = 0 => \/ s \in {"PENDING", "PENDING_VERIFICATION"}
                     \/ s = "FAILED" /\ OrderOf(r) = {}
    PROVE  /\ rows' \in Seq(RowRecord) /\ Rows' = Rows
           /\ \A q \in Rows' : rows'[q].id \in {0} \cup Orders
           /\ RowsWait' /\ OneRowEach' /\ RowsAreFollowed' /\ InsertedHaveOrders'
           /\ \A o : o # 0 => HasId(o)' = HasId(o) \/ (o = id /\ HasId(o)' = {r})
<1>1. /\ PlacementsSettle /\ RowsWait /\ OneRowEach /\ LooksInOrder
      /\ SnapshotIsPast /\ RowsAreFollowed /\ InsertedHaveOrders
  BY DEF RecordsInv
<1>2. /\ rows' \in Seq(RowRecord) /\ Rows' = Rows
      /\ rows'[r].id = id /\ rows'[r].status = s
      /\ rows'[r].shape = rows[r].shape /\ rows'[r].by = rows[r].by
      /\ \A q \in Rows \ {r} : rows'[q] = rows[q]
  BY RowWritten
<1>3. /\ \A o \in Orders : broker[o].row \in {0} \cup Rows
      /\ \A q \in Rows : rows[q].id \in {0} \cup Orders
      /\ \A q : OrderOf(q)' = OrderOf(q) /\ Manual' = Manual /\ Orders' = Orders
      /\ Manual \subseteq Orders
  BY DEF RecordsTypeOK, OrderOf, Manual, Orders
<1>4. \A q \in Rows' : rows'[q].id \in {0} \cup Orders
  BY <1>2, <1>3
<1>5. RowsWait'
  BY <1>1, <1>2, <1>3 DEF RowsWait
<1>6. \A q \in Rows : HasId(id) = {} => rows[q].id # id
  BY DEF HasId
<1>7. OneRowEach'
  <2>1. \A q, t \in Rows : rows'[q].id # 0 /\ rows'[t].id = rows'[q].id => t = q
    BY <1>1, <1>2, <1>6 DEF OneRowEach
  <2>2. \A q \in Rows : rows'[q].id # 0 => rows'[q].shape = broker[rows'[q].id].shape
    BY <1>1, <1>2 DEF OneRowEach
  <2>3. \A q \in Rows : rows'[q].by = rows[q].by /\ rows'[q].shape = rows[q].shape
    BY <1>2
  <2> QED BY <1>1, <1>2, <1>3, <2>1, <2>2, <2>3 DEF OneRowEach
<1>8. RowsAreFollowed'
  BY <1>1, <1>2 DEF RowsAreFollowed, MapBrokerStatus
<1>9. InsertedHaveOrders'
  <2>1. PICK f \in [Inserted -> Manual] : HaveOrders(f)
    BY <1>1 DEF InsertedHaveOrders
  <2>2. Inserted' = Inserted /\ Inserted \subseteq Rows
    BY <1>2 DEF Inserted
  <2>3. \A q \in Rows : rows'[q].shape = rows[q].shape
    BY <1>2
  <2>4. f \in [Inserted' -> Manual'] /\ HaveOrders(f)'
    BY <1>3, <2>1, <2>2, <2>3 DEF HaveOrders
  <2> QED BY <2>4 DEF InsertedHaveOrders
<1>10. ASSUME NEW o, o # 0 PROVE HasId(o)' = HasId(o) \/ (o = id /\ HasId(o)' = {r})
  BY <1>2, <1>6, <1>10 DEF HasId
<1> QED BY <1>2, <1>4, <1>5, <1>7, <1>8, <1>9, <1>10

\* A placement ends, or is verified: the row gets its order's number, or is refused, or
\* is left in doubt.
LEMMA PlacementEnds ==
    ASSUME RecordsTypeOK, RecordsInv, ~overlapped, NEW r \in Unsettled,
           NEW id \in Nat, NEW s, SetRow(r, id, s), flight' = flight \ {r},
           UNCHANGED <<broker, syncVars, overlapped>>, mishaps' \in 0 .. MaxMishaps,
           \/ id \in OrderOf(r) /\ s = "OPEN"
           \/ id = 0 /\ s = "FAILED" /\ OrderOf(r) = {}
           \/ id = 0 /\ s = "PENDING_VERIFICATION"
    PROVE  RecordsTypeOK' /\ RecordsInv'
<1>1. /\ PlacementsSettle /\ OneRowEach /\ LooksInOrder /\ SnapshotIsPast
      /\ flight \subseteq Rows /\ 0 \notin Orders /\ OrderOf(r) \subseteq Orders
      /\ \A o \in Orders : broker[o].row \in {0} \cup Rows
  BY TablesTyped DEF RecordsInv, RecordsTypeOK, OrderOf
<1>2. /\ r \in Rows /\ rows[r].by = "app" /\ rows[r].id = 0 /\ ~Running
      /\ \A o \in OrderOf(r) : HasId(o) = {}
  BY <1>1 DEF PlacementsSettle, Unsettled
<1>3. s \in RowStatuses
  BY DEF RowStatuses
<1>4. id # 0 => /\ id \in Orders /\ HasId(id) = {} /\ s = "OPEN" /\ id \in OrderOf(r)
                /\ broker[id].shape = rows[r].shape
  <2> SUFFICES ASSUME id # 0 PROVE /\ id \in Orders /\ HasId(id) = {} /\ s = "OPEN"
                                   /\ id \in OrderOf(r)
                                   /\ broker[id].shape = rows[r].shape
    OBVIOUS
  <2>1. id \in OrderOf(r) /\ s = "OPEN"
    OBVIOUS
  <2>2. broker[id].row = r /\ r # 0
    BY <1>2, <2>1, TablesTyped DEF OrderOf
  <2> QED BY <1>1, <1>2, <2>1, <2>2 DEF OneRowEach
<1>5. /\ rows' \in Seq(RowRecord) /\ Rows' = Rows
      /\ \A q \in Rows' : rows'[q].id \in {0} \cup Orders
      /\ RowsWait' /\ OneRowEach' /\ RowsAreFollowed' /\ InsertedHaveOrders'
      /\ \A o : o # 0 => HasId(o)' = HasId(o) \/ (o = id /\ HasId(o)' = {r})
  <2>1. /\ id = rows[r].id
           \/ /\ rows[r].id = 0 /\ rows[r].by = "app" /\ id \in Orders
              /\ HasId(id) = {} /\ broker[id].shape = rows[r].shape
        /\ id # 0 => s \in {"OPEN", MapBrokerStatus(broker[id].status)}
    BY <1>2, <1>4
  <2>2. id = 0 => \/ s \in {"PENDING", "PENDING_VERIFICATION"}
                  \/ s = "FAILED" /\ OrderOf(r) = {}
    BY <1>1
  <2> QED BY <1>2, <1>3, <2>1, <2>2, RowChanges
<1>6. /\ rows'[r].id = id /\ rows'[r].status = s /\ rows'[r].by = "app"
      /\ \A q \in Rows \ {r} : rows'[q] = rows[q]
  BY <1>2, <1>3, RowWritten
<1>7. RecordsTypeOK'
  BY <1>1, <1>5, TypesKept DEF RecordsTypeOK, OrderRecord, Orders
<1>8. Unsettled' \subseteq Unsettled /\ (r \in Unsettled' => id = 0)
  BY <1>1, <1>2, <1>4, <1>5, <1>6 DEF Unsettled
<1>9. PlacementsSettle'
  <2>1. \A q \in flight' : rows'[q].status = "PENDING"
    BY <1>1, <1>6 DEF PlacementsSettle
  <2>2. ASSUME NEW q \in Unsettled'
        PROVE  /\ rows'[q].by = "app" /\ rows'[q].id = 0
               /\ \A o \in OrderOf(q)' : HasId(o)' = {}
    <3>1. /\ q \in Unsettled /\ q \in Rows /\ OrderOf(q)' = OrderOf(q)
          /\ rows'[q].by = "app" /\ rows'[q].id = 0
      BY <1>1, <1>6, <1>8 DEF PlacementsSettle, Unsettled, OrderOf, Orders
    <3>2. ASSUME NEW o \in OrderOf(q) PROVE HasId(o)' = {}
      <4>1. o # 0 /\ HasId(o) = {} /\ broker[o].row = q
        BY <1>1, <3>1 DEF PlacementsSettle, OrderOf
      <4>2. o = id => q = r /\ id # 0
        BY <1>4, <4>1 DEF OrderOf
      <4> QED BY <1>5, <1>8, <4>1, <4>2
    <3> QED BY <3>1, <3>2
  <2> QED BY <1>2, <2>1, <2>2 DEF PlacementsSettle, Running, syncVars
<1>10. LooksInOrder'
  <2>1. run \in {"idle", "done"} /\ next \in Nat
    BY <1>2, TablesTyped DEF Running, RecordsTypeOK
  <2>2. \A o \in 1 .. next - 1 : HasId(o) # {} => HasId(o)' # {}
    BY <1>5, <2>1
  <2> QED BY <1>1, <2>1, <2>2 DEF LooksInOrder, syncVars
<1>11. SnapshotIsPast'
  BY <1>1 DEF SnapshotIsPast, syncVars
<1> QED BY <1>5, <1>7, <1>9, <1>10, <1>11 DEF RecordsInv

LEMMA PlacementStays ==
    ASSUME RecordsTypeOK, RecordsInv, ~overlapped, NEW r \in Rows,
           Placement(r) \/ Verify(r)
    PROVE  RecordsTypeOK' /\ RecordsInv'
<1>1. /\ PlacementsSettle /\ LooksInOrder /\ SnapshotIsPast /\ RowsWait /\ OneRowEach
      /\ RowsAreFollowed /\ InsertedHaveOrders /\ flight \subseteq Rows
  BY DEF RecordsInv, RecordsTypeOK
<1>2. /\ r \in Unsettled /\ flight' = flight \ {r} /\ rows[r].id = 0
      /\ UNCHANGED <<broker, syncVars, overlapped>>
  BY <1>1 DEF Placement, Verify, PlacementsSettle, Unsettled
<1>3. mishaps' \in 0 .. MaxMishaps
  <2>1. mishaps \in 0 .. MaxMishaps /\ MaxMishaps \in Nat
    BY RecordsConstants DEF RecordsTypeOK
  <2>2. mishaps' = mishaps \/ Mishap
    BY DEF Placement, Verify
  <2> QED BY <2>1, <2>2 DEF Mishap
<1>4. CASE UNCHANGED rows
  <2>1. RecordsTypeOK'
    BY <1>1, <1>2, <1>3, <1>4, TypesKept, TablesTyped DEF RecordsTypeOK, Rows, Orders
  <2>2. /\ Unsettled' \subseteq Unsettled /\ Running' = Running
        /\ \A o : HasId(o)' = HasId(o) /\ \A q : OrderOf(q)' = OrderOf(q)
        /\ \A t : Stuck(t)' = Stuck(t) /\ Rows' = Rows
    BY <1>2, <1>4 DEF Unsettled, Running, HasId, OrderOf, Stuck, Rows, Orders, syncVars
  <2>3. PlacementsSettle'
    BY <1>1, <1>2, <1>4, <2>2 DEF PlacementsSettle
  <2>4. LooksInOrder' /\ SnapshotIsPast'
    BY <1>1, <1>2, <1>4, <2>2 DEF LooksInOrder, SnapshotIsPast, syncVars
  <2>5. RowsWait' /\ OneRowEach' /\ RowsAreFollowed' /\ InsertedHaveOrders'
    <3>1. RowsWait' /\ RowsAreFollowed'
      BY <1>1, <1>2, <1>4, <2>2 DEF RowsWait, RowsAreFollowed
    <3>2. OneRowEach'
      BY <1>1, <1>2, <1>4 DEF OneRowEach, Rows, Orders
    <3>3. InsertedHaveOrders'
      <4>1. Inserted' = Inserted /\ Manual' = Manual
        BY <1>2, <1>4 DEF Inserted, Manual, Rows, Orders
      <4>2. PICK f \in [Inserted -> Manual] : HaveOrders(f)
        BY <1>1 DEF InsertedHaveOrders
      <4>3. HaveOrders(f)'
        BY <1>2, <1>4, <4>1, <4>2 DEF HaveOrders
      <4> QED BY <4>1, <4>2, <4>3 DEF InsertedHaveOrders
    <3> QED BY <3>1, <3>2, <3>3
  <2> QED BY <2>1, <2>3, <2>4, <2>5 DEF RecordsInv
<1>5. CASE ~UNCHANGED rows
  <2>1. PICK id \in Nat, s \in {"OPEN", "FAILED", "PENDING_VERIFICATION"} :
            /\ SetRow(r, id, s)
            /\ \/ id \in OrderOf(r) /\ s = "OPEN"
               \/ id = 0 /\ s = "FAILED" /\ OrderOf(r) = {}
               \/ id = 0 /\ s = "PENDING_VERIFICATION"
    <3>1. OrderOf(r) \subseteq Nat
      BY TablesTyped DEF OrderOf
    <3>2. CASE \E o \in OrderOf(r) : SetRow(r, o, "OPEN")
      BY <3>1, <3>2
    <3>3. CASE OrderOf(r) = {} /\ SetRow(r, rows[r].id, "FAILED")
      BY <1>2, <3>3
    <3>4. CASE SetRow(r, rows[r].id, "PENDING_VERIFICATION")
      BY <1>2, <3>4
    <3> QED BY <1>5, <3>2, <3>3, <3>4 DEF Placement, Verify
  <2> QED BY <1>2, <1>3, <2>1, PlacementEnds
<1> QED BY <1>4, <1>5

LEMMA FollowStays ==
    ASSUME RecordsTypeOK, RecordsInv, ~overlapped, NEW r \in Rows,
           Follow(r)
    PROVE  RecordsTypeOK' /\ RecordsInv'
<1> DEFINE s == MapBrokerStatus(broker[rows[r].id].status)
<1>1. /\ PlacementsSettle /\ LooksInOrder /\ SnapshotIsPast
      /\ rows[r].id \in Orders /\ rows[r].id \in Nat /\ flight \subseteq Rows
      /\ \A o \in Orders : broker[o].row \in {0} \cup Rows
      /\ broker[rows[r].id].status \in {"OPEN"} \cup Ended
  BY TablesTyped DEF RecordsInv, RecordsTypeOK, Follow, OrderRecord
<1>2. /\ s \in {"OPEN", "COMPLETED"} \cup Ended /\ s \in RowStatuses
      /\ s \notin {"PENDING", "PENDING_VERIFICATION"}
  BY <1>1, RecordsConstants DEF MapBrokerStatus, RowStatuses
<1>3. /\ SetRow(r, rows[r].id, s) /\ rows[r].status = "OPEN" /\ rows[r].id # 0
      /\ UNCHANGED <<broker, flight, syncVars, overlapped, mishaps>>
  BY DEF Follow
<1>4. /\ rows' \in Seq(RowRecord) /\ Rows' = Rows
      /\ \A q \in Rows' : rows'[q].id \in {0} \cup Orders
      /\ RowsWait' /\ OneRowEach' /\ RowsAreFollowed' /\ InsertedHaveOrders'
  BY <1>1, <1>2, <1>3, RowChanges
<1>5. /\ rows'[r].id = rows[r].id /\ rows'[r].status = s /\ rows'[r].by = rows[r].by
      /\ \A q \in Rows \ {r} : rows'[q] = rows[q]
  BY <1>1, <1>2, <1>3, RowWritten
<1> HIDE DEF s
<1>6. RecordsTypeOK'
  BY <1>1, <1>3, <1>4, TypesKept DEF RecordsTypeOK, OrderRecord, Orders
<1>7. /\ \A o : HasId(o)' = HasId(o) /\ \A q : OrderOf(q)' = OrderOf(q)
      /\ \A q \in Rows : rows'[q].by = rows[q].by /\ rows'[q].id = rows[q].id
  BY <1>3, <1>4, <1>5 DEF HasId, OrderOf, Orders
<1>8. Unsettled' = Unsettled /\ Running' = Running /\ r \notin Unsettled
  BY <1>1, <1>2, <1>3, <1>4, <1>5 DEF Unsettled, Running, PlacementsSettle, syncVars
<1>9. PlacementsSettle'
  <2>1. \A q \in flight : q \in Rows /\ q # r
    BY <1>1, <1>8 DEF Unsettled
  <2>2. Unsettled \subseteq Rows
    BY <1>1 DEF Unsettled
  <2> QED BY <1>1, <1>3, <1>5, <1>7, <1>8, <2>1, <2>2 DEF PlacementsSettle
<1>10. \A t : Stuck(t)' = Stuck(t)
  <2>1. \A t : rows[r] # [shape |-> t, id |-> 0, status |-> "PENDING", by |-> "app"]
    BY <1>3
  <2>2. \A t : rows'[r] # [shape |-> t, id |-> 0, status |-> "PENDING", by |-> "app"]
    BY <1>3, <1>5
  <2> QED BY <1>4, <1>5, <2>1, <2>2 DEF Stuck
<1>11. LooksInOrder' /\ SnapshotIsPast'
  BY <1>1, <1>3, <1>7, <1>10 DEF LooksInOrder, SnapshotIsPast, syncVars
<1> QED BY <1>4, <1>6, <1>9, <1>11 DEF RecordsInv

\* place_order() writes its row.
LEMMA PlaceStays ==
    ASSUME RecordsTypeOK, RecordsInv, ~overlapped, NEW shape \in Shapes, Place(shape)
    PROVE  RecordsTypeOK' /\ RecordsInv'
<1> DEFINE n == Len(rows) + 1
           e == [shape |-> shape, id |-> 0, status |-> "PENDING", by |-> "app"]
<1>1. e \in RowRecord
  BY DEF RowRecord, RowStatuses
<1>2. /\ rows' = Append(rows, e) /\ flight' = flight \cup {n}
      /\ overlapped' = (overlapped \/ Running) /\ UNCHANGED <<broker, syncVars, mishaps>>
  BY DEF Place
<1> HIDE DEF e
<1>3. /\ rows' \in Seq(RowRecord) /\ Rows' = Rows \cup {n}
      /\ n \notin Rows /\ n # 0 /\ rows'[n] = e /\ \A q \in Rows : rows'[q] = rows[q]
  BY <1>1, <1>2, RowAdded
<1>4. /\ e.id = 0 /\ e.by = "app" /\ e.status = "PENDING"
  BY DEF e
<1> HIDE DEF n
<1>5. /\ \A o \in Orders : broker[o].row \in {0} \cup Rows
      /\ \A q \in Rows : rows[q].id \in {0} \cup Orders
      /\ flight \subseteq Rows /\ next \in Nat /\ mishaps \in 0 .. MaxMishaps
      /\ overlapped' \in BOOLEAN /\ 0 \notin Orders
  BY <1>2, TablesTyped DEF RecordsTypeOK
<1>6. RecordsTypeOK'
  <2>1. \A q \in Rows' : rows'[q].id \in {0} \cup Orders
    BY <1>3, <1>4, <1>5
  <2>2. flight' \subseteq Rows' /\ broker' \in Seq(OrderRecord) /\ Orders' = Orders
    BY <1>2, <1>3, <1>5, TablesTyped DEF Orders
  <2> QED BY <1>2, <1>3, <1>5, <2>1, <2>2, TypesKept
<1>7. SUFFICES ASSUME ~overlapped' PROVE RecordsInv'
  BY <1>6 DEF RecordsInv
<1>8. ~Running /\ run \in {"idle", "done"} /\ UNCHANGED <<broker, syncVars>>
  BY <1>2, <1>7 DEF Running, RecordsTypeOK
<1>9. /\ PlacementsSettle /\ RowsWait /\ OneRowEach /\ LooksInOrder
      /\ SnapshotIsPast /\ RowsAreFollowed /\ InsertedHaveOrders
  BY DEF RecordsInv
<1>10. /\ \A o : o # 0 => HasId(o)' = HasId(o)
       /\ \A q : OrderOf(q)' = OrderOf(q)
       /\ OrderOf(n) = {} /\ Inserted' = Inserted /\ Manual' = Manual
  <2>1. \A o : o # 0 => HasId(o)' = HasId(o)
    BY <1>3, <1>4 DEF HasId
  <2>2. (\A q : OrderOf(q)' = OrderOf(q)) /\ Manual' = Manual
    BY <1>8 DEF OrderOf, Manual, Orders
  <2>3. OrderOf(n) = {}
    BY <1>3, <1>5 DEF OrderOf
  <2>4. Inserted' = Inserted
    BY <1>3, <1>4 DEF Inserted
  <2> QED BY <2>1, <2>2, <2>3, <2>4
<1>11. PlacementsSettle'
  <2>1. \A q \in flight' : rows'[q].status = "PENDING"
    BY <1>2, <1>3, <1>4, <1>5, <1>9 DEF PlacementsSettle
  <2>2. Unsettled' \subseteq Unsettled \cup {n} /\ Unsettled \subseteq Rows
    BY <1>2, <1>3, <1>4, <1>5 DEF Unsettled
  <2>3. ASSUME NEW q \in Unsettled'
        PROVE  /\ rows'[q].by = "app" /\ rows'[q].id = 0
               /\ \A o \in OrderOf(q)' : HasId(o)' = {}
    <3>1. CASE q = n
      BY <1>3, <1>4, <1>10, <3>1
    <3>2. CASE q # n
      <4>1. q \in Unsettled /\ q \in Rows /\ rows'[q] = rows[q]
        BY <1>3, <2>2, <3>2
      <4>2. \A o \in OrderOf(q) : o # 0
        BY <1>5 DEF OrderOf
      <4> QED BY <1>9, <1>10, <4>1, <4>2 DEF PlacementsSettle
    <3> QED BY <3>1, <3>2
  <2> QED BY <1>8, <2>1, <2>3 DEF PlacementsSettle, Running, syncVars
<1>12. RowsWait' /\ RowsAreFollowed'
  BY <1>3, <1>4, <1>8, <1>9, <1>10 DEF RowsWait, RowsAreFollowed
<1>13. OneRowEach'
  BY <1>3, <1>4, <1>5, <1>8, <1>9 DEF OneRowEach, Orders
<1>14. LooksInOrder' /\ SnapshotIsPast'
  <2>1. \A o \in 1 .. next - 1 : HasId(o)' = HasId(o)
    BY <1>5, <1>10
  <2> QED BY <1>8, <1>9, <2>1 DEF LooksInOrder, SnapshotIsPast, syncVars
<1>15. InsertedHaveOrders'
  <2>1. PICK f \in [Inserted -> Manual] : HaveOrders(f)
    BY <1>9 DEF InsertedHaveOrders
  <2>2. HaveOrders(f)'
    BY <1>3, <1>8, <1>10, <2>1 DEF HaveOrders, Inserted
  <2> QED BY <1>10, <2>1, <2>2 DEF InsertedHaveOrders
<1> QED BY <1>11, <1>12, <1>13, <1>14, <1>15 DEF RecordsInv

\* The order that the sync looks at is one of its snapshot.
LEMMA NextTyped ==
    ASSUME RecordsTypeOK, LooksInOrder, run \in {"search", "write"}
    PROVE  /\ next \in 1 .. Len(snapshot) /\ Len(snapshot) \in Nat /\ next \in Orders
           /\ next \in DOMAIN snapshot /\ next \in Nat /\ next # 0 /\ 0 \notin Orders
           /\ \A o \in Orders : broker[o].row \in {0} \cup Rows
           /\ \A q \in Rows : rows[q].id \in {0} \cup Orders
           /\ snapshot[next] \in {"OPEN"} \cup Ended /\ broker[next] \in OrderRecord
<1>1. /\ next \in 1 .. Len(snapshot) + 1 /\ next <= Len(snapshot)
      /\ DOMAIN snapshot \subseteq Orders
      /\ \A o \in Orders : broker[o].row \in {0} \cup Rows
      /\ \A q \in Rows : rows[q].id \in {0} \cup Orders
  BY DEF RecordsTypeOK, LooksInOrder
<1>2. /\ Len(snapshot) \in Nat /\ DOMAIN snapshot = 1 .. Len(snapshot)
      /\ Orders = 1 .. Len(broker) /\ Len(broker) \in Nat
  BY TablesTyped
<1>3. next \in 1 .. Len(snapshot)
  BY <1>1, <1>2
<1>4. next \in Orders /\ next \in Nat /\ next # 0 /\ 0 \notin Orders
  BY <1>1, <1>2, <1>3
<1>5. snapshot[next] \in {"OPEN"} \cup Ended /\ broker[next] \in OrderRecord
  BY <1>2, <1>3, <1>4, TablesTyped
<1> QED BY <1>1, <1>2, <1>3, <1>4, <1>5

\* The sync writes a row that the program has.
LEMMA WriteStays ==
    ASSUME RecordsTypeOK, RecordsInv, ~overlapped, Write, target # 0
    PROVE  RecordsTypeOK' /\ RecordsInv'
<1> DEFINE s == Current
<1>1. /\ PlacementsSettle /\ LooksInOrder /\ SnapshotIsPast
      /\ run = "write" /\ run' = "look" /\ next' = next + 1 /\ SetRow(target, next, s)
      /\ UNCHANGED <<broker, flight, snapshot, target, failed, overlapped, runs, mishaps>>
      /\ flight \subseteq Rows /\ target \in Rows
  BY DEF RecordsInv, RecordsTypeOK, Write
<1>2. /\ next \in 1 .. Len(snapshot) /\ Len(snapshot) \in Nat /\ next \in Orders
      /\ next \in DOMAIN snapshot /\ next \in Nat /\ next # 0
      /\ \A o \in Orders : broker[o].row \in {0} \cup Rows
      /\ snapshot[next] \in {"OPEN"} \cup Ended /\ 0 \notin Orders
  BY <1>1, NextTyped
<1>3. /\ s \in RowStatuses /\ s \notin {"PENDING", "PENDING_VERIFICATION"}
      /\ s \in {"OPEN", MapBrokerStatus(broker[next].status)}
  BY <1>1, <1>2, RecordsConstants
  DEF Current, MapStatus, MapBrokerStatus, RowStatuses, SnapshotIsPast
<1> HIDE DEF s
<1>4. Running /\ Unsettled = {} /\ flight = {}
  BY <1>1 DEF Running, PlacementsSettle, Unsettled
<1>5. \/ next = rows[target].id
      \/ /\ rows[target].id = 0 /\ rows[target].by = "app" /\ next \in Orders
         /\ HasId(next) = {} /\ broker[next].shape = rows[target].shape
  BY <1>1, <1>2 DEF LooksInOrder, HasId, Stuck
<1>6. /\ rows' \in Seq(RowRecord) /\ Rows' = Rows
      /\ \A q \in Rows' : rows'[q].id \in {0} \cup Orders
      /\ RowsWait' /\ OneRowEach' /\ RowsAreFollowed' /\ InsertedHaveOrders'
      /\ \A o : o # 0 => HasId(o)' = HasId(o) \/ (o = next /\ HasId(o)' = {target})
  BY <1>1, <1>2, <1>3, <1>5, RowChanges
<1>7. /\ rows'[target].id = next /\ rows'[target].status = s
      /\ \A q \in Rows \ {target} : rows'[q] = rows[q]
  BY <1>1, <1>2, <1>3, RowWritten
<1>8. RecordsTypeOK'
  <2>1. next' \in 1 .. Len(snapshot) + 1 /\ mishaps' \in 0 .. MaxMishaps
    BY <1>1, <1>2 DEF RecordsTypeOK
  <2> QED BY <1>1, <1>2, <1>6, <2>1, TypesKept, TablesTyped
          DEF RecordsTypeOK, OrderRecord, Orders
<1>9. Unsettled' = {}
  BY <1>1, <1>3, <1>4, <1>6, <1>7 DEF Unsettled
<1>10. PlacementsSettle'
  BY <1>1, <1>4, <1>9 DEF PlacementsSettle
<1>11. LooksInOrder'
  <2>1. ASSUME NEW o \in 1 .. next, o \notin failed PROVE HasId(o)' # {}
    <3>1. CASE o = next
      <4>1. target \in HasId(o)'
        BY <1>1, <1>6, <1>7, <3>1 DEF HasId
      <4> QED BY <4>1
    <3>2. CASE o # next
      <4>1. o \in 1 .. next - 1 /\ o # 0
        BY <1>2, <3>2
      <4> QED BY <1>1, <1>6, <2>1, <4>1 DEF LooksInOrder
    <3> QED BY <3>1, <3>2
  <2>2. next' - 1 = next
    BY <1>1, <1>2
  <2> QED BY <1>1, <2>1, <2>2 DEF LooksInOrder
<1>12. SnapshotIsPast'
  BY <1>1 DEF SnapshotIsPast
<1> QED BY <1>6, <1>8, <1>10, <1>11, <1>12 DEF RecordsInv

\* The sync adds a row: an order from outside is left for it (ManualIsLeft).
LEMMA WriteAdds ==
    ASSUME RecordsTypeOK, RecordsInv, ~overlapped, Write, target = 0
    PROVE  RecordsTypeOK' /\ RecordsInv'
<1> DEFINE n == Len(rows) + 1
           s == Current
           e == [shape |-> broker[next].shape, id |-> next, status |-> s, by |-> "sync"]
<1>1. /\ PlacementsSettle /\ RowsWait /\ OneRowEach /\ LooksInOrder
      /\ SnapshotIsPast /\ RowsAreFollowed /\ InsertedHaveOrders
      /\ run = "write" /\ run' = "look" /\ next' = next + 1 /\ rows' = Append(rows, e)
      /\ UNCHANGED <<broker, flight, snapshot, target, failed, overlapped, runs, mishaps>>
      /\ flight \subseteq Rows
  BY DEF RecordsInv, RecordsTypeOK, Write
<1>2. /\ next \in 1 .. Len(snapshot) /\ Len(snapshot) \in Nat /\ next \in Orders
      /\ next \in DOMAIN snapshot /\ next \in Nat /\ next # 0
      /\ \A o \in Orders : broker[o].row \in {0} \cup Rows
      /\ \A q \in Rows : rows[q].id \in {0} \cup Orders
      /\ snapshot[next] \in {"OPEN"} \cup Ended /\ broker[next] \in OrderRecord
  BY <1>1, NextTyped
<1>3. /\ s \in RowStatuses /\ s \notin {"PENDING", "PENDING_VERIFICATION"}
      /\ s \in {"OPEN", MapBrokerStatus(broker[next].status)}
  BY <1>1, <1>2, RecordsConstants
  DEF Current, MapStatus, MapBrokerStatus, RowStatuses, SnapshotIsPast
<1> HIDE DEF s
<1>4. e \in RowRecord
  BY <1>2, <1>3 DEF RowRecord, OrderRecord
<1>5. e.shape = broker[next].shape /\ e.id = next /\ e.status = s /\ e.by = "sync"
  OBVIOUS
<1> HIDE DEF e
<1>6. /\ rows' \in Seq(RowRecord) /\ Rows' = Rows \cup {n}
      /\ n \notin Rows /\ n # 0 /\ rows'[n] = e /\ \A q \in Rows : rows'[q] = rows[q]
  BY <1>1, <1>4, RowAdded
<1> HIDE DEF n
<1>7. /\ Running /\ Unsettled = {} /\ flight = {}
      /\ HasId(next) = {} /\ Stuck(broker[next].shape) = {}
  BY <1>1 DEF Running, PlacementsSettle, Unsettled, LooksInOrder
<1>8. RecordsTypeOK'
  <2>1. \A q \in Rows' : rows'[q].id \in {0} \cup Orders
    BY <1>2, <1>5, <1>6
  <2>2. next' \in 1 .. Len(snapshot) + 1 /\ mishaps' \in 0 .. MaxMishaps
    BY <1>1, <1>2 DEF RecordsTypeOK
  <2> QED BY <1>1, <1>2, <1>6, <2>1, <2>2, TypesKept, TablesTyped
          DEF RecordsTypeOK, OrderRecord, Orders
<1>9. PlacementsSettle'
  <2>1. Unsettled' = {}
    BY <1>1, <1>3, <1>5, <1>6, <1>7 DEF Unsettled
  <2> QED BY <1>1, <1>7, <2>1 DEF PlacementsSettle
<1>10. /\ \A q : OrderOf(q)' = OrderOf(q) /\ Manual' = Manual
       /\ Inserted' = Inserted \cup {n} /\ n \notin Inserted /\ Inserted \subseteq Rows
  BY <1>1, <1>5, <1>6 DEF OrderOf, Manual, Orders, Inserted
<1>11. RowsWait' /\ RowsAreFollowed'
  <2>1. RowsWait'
    <3>1. rows'[n].id # 0
      BY <1>2, <1>5, <1>6
    <3> SUFFICES ASSUME NEW q \in Rows, rows[q].id = 0
                 PROVE  /\ rows[q].by = "app"
                        /\ \/ rows[q].status \in {"PENDING", "PENDING_VERIFICATION"}
                           \/ rows[q].status = "FAILED" /\ OrderOf(q)' = {}
      BY <1>6, <3>1 DEF RowsWait
    <3>2. OrderOf(q)' = OrderOf(q)
      BY <1>10
    <3> QED BY <1>1, <3>2 DEF RowsWait
  <2>2. \A q \in Rows : rows[q].id = 0 \/ rows[q].status \in
            {"OPEN", MapBrokerStatus(broker[rows[q].id].status)}
    BY <1>1 DEF RowsAreFollowed
  <2>3. rows'[n].status \in {"OPEN", MapBrokerStatus(broker[rows'[n].id].status)}
    BY <1>3, <1>5, <1>6
  <2>4. RowsAreFollowed'
    BY <1>1, <1>6, <2>2, <2>3 DEF RowsAreFollowed
  <2> QED BY <2>1, <2>4
<1>12. OneRowEach'
  <2>1. \A q \in Rows : rows[q].id # next
    BY <1>7 DEF HasId
  <2>2. rows'[n].id = next /\ rows'[n].shape = broker[next].shape
    BY <1>5, <1>6
  <2>3. ASSUME NEW r \in Rows', NEW q \in Rows', rows'[r].id # 0,
               rows'[q].id = rows'[r].id
        PROVE  q = r
    <3>1. CASE r = n
      BY <1>6, <2>1, <2>2, <2>3, <3>1
    <3>2. CASE r # n /\ q = n
      BY <1>6, <2>1, <2>2, <2>3, <3>2
    <3>3. CASE r # n /\ q # n
      <4>1. r \in Rows /\ q \in Rows /\ rows'[r] = rows[r] /\ rows'[q] = rows[q]
        BY <1>6, <3>3
      <4>2. rows[r].id # 0 /\ rows[q].id = rows[r].id
        BY <2>3, <4>1
      <4> QED BY <1>1, <4>1, <4>2 DEF OneRowEach
    <3> QED BY <3>1, <3>2, <3>3
  <2>4. ASSUME NEW r \in Rows', rows'[r].id # 0
        PROVE  rows'[r].shape = broker[rows'[r].id].shape
    <3>1. CASE r = n
      BY <2>2, <3>1
    <3>2. CASE r # n
      BY <1>1, <1>6, <2>4, <3>2 DEF OneRowEach
    <3> QED BY <3>1, <3>2
  <2>5. \A o \in Orders : broker[o].row # 0 => rows'[broker[o].row] = rows[broker[o].row]
    BY <1>2, <1>6
  <2> QED BY <1>1, <2>3, <2>4, <2>5 DEF OneRowEach, Orders
<1>13. LooksInOrder'
  <2>1. \A o : HasId(o) \subseteq HasId(o)'
    BY <1>6 DEF HasId
  <2>3. ASSUME NEW o \in 1 .. next, o \notin failed PROVE HasId(o)' # {}
    <3>1. CASE o = next
      BY <1>5, <1>6, <3>1 DEF HasId
    <3>2. CASE o # next
      <4>1. o \in 1 .. next - 1
        BY <1>2, <3>2
      <4>2. HasId(o) # {}
        BY <1>1, <2>3, <4>1 DEF LooksInOrder
      <4> QED BY <2>1, <4>2
    <3> QED BY <3>1, <3>2
  <2>4. next' - 1 = next
    BY <1>1, <1>2
  <2> QED BY <1>1, <2>3, <2>4 DEF LooksInOrder
<1>14. SnapshotIsPast'
  BY <1>1 DEF SnapshotIsPast
<1>15. InsertedHaveOrders'
  <2>1. PICK f \in [Inserted -> Manual] : HaveOrders(f)
    BY <1>1 DEF InsertedHaveOrders
  <2>2. PICK m \in Manual : /\ broker[m].shape = broker[next].shape
                            /\ \A r \in Inserted : f[r] # m
    <3>1. PICK o \in Orders : o = next
      BY <1>2
    <3>2. HasId(o) = {} /\ Stuck(broker[o].shape) = {}
      BY <1>7, <3>1
    <3> HIDE DEF HaveOrders
    <3>3. \E m \in Manual : /\ broker[m].shape = broker[o].shape
                            /\ \A r \in Inserted : f[r] # m
      BY <1>1, <1>7, <2>1, <3>2, ManualIsLeft
    <3> QED BY <3>1, <3>3
  <2>3. PICK g : g = [r \in Inserted \cup {n} |-> IF r = n THEN m ELSE f[r]]
    OBVIOUS
  <2>4. g \in [Inserted' -> Manual']
    BY <1>10, <2>1, <2>3
  <2>5. ASSUME NEW r \in Inserted' PROVE broker[g[r]].shape = rows'[r].shape
    BY <1>5, <1>6, <1>10, <2>1, <2>2, <2>3 DEF HaveOrders
  <2>6. ASSUME NEW r \in Inserted', NEW q \in Inserted', g[r] = g[q] PROVE r = q
    BY <1>10, <2>1, <2>2, <2>3, <2>6 DEF HaveOrders
  <2>7. HaveOrders(g)'
    BY <1>1, <2>5, <2>6 DEF HaveOrders
  <2> QED BY <2>4, <2>7 DEF InsertedHaveOrders
<1> QED BY <1>8, <1>9, <1>11, <1>12, <1>13, <1>14, <1>15 DEF RecordsInv

\* A step of the sync that leaves the orders and the rows alone.
LEMMA TablesStay ==
    ASSUME RecordsInv, ~overlapped, UNCHANGED <<broker, rows, flight, overlapped>>,
           Running' => Unsettled = {},
           LooksInOrder', SnapshotIsPast'
    PROVE  RecordsInv'
<1>1. /\ PlacementsSettle /\ RowsWait /\ OneRowEach /\ LooksInOrder
      /\ SnapshotIsPast /\ RowsAreFollowed /\ InsertedHaveOrders
  BY DEF RecordsInv
<1>2. /\ Unsettled' = Unsettled /\ Inserted' = Inserted /\ Manual' = Manual
      /\ \A o : HasId(o)' = HasId(o) /\ \A q : OrderOf(q)' = OrderOf(q)
      /\ Rows' = Rows /\ Orders' = Orders
  BY DEF Unsettled, Inserted, Manual, HasId, OrderOf, Rows, Orders
<1>3. PlacementsSettle' /\ RowsWait'
  BY <1>1, <1>2 DEF PlacementsSettle, RowsWait
<1>4. OneRowEach' /\ RowsAreFollowed'
  BY <1>1, <1>2 DEF OneRowEach, RowsAreFollowed
<1>5. InsertedHaveOrders'
  <2>1. PICK f \in [Inserted -> Manual] : HaveOrders(f)
    BY <1>1 DEF InsertedHaveOrders
  <2>2. HaveOrders(f)'
    BY <1>2, <2>1 DEF HaveOrders
  <2> QED BY <1>2, <2>1, <2>2 DEF InsertedHaveOrders
<1> QED BY <1>3, <1>4, <1>5 DEF RecordsInv

\* kite.orders(): a run has nothing to look for when it begins.
LEMMA FetchStays ==
    ASSUME RecordsTypeOK, RecordsInv, ~overlapped, Fetch
    PROVE  RecordsTypeOK' /\ RecordsInv'
<1>1. /\ run' = "look" /\ runs' = runs + 1 /\ runs < MaxRuns
      /\ snapshot' = [o \in Orders |-> broker[o].status]
      /\ next' = 1 /\ target' = 0 /\ failed' = {}
      /\ overlapped' = (overlapped \/ Unsettled # {})
      /\ UNCHANGED <<broker, rows, flight, mishaps>>
  BY DEF Fetch
<1>2. /\ Orders = 1 .. Len(broker) /\ Len(broker) \in Nat
      /\ \A o \in Orders : broker[o].status \in {"OPEN"} \cup Ended
  BY TablesTyped DEF OrderRecord
<1>3. /\ snapshot' \in Seq({"OPEN"} \cup Ended) /\ DOMAIN snapshot' = Orders
      /\ Len(snapshot') = Len(broker)
  <2> DEFINE q == [o \in 1 .. Len(broker) |-> broker[o].status]
  <2>1. q \in [1 .. Len(broker) -> {"OPEN"} \cup Ended]
    BY <1>2
  <2>2. q \in Seq({"OPEN"} \cup Ended) /\ Len(q) = Len(broker)
    BY <1>2, <2>1, SeqDef, LenProperties
  <2>3. snapshot' = q
    BY <1>1, <1>2
  <2> QED BY <1>2, <2>2, <2>3
<1>4. RecordsTypeOK'
  BY <1>1, <1>2, <1>3, RecordsConstants DEF RecordsTypeOK, Rows, Orders
<1>5. ASSUME ~overlapped' PROVE RecordsInv'
  <2>1. Unsettled = {} /\ UNCHANGED overlapped
    BY <1>1, <1>5 DEF RecordsTypeOK
  <2>2. LooksInOrder'
    BY <1>1 DEF LooksInOrder
  <2>3. SnapshotIsPast'
    BY <1>1 DEF SnapshotIsPast
  <2> QED BY <1>1, <2>1, <2>2, <2>3, TablesStay
<1> QED BY <1>4, <1>5 DEF RecordsInv

\* An order is looked up.
LEMMA LookStays ==
    ASSUME RecordsTypeOK, RecordsInv, ~overlapped, Look
    PROVE  RecordsTypeOK' /\ RecordsInv'
<1> DEFINE known == HasId(next)
<1>1. /\ PlacementsSettle /\ LooksInOrder /\ SnapshotIsPast
      /\ run = "look" /\ next <= Len(snapshot)
      /\ target' = IF known = {} THEN 0 ELSE First(known)
      /\ \/ known = {} /\ run' = "search" /\ next' = next
         \/ known # {} /\ run' = "write" /\ next' = next
         \/ known # {} /\ run' = "look" /\ next' = next + 1
      /\ UNCHANGED <<broker, rows, flight, snapshot, failed, overlapped, runs, mishaps>>
  BY DEF Look, RecordsInv
<1>2. next \in 1 .. Len(snapshot) + 1 /\ Len(snapshot) \in Nat /\ known \in SUBSET Nat
        /\ known \subseteq Rows
  BY TablesTyped DEF RecordsTypeOK, HasId
<1>3. known # {} => First(known) \in known
  BY <1>2, FirstIsLeast
<1>4. RecordsTypeOK'
  <2>1. target' \in {0} \cup Rows /\ next' \in 1 .. Len(snapshot) + 1
    BY <1>1, <1>2, <1>3
  <2>2. run' \in {"idle", "look", "search", "write", "done"}
    BY <1>1
  <2> QED BY <1>1, <2>1, <2>2 DEF RecordsTypeOK, Rows, Orders
<1>5. \A o : HasId(o)' = HasId(o)
  BY <1>1 DEF HasId, Rows
<1>6. \A o \in 1 .. next - 1 : o \notin failed => HasId(o)' # {}
  BY <1>1, <1>5 DEF LooksInOrder
<1>7. LooksInOrder'
  <2>1. CASE known = {} /\ run' = "search" /\ next' = next
    <3>1. HasId(next)' = {}
      BY <1>1, <2>1 DEF HasId, Rows
    <3> QED BY <1>1, <1>6, <2>1, <3>1 DEF LooksInOrder
  <2>2. CASE known # {} /\ run' = "write" /\ next' = next
    <3>1. target' \in HasId(next)' /\ target' # 0
      <4>1. HasId(next)' = known
        BY <1>1, <2>2 DEF HasId, Rows
      <4>2. 0 \notin known
        BY <1>2, TablesTyped
      <4> QED BY <1>1, <1>3, <2>2, <4>1, <4>2
    <3> QED BY <1>1, <1>6, <2>2, <3>1 DEF LooksInOrder
  <2>3. CASE known # {} /\ run' = "look" /\ next' = next + 1
    <3>1. ASSUME NEW o \in 1 .. next, o \notin failed PROVE HasId(o)' # {}
      <4>1. CASE o = next
        <5>1. HasId(o) # {}
          BY <2>3, <4>1
        <5> QED BY <1>1, <5>1 DEF HasId, Rows
      <4>2. CASE o # next
        BY <1>2, <1>6, <3>1, <4>2
      <4> QED BY <4>1, <4>2
    <3>2. next' - 1 = next
      BY <1>2, <2>3
    <3> QED BY <1>1, <2>3, <3>1, <3>2 DEF LooksInOrder
  <2> QED BY <1>1, <2>1, <2>2, <2>3
<1>8. SnapshotIsPast'
  BY <1>1 DEF SnapshotIsPast
<1>9. Running' => Unsettled = {}
  BY <1>1 DEF PlacementsSettle, Running
<1> QED BY <1>1, <1>4, <1>7, <1>8, <1>9, TablesStay

\* A row that waits is looked for.
LEMMA SearchStays ==
    ASSUME RecordsTypeOK, RecordsInv, ~overlapped, Search
    PROVE  RecordsTypeOK' /\ RecordsInv'
<1> DEFINE stuck == Stuck(broker[next].shape)
<1>1. /\ PlacementsSettle /\ LooksInOrder /\ SnapshotIsPast
      /\ run = "search" /\ run' = "write"
      /\ target' = IF stuck = {} THEN 0 ELSE First(stuck)
      /\ UNCHANGED <<broker, rows, flight, snapshot, next, failed, overlapped, runs,
                     mishaps>>
  BY DEF Search, RecordsInv
<1>2. stuck \in SUBSET Nat /\ stuck \subseteq Rows /\ 0 \notin stuck
  BY TablesTyped DEF Stuck
<1>3. stuck # {} => First(stuck) \in stuck
  BY <1>2, FirstIsLeast
<1>4. RecordsTypeOK'
  <2>1. target' \in {0} \cup Rows
    BY <1>1, <1>2, <1>3
  <2> QED BY <1>1, <2>1 DEF RecordsTypeOK, Rows, Orders
<1>5. LooksInOrder'
  <2>1. /\ \A o : HasId(o)' = HasId(o) /\ \A t : Stuck(t)' = Stuck(t)
        /\ HasId(next)' = HasId(next)
        /\ Stuck(broker[next].shape)' = Stuck(broker[next].shape)
    BY <1>1 DEF HasId, Stuck, Rows
  <2> QED BY <1>1, <1>2, <1>3, <2>1 DEF LooksInOrder
<1>6. SnapshotIsPast'
  BY <1>1 DEF SnapshotIsPast
<1>7. Running' => Unsettled = {}
  BY <1>1 DEF PlacementsSettle, Running
<1> QED BY <1>1, <1>4, <1>5, <1>6, <1>7, TablesStay

\* An order is passed over, or the run ends.
LEMMA RunGoesOn ==
    ASSUME RecordsTypeOK, RecordsInv, ~overlapped, Fails \/ Finish
    PROVE  RecordsTypeOK' /\ RecordsInv'
<1>1. /\ PlacementsSettle /\ LooksInOrder /\ SnapshotIsPast /\ Running
      /\ UNCHANGED <<broker, rows, flight, snapshot, target, overlapped, runs>>
  BY DEF Fails, Finish, RecordsInv, Running
<1>2. next \in 1 .. Len(snapshot) + 1 /\ Len(snapshot) \in Nat
        /\ mishaps \in 0 .. MaxMishaps /\ MaxMishaps \in Nat /\ failed \subseteq DOMAIN snapshot
        /\ DOMAIN snapshot = 1 .. Len(snapshot)
  BY TablesTyped, RecordsConstants DEF RecordsTypeOK
<1>3. /\ \A o : HasId(o)' = HasId(o)
  BY <1>1 DEF HasId, Rows
<1>4. CASE Fails
  <2>1. /\ next <= Len(snapshot) /\ mishaps' \in 0 .. MaxMishaps /\ run' = "look"
        /\ failed' = failed \cup {next} /\ next' = next + 1
    BY <1>2, <1>4 DEF Fails, Mishap
  <2>2. RecordsTypeOK'
    <3>1. next' \in 1 .. Len(snapshot) + 1 /\ failed' \subseteq DOMAIN snapshot
      BY <1>2, <2>1
    <3> QED BY <1>1, <2>1, <3>1 DEF RecordsTypeOK, Rows, Orders
  <2>3. ASSUME NEW o \in 1 .. next' - 1, o \notin failed' PROVE HasId(o)' # {}
    <3>1. o \in 1 .. next - 1 /\ o \notin failed /\ run # "idle"
      BY <1>1, <1>2, <2>1, <2>3 DEF Running
    <3> QED BY <1>1, <1>3, <3>1 DEF LooksInOrder
  <2>4. LooksInOrder'
    BY <2>1, <2>3 DEF LooksInOrder
  <2> QED BY <1>1, <2>2, <2>4, TablesStay DEF SnapshotIsPast, PlacementsSettle
<1>5. CASE Finish
  <2>1. run' = "done" /\ next > Len(snapshot) /\ UNCHANGED <<next, failed, mishaps>>
          /\ run # "idle"
    BY <1>5 DEF Finish
  <2>2. RecordsTypeOK'
    BY <1>1, <2>1 DEF RecordsTypeOK, Rows, Orders
  <2>3. LooksInOrder'
    BY <1>1, <1>3, <2>1 DEF LooksInOrder
  <2> QED BY <1>1, <2>1, <2>2, <2>3, TablesStay DEF SnapshotIsPast, Running
<1> QED BY <1>4, <1>5

LEMMA RecordsBegin == RecordsInit => RecordsTypeOK /\ RecordsInv
<1> SUFFICES ASSUME RecordsInit PROVE RecordsTypeOK /\ RecordsInv
  OBVIOUS
<1>1. /\ Rows = {} /\ Orders = {} /\ flight = {} /\ run = "idle" /\ snapshot = <<>>
      /\ DOMAIN snapshot = {} /\ Len(snapshot) = 0 /\ next = 1 /\ Unsettled = {}
      /\ Inserted = {} /\ Manual = {}
  BY DEF RecordsInit, Rows, Orders, Unsettled, Inserted, Manual
<1>2. RecordsTypeOK
  <2>1. \A S : <<>> \in Seq(S)
    BY EmptySeq
  <2>2. broker = <<>> /\ rows = <<>> /\ runs = 0 /\ mishaps = 0 /\ target = 0
          /\ failed = {} /\ overlapped = FALSE
    BY DEF RecordsInit
  <2>3. /\ broker \in Seq([shape : Shapes, row : Nat, status : {"OPEN"} \cup Ended])
        /\ rows \in Seq([shape : Shapes, id : Nat, status : RowStatuses,
                         by : {"app", "sync"}])
        /\ snapshot \in Seq({"OPEN"} \cup Ended)
    BY <1>1, <2>1, <2>2
  <2>4. /\ next \in 1 .. Len(snapshot) + 1 /\ runs \in 0 .. MaxRuns
        /\ mishaps \in 0 .. MaxMishaps
    BY <1>1, <2>2, RecordsConstants
  <2> QED BY <1>1, <2>2, <2>3, <2>4 DEF RecordsTypeOK
<1>3. PlacementsSettle /\ RowsWait /\ OneRowEach /\ SnapshotIsPast /\ RowsAreFollowed
  BY <1>1 DEF PlacementsSettle, RowsWait, OneRowEach, SnapshotIsPast, RowsAreFollowed
<1>4. LooksInOrder
  BY <1>1 DEF LooksInOrder
<1>5. InsertedHaveOrders
  <2> DEFINE f == [r \in {} |-> r]
  <2>1. f \in [Inserted -> Manual] /\ HaveOrders(f)
    BY <1>1 DEF HaveOrders
  <2> QED BY <2>1 DEF InsertedHaveOrders
<1> QED BY <1>2, <1>3, <1>4, <1>5 DEF RecordsInv

LEMMA RecordsStep ==
    RecordsTypeOK /\ RecordsInv /\ [RecordsNext]_recordsVars
        => RecordsTypeOK' /\ RecordsInv'
<1> SUFFICES ASSUME RecordsTypeOK, RecordsInv, [RecordsNext]_recordsVars
             PROVE  RecordsTypeOK' /\ RecordsInv'
  OBVIOUS
<1>1. ASSUME RecordsNext PROVE RecordsTypeOK' /\ RecordsInv'
  <2>1. ~overlapped
    BY <1>1 DEF RecordsNext
  <2>2. ASSUME NEW shape \in Shapes, ByHand(shape) PROVE RecordsTypeOK' /\ RecordsInv'
    <3> DEFINE e == [shape |-> shape, status |-> "OPEN", row |-> 0]
    <3>1. /\ e \in OrderRecord /\ e.row = 0 /\ broker' = Append(broker, e)
          /\ UNCHANGED <<rows, flight, syncVars, overlapped, mishaps>>
      BY <2>2 DEF ByHand, OrderRecord
    <3> HIDE DEF e
    <3> QED BY <2>1, <3>1, OrderArrives
  <2>3. ASSUME NEW shape \in Shapes, Place(shape) PROVE RecordsTypeOK' /\ RecordsInv'
    BY <2>1, <2>3, PlaceStays
  <2>4. ASSUME NEW o \in Orders, NEW status \in Ended, Ends(o, status)
        PROVE  RecordsTypeOK' /\ RecordsInv'
    BY <2>1, <2>4, OrderEnds
  <2>5. ASSUME NEW r \in Rows, Accepted(r) PROVE RecordsTypeOK' /\ RecordsInv'
    <3> DEFINE e == [shape |-> rows[r].shape, status |-> "OPEN", row |-> r]
    <3>1. rows[r] \in RowRecord /\ r \in Nat
      BY TablesTyped
    <3>2. /\ e \in OrderRecord /\ e.row = r /\ e.shape = rows[r].shape
      BY <3>1 DEF OrderRecord, RowRecord
    <3>3. /\ broker' = Append(broker, e) /\ r \in flight /\ OrderOf(r) = {}
          /\ UNCHANGED <<rows, flight, syncVars, overlapped, mishaps>>
      BY <2>5 DEF Accepted
    <3> HIDE DEF e
    <3> QED BY <2>1, <3>2, <3>3, OrderArrives
  <2>6. ASSUME NEW r \in Rows, Placement(r) \/ Verify(r)
        PROVE  RecordsTypeOK' /\ RecordsInv'
    BY <2>1, <2>6, PlacementStays
  <2>7. ASSUME NEW r \in Rows, Follow(r) PROVE RecordsTypeOK' /\ RecordsInv'
    BY <2>1, <2>7, FollowStays
  <2>8. CASE Fetch
    BY <2>1, <2>8, FetchStays
  <2>9. CASE Look
    BY <2>1, <2>9, LookStays
  <2>10. CASE Search
    BY <2>1, <2>10, SearchStays
  <2>11. CASE Write
    BY <2>1, <2>11, WriteStays, WriteAdds
  <2>12. CASE Fails \/ Finish
    BY <2>1, <2>12, RunGoesOn
  <2> QED BY <1>1, <2>2, <2>3, <2>4, <2>5, <2>6, <2>7, <2>8, <2>9, <2>10, <2>11, <2>12
          DEF RecordsNext, Sync
<1>2. CASE UNCHANGED recordsVars
  <2>1. RecordsTypeOK'
    BY <1>2 DEF recordsVars, syncVars, RecordsTypeOK, Rows, Orders
  <2>2. ASSUME ~overlapped' PROVE RecordsInv'
    <3>1. ~overlapped /\ UNCHANGED <<broker, rows, flight, syncVars, overlapped>>
      BY <1>2, <2>2 DEF recordsVars
    <3>2. (\A o : HasId(o)' = HasId(o)) /\ (\A t : Stuck(t)' = Stuck(t))
      BY <3>1 DEF HasId, Stuck, Rows
    <3>3. /\ HasId(next)' = HasId(next)
          /\ Stuck(broker[next].shape)' = Stuck(broker[next].shape)
      BY <3>1 DEF HasId, Stuck, Rows, syncVars
    <3>4. LooksInOrder'
      BY <3>1, <3>2, <3>3 DEF LooksInOrder, RecordsInv, syncVars
    <3>5. SnapshotIsPast' /\ (Running' => Unsettled = {})
      BY <3>1 DEF SnapshotIsPast, Running, RecordsInv, PlacementsSettle, syncVars
    <3> QED BY <3>1, <3>4, <3>5, TablesStay
  <2> QED BY <2>1, <2>2 DEF RecordsInv
<1> QED BY <1>1, <1>2

\* What a run has looked at is in one row each, by the rows that it gave back or found; and
\* those it inserted have orders of their own.
LEMMA InvariantSaysMatch ==
    RecordsTypeOK /\ RecordsInv => RecordsMatch
<1> SUFFICES ASSUME RecordsTypeOK, RecordsInv PROVE RecordsMatch
  OBVIOUS
<1>1. AccountedOnce
  <2> SUFFICES ASSUME run = "done", ~overlapped, NEW o \in DOMAIN snapshot \ failed
               PROVE  Cardinality(HasId(o)) = 1
    BY DEF AccountedOnce
  <2>1. /\ o \in 1 .. next - 1 /\ o # 0
    BY TablesTyped DEF RecordsInv, LooksInOrder, RecordsTypeOK
  <2>2. HasId(o) # {}
    BY <2>1 DEF RecordsInv, LooksInOrder
  <2>3. PICK r \in HasId(o) : TRUE
    BY <2>2
  <2>4. HasId(o) = {r}
    BY <2>1, <2>3 DEF HasId, RecordsInv, OneRowEach
  <2> QED BY <2>4, FS_Singleton
<1>2. InsertedAreManual
  <2> SUFFICES ASSUME ~overlapped PROVE Cardinality(Inserted) <= Cardinality(Manual)
    BY DEF InsertedAreManual
  <2>1. PICK f \in [Inserted -> Manual] : HaveOrders(f)
    BY DEF RecordsInv, InsertedHaveOrders
  <2>2. f \in Injection(Inserted, Manual)
    BY <2>1 DEF HaveOrders, Injection, IsInjective
  <2>3. Orders = 1 .. Len(broker) /\ Len(broker) \in Nat /\ Manual \subseteq Orders
    BY TablesTyped DEF Manual
  <2>4. IsFiniteSet(Orders)
    BY <2>3, FS_Interval
  <2>5. IsFiniteSet(Manual)
    BY <2>3, <2>4, FS_Subset
  <2> QED BY <2>2, <2>5, FS_Injection
<1>3. RowsAreFollowed
  BY DEF RecordsInv, RowsAreFollowed
<1> QED BY <1>1, <1>2, <1>3 DEF RecordsMatch

\* The orders of the day are each in one row after a run, whatever the others did meanwhile;
\* no run inserts more rows than there were orders from outside; and a row that is not
\* followed any more says what became of its order: for any number of orders, shapes, runs
\* and faults (sync_orders_from_zerodha()).
THEOREM RecordsStayMatched == RecordsSpec => [](RecordsTypeOK /\ RecordsMatch)
<1>1. RecordsInit => RecordsTypeOK /\ RecordsInv
  BY RecordsBegin
<1>2. RecordsTypeOK /\ RecordsInv /\ [RecordsNext]_recordsVars => RecordsTypeOK' /\ RecordsInv'
  BY RecordsStep
<1>3. RecordsTypeOK /\ RecordsInv => RecordsTypeOK /\ RecordsMatch
  BY InvariantSaysMatch
<1> QED BY <1>1, <1>2, <1>3, PTL DEF RecordsSpec

-----------------------------------------------------------------------------
(***************************************************************************)
(* What is proved of Subscriptions, for any stocks, positions and          *)
(* restarts.                                                               *)
(***************************************************************************)

\* What Zerodha sends, once the connection is there.
Coming == subscribed \cup opening

\* While set_instrument_tokens() is at work, the ticker's thread has the tokens of before
\* or those of after; what is then pushed makes up for the difference.
TokensMeet ==
    link # "down" =>
        mapped \subseteq Coming \/ (replaced # {} /\ replaced \subseteq Coming)

\* There are tokens, and none that a connection has still to subscribe when it is up.
LinkIsSound ==
    /\ link = "up" => opening = {}
    /\ mapped \subseteq Symbols /\ (mapped = {} => Symbols = {})

\* The symbols of which two positions are held, or were when one of them ended.
SharedIsKnown == held \subseteq Positions /\ HeldTwice \subseteq shared

SubscriptionsInv == TokensMeet /\ LinkIsSound /\ SharedIsKnown /\ HeldIsQuoted

LEMMA SubscriptionsInitInv == SubscriptionsInit => SubscriptionsInv
BY DEF SubscriptionsInit, SubscriptionsInv, TokensMeet, LinkIsSound, SharedIsKnown,
       HeldIsQuoted, HeldTwice

\* The positions and their contracts are left alone.
LEMMA LinkChanges ==
    ASSUME SubscriptionsInv, UNCHANGED bookVars PROVE SharedIsKnown' /\ HeldIsQuoted'
BY DEF SubscriptionsInv, SharedIsKnown, HeldIsQuoted, HeldTwice, bookVars

LEMMA PushKeeps == ASSUME SubscriptionsInv, Push PROVE SubscriptionsInv'
<1>1. /\ replaced # {} /\ replaced' = {} /\ UNCHANGED <<link, mapped, opening, bookVars>>
      /\ link # "down" => subscribed' = (subscribed \cup (mapped \ replaced)) \ (replaced \ mapped)
  BY DEF Push
<1>2. TokensMeet'
  <2>1. CASE link # "down"
    <3>1. mapped \subseteq Coming \/ replaced \subseteq Coming
      BY <2>1 DEF SubscriptionsInv, TokensMeet
    <3>2. mapped \subseteq Coming'
      BY <1>1, <2>1, <3>1 DEF Coming
    <3> QED BY <1>1, <3>2 DEF TokensMeet
  <2> QED BY <1>1, <2>1 DEF TokensMeet
<1>3. LinkIsSound'
  BY <1>1 DEF SubscriptionsInv, LinkIsSound
<1> QED BY <1>1, <1>2, <1>3, LinkChanges DEF SubscriptionsInv

LEMMA ConnectsKeepsTokens ==
    ASSUME SubscriptionsInv, ConnectReads \/ ConnectSubscribes \/ Disconnect \/ SetTokens
    PROVE  SubscriptionsInv'
<1>1. TokensMeet' /\ LinkIsSound'
  <2>1. CASE ConnectReads
    BY <2>1 DEF SubscriptionsInv, TokensMeet, LinkIsSound, Coming, ConnectReads
  <2>2. CASE ConnectSubscribes
    BY <2>2 DEF SubscriptionsInv, TokensMeet, LinkIsSound, Coming, ConnectSubscribes
  <2>3. CASE Disconnect
    BY <2>3 DEF SubscriptionsInv, TokensMeet, LinkIsSound, Disconnect
  <2>4. CASE SetTokens
    <3>1. /\ replaced = {} /\ replaced' = mapped /\ mapped' \subseteq Symbols /\ mapped' # {}
          /\ UNCHANGED <<link, opening, subscribed>>
      BY <2>4 DEF SetTokens
    <3>2. mapped # {} /\ (link # "down" => mapped \subseteq Coming) /\ Coming' = Coming
      BY <3>1 DEF SubscriptionsInv, TokensMeet, LinkIsSound, Coming
    <3> QED BY <3>1, <3>2 DEF SubscriptionsInv, TokensMeet, LinkIsSound
  <2> QED BY <2>1, <2>2, <2>3, <2>4
<1>2. UNCHANGED bookVars
  BY DEF ConnectReads, ConnectSubscribes, Disconnect, SetTokens
<1> QED BY <1>1, <1>2, LinkChanges DEF SubscriptionsInv

\* Two positions of one stock are both kinds of it.
LEMMA SameStock ==
    ASSUME NEW p \in Positions, NEW q \in Positions, p[1] = q[1], p # q
    PROVE  /\ p[1] \in Traded
           /\ {p, q} = {<<p[1], "single">>, <<p[1], "spread">>}
BY DEF Positions

LEMMA EnterKeeps ==
    ASSUME SubscriptionsInv, NEW p \in Positions, Enter(p) PROVE SubscriptionsInv'
<1>1. /\ p \notin held /\ held' = held \cup {p}
      /\ quoted' = (IF rest THEN quoted \cup Legs(p) ELSE quoted)
      /\ shared' = (IF p[1] \in HeldSymbols THEN shared \cup {p[1]} ELSE shared)
      /\ UNCHANGED linkVars /\ rest' = rest
  BY DEF Enter, Register
<1>2. TokensMeet' /\ LinkIsSound'
  BY <1>1 DEF SubscriptionsInv, TokensMeet, LinkIsSound, Coming, linkVars
<1>3. ASSUME NEW s \in HeldTwice' PROVE s \in shared'
  <2>1. s \in Traded /\ <<s, "single">> \in held' /\ <<s, "spread">> \in held'
    BY DEF HeldTwice
  <2>2. CASE s = p[1]
    <3>1. PICK k \in {"single", "spread"} : p = <<s, k>>
      BY <2>2 DEF Positions
    <3>2. PICK j \in {"single", "spread"} : j # k
      OBVIOUS
    <3>3. <<s, j>> \in held /\ <<s, j>>[1] = s
      BY <1>1, <2>1, <3>1, <3>2
    <3>4. s \in HeldSymbols
      BY <3>3 DEF HeldSymbols
    <3> QED BY <1>1, <2>2, <3>4
  <2>3. CASE s # p[1]
    <3>1. <<s, "single">> \in held /\ <<s, "spread">> \in held
      BY <1>1, <2>1, <2>3
    <3>2. s \in shared
      BY <2>1, <3>1 DEF HeldTwice, SubscriptionsInv, SharedIsKnown
    <3> QED BY <1>1, <3>2
  <2> QED BY <2>2, <2>3
<1>4. SharedIsKnown'
  BY <1>1, <1>3 DEF SubscriptionsInv, SharedIsKnown
<1>5. HeldIsQuoted'
  <2> SUFFICES ASSUME rest', NEW q \in held' PROVE q[1] \in shared' \/ Legs(q) \subseteq quoted'
    BY DEF HeldIsQuoted
  <2>1. CASE q = p
    BY <1>1, <2>1
  <2>2. CASE q # p
    BY <1>1, <2>2 DEF SubscriptionsInv, HeldIsQuoted
  <2> QED BY <2>1, <2>2
<1> QED BY <1>2, <1>4, <1>5 DEF SubscriptionsInv

\* What a closed spread takes away are contracts of its own stock.
LEMMA LegsAreOfTheStock ==
    ASSUME NEW p, NEW q, p[1] # q[1] PROVE Legs(p) \cap Legs(q) = {}
<1>1. \A c \in Legs(p) : c[1] = p[1]
  BY DEF Legs
<1>2. \A c \in Legs(q) : c[1] = q[1]
  BY DEF Legs
<1> QED BY <1>1, <1>2

LEMMA ExitKeeps ==
    ASSUME SubscriptionsInv, NEW p \in Positions, Exit(p) PROVE SubscriptionsInv'
<1>1. /\ p \in held /\ held' = held \ {p} /\ shared' = shared /\ rest' = rest
      /\ quoted' \in {quoted, quoted \ Legs(p)} /\ UNCHANGED linkVars
  BY DEF Exit, Unregister
<1>2. TokensMeet' /\ LinkIsSound'
  BY <1>1 DEF SubscriptionsInv, TokensMeet, LinkIsSound, Coming, linkVars
<1>3. SharedIsKnown'
  BY <1>1 DEF SubscriptionsInv, SharedIsKnown, HeldTwice
<1>4. HeldIsQuoted'
  <2> SUFFICES ASSUME rest', NEW q \in held' PROVE q[1] \in shared' \/ Legs(q) \subseteq quoted'
    BY DEF HeldIsQuoted
  <2>1. q \in held /\ q # p /\ q \in Positions
    BY <1>1 DEF SubscriptionsInv, SharedIsKnown
  <2>2. CASE q[1] = p[1]
    <3>1. p[1] \in Traded /\ {p, q} = {<<p[1], "single">>, <<p[1], "spread">>}
      BY <2>1, <2>2, SameStock
    <3>2. p[1] \in HeldTwice
      BY <1>1, <2>1, <3>1 DEF HeldTwice
    <3> QED BY <1>1, <2>2, <3>2 DEF SubscriptionsInv, SharedIsKnown
  <2>3. CASE q[1] # p[1]
    <3>1. Legs(p) \cap Legs(q) = {}
      BY <2>3, LegsAreOfTheStock
    <3>2. q[1] \in shared \/ Legs(q) \subseteq quoted
      BY <1>1, <2>1 DEF SubscriptionsInv, HeldIsQuoted
    <3> QED BY <1>1, <3>1, <3>2
  <2> QED BY <2>2, <2>3
<1> QED BY <1>2, <1>3, <1>4 DEF SubscriptionsInv

\* A new poller knows the contracts of all positions.
LEMMA AttachKeeps ==
    ASSUME SubscriptionsInv, UNCHANGED held,
           Attach \/ (rest' = FALSE /\ shared' = HeldTwice)
    PROVE  SharedIsKnown' /\ HeldIsQuoted'
<1>1. SharedIsKnown'
  BY DEF SubscriptionsInv, SharedIsKnown, HeldTwice, Attach
<1>2. \A p \in held : Legs(p) \subseteq LegsOf(held)
  BY DEF LegsOf
<1> QED BY <1>1, <1>2 DEF HeldIsQuoted, Attach

LEMMA SubscriptionsNextInv ==
    SubscriptionsInv /\ [SubscriptionsNext]_subscriptionVars => SubscriptionsInv'
<1> SUFFICES ASSUME SubscriptionsInv, [SubscriptionsNext]_subscriptionVars
             PROVE  SubscriptionsInv'
  OBVIOUS
<1>1. CASE UNCHANGED subscriptionVars
  <2>1. UNCHANGED linkVars /\ UNCHANGED bookVars
    BY <1>1 DEF subscriptionVars
  <2>2. TokensMeet' /\ LinkIsSound'
    BY <2>1 DEF SubscriptionsInv, TokensMeet, LinkIsSound, Coming, linkVars
  <2> QED BY <2>1, <2>2, LinkChanges DEF SubscriptionsInv
<1>2. CASE Restart
  <2>1. link' = "down" /\ opening' = {} /\ mapped' = Symbols
    BY <1>2 DEF Restart
  <2>2. UNCHANGED held /\ (Attach \/ (rest' = FALSE /\ shared' = HeldTwice))
    BY <1>2 DEF Restart
  <2>3. SharedIsKnown' /\ HeldIsQuoted'
    BY <2>2, AttachKeeps
  <2> QED BY <2>1, <2>3 DEF SubscriptionsInv, TokensMeet, LinkIsSound
<1>3. CASE AttachLate
  <2>1. UNCHANGED linkVars /\ UNCHANGED held /\ Attach
    BY <1>3 DEF AttachLate
  <2>2. TokensMeet' /\ LinkIsSound'
    BY <2>1 DEF SubscriptionsInv, TokensMeet, LinkIsSound, Coming, linkVars
  <2> QED BY <2>1, <2>2, AttachKeeps DEF SubscriptionsInv
<1> QED BY <1>1, <1>2, <1>3, PushKeeps, ConnectsKeepsTokens, EnterKeeps, ExitKeeps
        DEF SubscriptionsNext

\* While a weekly job replaces the tokens under the thread that connects, no stock is left
\* out once both are done; and the contracts of every position are quoted, over restarts
\* and pollers that come late (set_instrument_tokens(), _on_connect(), attach_ltp_poller()).
THEOREM WhatIsHeldIsQuoted == SubscriptionsSpec => [](WantedIsSubscribed /\ HeldIsQuoted)
<1>1. SubscriptionsInit => SubscriptionsInv
  BY SubscriptionsInitInv
<1>2. SubscriptionsInv /\ [SubscriptionsNext]_subscriptionVars => SubscriptionsInv'
  BY SubscriptionsNextInv
<1>3. SubscriptionsInv => WantedIsSubscribed /\ HeldIsQuoted
  BY DEF SubscriptionsInv, TokensMeet, LinkIsSound, Coming, WantedIsSubscribed
<1> QED BY <1>1, <1>2, <1>3, PTL DEF SubscriptionsSpec

-----------------------------------------------------------------------------
(***************************************************************************)
(* What is proved of FeedHealing, for any numbers of days, checks and      *)
(* failures: how long a feed may stay silent in a session.                 *)
(***************************************************************************)

\* Tokens are named after days, and none is issued in advance: who has the one of the day
\* has it from Redis, where it stays for the day.
TokensAreOfDays ==
    /\ day \in Nat /\ token \in 0 .. day /\ feedToken \in 0 .. day
    /\ feedToken = day => token = day

SinceIsTyped == since \in [kind : References, age : 0 .. Stale]

\* What is counted from is there as soon as there is a ticker, and is a connection or a
\* tick as long as it is connected.
SinceIsSet ==
    /\ feed # "none" => since.kind # "none"
    /\ feed = "open" => since.kind \in {"connect", "tick"}

\* Before its first connection of a session, only a token of the day can make the retry
\* thread start the ticker anew.
OldTokenIsFound ==
    phase = "open" /\ since.kind = "attempt" /\ token \notin {NoToken, day, feedToken} =>
        retry # "asleep" /\ feed # "connecting"

\* The checks that found it silent: one, if any, since what it counts from, and one before
\* the retry thread tried again with the token of the day.
ForAge == IF since.age > 0 THEN 1 ELSE 0

SilenceIsCounted ==
    /\ quiet \in Nat
    /\ phase # "open" \/ feed = "none" => quiet = 0
    /\ quiet > ForAge => quiet = ForAge + 1 /\ since.kind = "attempt" /\ feedToken = day

FeedInv ==
    /\ TokensAreOfDays /\ SinceIsTyped /\ SinceIsSet /\ OldTokenIsFound /\ SilenceIsCounted
    /\ RetryOnlyWhenDown

\* What is told of the feed, by what is older than it, changes nothing.
LEMMA SeenIsTyped ==
    ASSUME NEW kind \in {"attempt", "connect", "tick"}, SinceIsTyped, Seen(kind)
    PROVE  /\ SinceIsTyped'
           /\ since' = since \/ since' = [kind |-> kind, age |-> 0]
           /\ kind = "tick" => since' = [kind |-> kind, age |-> 0]
           /\ kind = "connect" => since'.kind \in {"connect", "tick"}
           /\ kind = "attempt" => /\ since'.kind # "none"
                                  /\ since.kind \in {"connect", "tick"} => since' = since
<1>1. CASE kind = "attempt"
  BY <1>1 DEF SinceIsTyped, Seen, Older, References, Stale
<1>2. CASE kind = "connect"
  BY <1>2 DEF SinceIsTyped, Seen, Older, References, Stale
<1>3. CASE kind = "tick"
  BY <1>3 DEF SinceIsTyped, Seen, Older, References, Stale
<1> QED BY <1>1, <1>2, <1>3

LEMMA FeedInitInv == FeedInit => FeedInv
<1> SUFFICES ASSUME FeedInit PROVE FeedInv
  OBVIOUS
<1>1. /\ day = 1 /\ token = 0 /\ feed = "none" /\ feedToken = 0 /\ retry = "idle"
      /\ since = [kind |-> "none", age |-> 0] /\ quiet = 0
  BY DEF FeedInit, NoToken
<1>2. since.kind = "none" /\ since.age = 0 /\ SinceIsTyped
  BY <1>1 DEF SinceIsTyped, References, Stale
<1> QED BY <1>1, <1>2 DEF FeedInv, TokensAreOfDays, SinceIsSet, OldTokenIsFound,
                          SilenceIsCounted, ForAge, RetryOnlyWhenDown

\* The ticker is left alone: what matters is the token in Redis.
LEMMA TokenChanges ==
    ASSUME FeedInv, token' \in {token, day} \/ (token # day /\ token' = NoToken),
           UNCHANGED <<day, phase, tickerVars, quiet>>
    PROVE  FeedInv'
<1>1. TokensAreOfDays'
  BY DEF FeedInv, TokensAreOfDays, tickerVars, NoToken
<1> QED BY <1>1 DEF FeedInv, SinceIsTyped, SinceIsSet, OldTokenIsFound, SilenceIsCounted,
                    ForAge, RetryOnlyWhenDown, tickerVars

\* A process starts with the token that is in Redis, or without a ticker.
LEMMA LifespanKeeps ==
    ASSUME FeedInv, NEW outage, Lifespan(outage) PROVE FeedInv'
<1>1. /\ UNCHANGED <<day, phase, token>> /\ feedToken' = token /\ retry' = "idle"
      /\ quiet' = 0
      /\ \/ feed' = "connecting" /\ since' = [kind |-> "attempt", age |-> 0]
         \/ feed' = "none" /\ since' = [kind |-> "none", age |-> 0]
  BY DEF Lifespan
<1>2. since' \in [kind : References, age : 0 .. Stale]
  BY <1>1 DEF References, Stale
<1>3. since'.kind \in {"none", "attempt"} /\ since'.age = 0
  BY <1>1
<1>4. feed' # "none" => since'.kind # "none"
  BY <1>1
<1>5. TokensAreOfDays' /\ SinceIsTyped' /\ SinceIsSet'
  BY <1>1, <1>2, <1>3, <1>4 DEF FeedInv, TokensAreOfDays, SinceIsTyped, SinceIsSet
<1>6. OldTokenIsFound' /\ SilenceIsCounted' /\ RetryOnlyWhenDown'
  BY <1>1, <1>3 DEF OldTokenIsFound, SilenceIsCounted, ForAge, RetryOnlyWhenDown
<1> QED BY <1>5, <1>6 DEF FeedInv

LEMMA ConnectsKeeps == ASSUME FeedInv, Connects \/ Ticks PROVE FeedInv'
<1>1. /\ UNCHANGED <<day, phase, token, feedToken, retry>> /\ quiet' = 0
      /\ feed' = "open" /\ feed \in {"open", "connecting"}
      /\ Seen("connect") \/ Seen("tick")
  BY DEF Connects, Ticks, redisVars
<1>2. SinceIsTyped' /\ since'.kind \in {"connect", "tick"}
  BY <1>1, SeenIsTyped DEF FeedInv, References
<1>3. TokensAreOfDays' /\ SinceIsSet' /\ OldTokenIsFound' /\ RetryOnlyWhenDown'
  BY <1>1, <1>2 DEF FeedInv, TokensAreOfDays, SinceIsSet, OldTokenIsFound, RetryOnlyWhenDown
<1>4. SilenceIsCounted'
  BY <1>1, <1>2 DEF SilenceIsCounted, ForAge, SinceIsTyped, References, Stale
<1> QED BY <1>2, <1>3, <1>4 DEF FeedInv

LEMMA DropsKeeps == ASSUME FeedInv, TokenRefused \/ Drops PROVE FeedInv'
<1>1. /\ UNCHANGED <<day, phase, token, feedToken, since, quiet>>
      /\ feed \in {"open", "connecting"} /\ feed' \in {"connecting", "closed", "mute"}
      /\ feed' = "closed" \/ UNCHANGED retry
  BY DEF TokenRefused, Drops, redisVars
<1>2. TokensAreOfDays' /\ SinceIsTyped' /\ SinceIsSet' /\ RetryOnlyWhenDown'
  BY <1>1 DEF FeedInv, TokensAreOfDays, SinceIsTyped, SinceIsSet, RetryOnlyWhenDown
<1>3. OldTokenIsFound'
  BY <1>1 DEF FeedInv, SinceIsSet, OldTokenIsFound
<1>4. SilenceIsCounted'
  BY <1>1 DEF FeedInv, SilenceIsCounted, ForAge
<1> QED BY <1>2, <1>3, <1>4 DEF FeedInv

LEMMA RetryChecksKeeps == ASSUME FeedInv, RetryChecks PROVE FeedInv'
<1>1. /\ retry = "asleep" /\ feed = "closed" /\ UNCHANGED <<day, phase, token, quiet>>
      /\ \/ /\ token \notin {NoToken, feedToken} /\ feedToken' = token
            /\ feed' \in {"connecting", "mute"} /\ Seen("attempt") /\ retry' = "starting"
         \/ /\ retry' \in {"idle", "asleep"} /\ UNCHANGED <<feed, feedToken, since>>
  BY DEF RetryChecks, StartTicker, redisVars, FeedInv, RetryOnlyWhenDown
<1>2. CASE retry' \in {"idle", "asleep"} /\ UNCHANGED <<feed, feedToken, since>>
  BY <1>1, <1>2 DEF FeedInv, TokensAreOfDays, SinceIsTyped, SinceIsSet, OldTokenIsFound,
                    SilenceIsCounted, ForAge, RetryOnlyWhenDown
<1>3. CASE /\ token \notin {NoToken, feedToken} /\ feedToken' = token
           /\ feed' \in {"connecting", "mute"} /\ Seen("attempt") /\ retry' = "starting"
  <2>1. /\ SinceIsTyped' /\ since'.kind # "none"
        /\ since' = since \/ (since' = [kind |-> "attempt", age |-> 0]
                              /\ since.kind \notin {"connect", "tick"})
    BY <1>3, SeenIsTyped DEF FeedInv, References
  <2>2. TokensAreOfDays' /\ SinceIsSet' /\ OldTokenIsFound' /\ RetryOnlyWhenDown'
    BY <1>1, <1>3, <2>1 DEF FeedInv, TokensAreOfDays, SinceIsSet, OldTokenIsFound,
                            RetryOnlyWhenDown
  <2>3. since.kind \in References /\ since.age \in 0 .. Stale /\ since.kind # "none"
        /\ quiet \in Nat
    BY <1>1 DEF FeedInv, SinceIsTyped, SinceIsSet, SilenceIsCounted, ForAge
  <2>4. since.kind = "attempt" /\ quiet # 0 => token = day /\ feedToken # day
    <3>1. phase # "open" => quiet = 0
      BY DEF FeedInv, SilenceIsCounted, ForAge
    <3>2. phase = "open" /\ since.kind = "attempt" => token \in {NoToken, day, feedToken}
      BY <1>1 DEF FeedInv, OldTokenIsFound
    <3> QED BY <1>3, <3>1, <3>2
  <2>5. /\ quiet \in Nat /\ (phase # "open" => quiet = 0)
        /\ quiet > ForAge =>
              quiet = ForAge + 1 /\ since.kind = "attempt" /\ feedToken = day
    BY DEF FeedInv, SilenceIsCounted
  <2>6. SilenceIsCounted'
    <3>1. CASE since' = since
      <4>1. ~(quiet > ForAge)
        BY <2>3, <2>4, <2>5 DEF ForAge
      <4> QED BY <1>1, <1>3, <2>5, <3>1, <4>1 DEF SilenceIsCounted, ForAge
    <3>2. CASE /\ since' = [kind |-> "attempt", age |-> 0]
               /\ since.kind \notin {"connect", "tick"}
      <4>1. since.kind = "attempt" /\ since'.age = 0 /\ since'.kind = "attempt"
        BY <2>3, <3>2 DEF References
      <4>2. quiet # 0 => quiet = 1 /\ feedToken' = day
        BY <1>3, <2>3, <2>4, <2>5, <4>1 DEF ForAge
      <4> QED BY <1>1, <1>3, <2>5, <4>1, <4>2 DEF SilenceIsCounted, ForAge
    <3> QED BY <2>1, <3>1, <3>2
  <2> QED BY <2>1, <2>2, <2>6 DEF FeedInv
<1> QED BY <1>1, <1>2, <1>3

LEMMA HealProvisionKeeps == ASSUME FeedInv, HealProvision PROVE FeedInv'
<1>1. /\ UNCHANGED <<day, phase, token, retry, quiet>> /\ token # NoToken
      /\ \/ feed = "none" /\ feed' = "connecting" /\ feedToken' = token /\ Seen("attempt")
         \/ UNCHANGED <<feed, feedToken, since>>
  BY DEF HealProvision, StartTicker
<1>2. CASE UNCHANGED <<feed, feedToken, since>>
  BY <1>1, <1>2, TokenChanges DEF FeedInv, TokensAreOfDays, SinceIsTyped, SinceIsSet,
     OldTokenIsFound, SilenceIsCounted, ForAge, RetryOnlyWhenDown
<1>3. CASE /\ feed = "none" /\ feed' = "connecting" /\ feedToken' = token
           /\ Seen("attempt")
  <2>1. SinceIsTyped' /\ since'.kind # "none" /\ since'.age \in 0 .. Stale
    <3>1. SinceIsTyped' /\ since'.kind # "none"
      BY <1>3, SeenIsTyped DEF FeedInv, References
    <3> QED BY <3>1 DEF SinceIsTyped
  <2>2. TokensAreOfDays' /\ SinceIsSet' /\ OldTokenIsFound' /\ RetryOnlyWhenDown'
    BY <1>1, <1>3, <2>1 DEF FeedInv, TokensAreOfDays, SinceIsSet, OldTokenIsFound,
                            RetryOnlyWhenDown
  <2>3. SilenceIsCounted'
    BY <1>1, <1>3, <2>1 DEF FeedInv, SilenceIsCounted, ForAge
  <2> QED BY <2>1, <2>2, <2>3 DEF FeedInv
<1> QED BY <1>1, <1>2, <1>3

\* A check makes the reference older; one of a watched feed counts, if it is not yet stale.
LEMMA CheckKeeps ==
    ASSUME FeedInv, since' = [since EXCEPT !.age = CheckAge],
           UNCHANGED <<day, phase, feed, feedToken, retry>>,
           token' = token \/ token' = day,
           quiet' = quiet \/ (quiet' = quiet + 1 /\ Watched /\ ~FeedIsStale)
    PROVE  FeedInv'
<1>1. since \in [kind : References, age : 0 .. 2]
  BY DEF FeedInv, SinceIsTyped, Stale
<1>2. /\ since.age \in 0 .. 2 /\ since'.kind = since.kind
      /\ since'.age = (IF since.age < 2 THEN since.age + 1 ELSE since.age)
      /\ since' \in [kind : References, age : 0 .. 2]
  BY <1>1 DEF CheckAge, Stale
<1>3. SinceIsTyped'
  BY <1>2 DEF SinceIsTyped, Stale
<1>4. TokensAreOfDays' /\ SinceIsSet' /\ OldTokenIsFound' /\ RetryOnlyWhenDown'
  BY <1>2 DEF FeedInv, TokensAreOfDays, SinceIsSet, OldTokenIsFound, RetryOnlyWhenDown
<1>5. SilenceIsCounted'
  <2>1. CASE quiet' = quiet
    BY <1>2, <2>1 DEF FeedInv, SilenceIsCounted, ForAge
  <2>2. CASE quiet' = quiet + 1 /\ Watched /\ ~FeedIsStale
    <3>1. feed # "none" /\ phase = "open" /\ since.age = 0
      BY <1>2, <2>2 DEF FeedInv, SinceIsSet, Watched, FeedIsStale, CheckAge, Stale
    <3> QED BY <1>2, <2>2, <3>1 DEF FeedInv, SilenceIsCounted, ForAge
  <2> QED BY <2>1, <2>2
<1> QED BY <1>3, <1>4, <1>5 DEF FeedInv

LEMMA NextPhaseKeeps == ASSUME FeedInv, NextPhase PROVE FeedInv'
<1>1. /\ UNCHANGED <<token, feed, feedToken, retry, since>> /\ quiet' = 0 /\ ~Due
      /\ day' = day \/ (day' = day + 1 /\ phase' # "open")
  BY DEF NextPhase, redisVars, tickerVars
<1>2. TokensAreOfDays' /\ SinceIsTyped' /\ SinceIsSet' /\ RetryOnlyWhenDown'
  BY <1>1 DEF FeedInv, TokensAreOfDays, SinceIsTyped, SinceIsSet, RetryOnlyWhenDown
<1>3. OldTokenIsFound'
  BY <1>1 DEF FeedInv, TokensAreOfDays, OldTokenIsFound, Due, Works
<1>4. SilenceIsCounted'
  BY <1>1 DEF FeedInv, SinceIsTyped, SilenceIsCounted, ForAge, Stale
<1> QED BY <1>2, <1>3, <1>4 DEF FeedInv

LEMMA FeedNextInv == FeedInv /\ [FeedNext]_feedVars => FeedInv'
<1> SUFFICES ASSUME FeedInv, [FeedNext]_feedVars PROVE FeedInv'
  OBVIOUS
<1>1. CASE DailyAuth \/ TokenExpires
  <2>1. token' \in {token, day} \/ (token # day /\ token' = NoToken)
    BY <1>1 DEF DailyAuth, TokenExpires, LogsIn, LoginFails, CachesFail, redisVars, Works
  <2>2. UNCHANGED <<day, phase, tickerVars, quiet>>
    BY <1>1 DEF DailyAuth, TokenExpires
  <2> QED BY <2>1, <2>2, TokenChanges
<1>2. CASE LotsExpire \/ Wedge \/ UNCHANGED feedVars
  <2>1. UNCHANGED <<day, phase, token, tickerVars, quiet>>
    BY <1>2 DEF LotsExpire, Wedge, redisVars, feedVars
  <2> QED BY <2>1, TokenChanges
<1>3. CASE RetryEnds
  BY <1>3 DEF RetryEnds, redisVars, FeedInv, TokensAreOfDays, SinceIsTyped, SinceIsSet,
              OldTokenIsFound, SilenceIsCounted, ForAge, RetryOnlyWhenDown
<1>4. CASE Deploy \/ DeadMan \/ Watchdog
  BY <1>4, LifespanKeeps DEF Deploy, DeadMan, Watchdog
<1>5. CASE HealLogin \/ HealCaches
  <2>1. /\ since' = [since EXCEPT !.age = CheckAge]
        /\ UNCHANGED <<day, phase, feed, feedToken, retry>>
        /\ quiet' = quiet \/ (quiet' = quiet + 1 /\ Watched /\ ~FeedIsStale)
    BY <1>5 DEF HealLogin, HealCaches
  <2>2. token' = token \/ token' = day
    BY <1>5 DEF HealLogin, HealCaches, LogsIn, LoginFails, CachesFail, redisVars
  <2> QED BY <2>1, <2>2, CheckKeeps
<1> QED BY <1>1, <1>2, <1>3, <1>4, <1>5, ConnectsKeeps, DropsKeeps, RetryChecksKeeps,
           HealProvisionKeeps, NextPhaseKeeps DEF FeedNext, SelfHeal

\* The watchdog restarts the process at the second check that finds the feed silent, or at
\* the third if the retry thread has started it again in between, whatever fails over
\* whatever number of days; and the retry thread never starts a second connection beside
\* one that is there (the tick-staleness watchdog of _kite_self_heal() and
\* _schedule_token_refresh_retry()).
THEOREM SilenceIsShort == FeedSpec => [](SilenceIsNoticed /\ RetryOnlyWhenDown)
<1>1. FeedInit => FeedInv
  BY FeedInitInv
<1>2. FeedInv /\ [FeedNext]_feedVars => FeedInv'
  BY FeedNextInv
<1>3. FeedInv => SilenceIsNoticed /\ RetryOnlyWhenDown
  BY DEF FeedInv, SilenceIsCounted, ForAge, SilenceIsNoticed, Stale
<1> QED BY <1>1, <1>2, <1>3, PTL DEF FeedSpec
=============================================================================
