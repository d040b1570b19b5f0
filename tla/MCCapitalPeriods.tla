-------------------------- MODULE MCCapitalPeriods ---------------------------
(***************************************************************************)
(* CapitalPeriods on a calendar of a few days, with expiries on days 2, 3  *)
(* and 6: a period of one day, and one of three.                           *)
(***************************************************************************)
EXTENDS CapitalPeriods

SmallMonths == 0 .. 5
SmallMonthOf == [d \in 1 .. LastDay |-> <<1, 1, 2, 2, 3, 3, 4>>[d]]
SmallExpiry == [m \in SmallMonths |->
    CASE m = 0 -> 0 [] m = 1 -> 2 [] m = 2 -> 3 [] m = 3 -> 6 [] m = 4 -> 9 [] m = 5 -> 12]

OneAmount == {1}

\* A loss larger than the capital, and a gain.
SmallAmounts == {-3, 1}

NoLegacy == <<>>
\* A period opened before the floors existed.
BrokenLegacy == <<NewRow(1, 2, -1)>>
=============================================================================
