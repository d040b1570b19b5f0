--------------------------- MODULE MCOrderManager ---------------------------
(* Instances of OrderManager for TLC. *)
EXTENDS OrderProperties

CONSTANTS signal, api, job, admin, call, put, momentum, spread

\* A single-leg entry, a partly fillable one of two lots, its exit, and the
\* two entry legs of a credit spread.
Entry(n) == [symbol |-> call, side |-> "BUY", quantity |-> n,
             strategy |-> momentum, spreadLeg |-> FALSE, exit |-> FALSE]
Exit     == [symbol |-> call, side |-> "SELL", quantity |-> 1,
             strategy |-> momentum, spreadLeg |-> FALSE, exit |-> TRUE]
ShortLeg == [symbol |-> put, side |-> "SELL", quantity |-> 1,
             strategy |-> spread, spreadLeg |-> FALSE, exit |-> FALSE]
LongLeg  == [symbol |-> put, side |-> "BUY", quantity |-> 1,
             strategy |-> spread, spreadLeg |-> TRUE, exit |-> FALSE]

\* POST /orders: no strategy.
Manual   == [symbol |-> call, side |-> "BUY", quantity |-> 1,
             strategy |-> NoStrategy, spreadLeg |-> FALSE, exit |-> FALSE]

\* The signal cycle places rs; POST /orders, where there is one, Manual.
ForCycle(rs) == [c \in Callers |-> IF c = SignalCycle THEN rs ELSE {Manual}]

EntryRequests   == ForCycle({Entry(2)})
LiveRequests    == ForCycle({Entry(1), Exit})
MixedRequests   == ForCycle({Entry(2), ShortLeg})
AllRequests     == ForCycle({Entry(1), Entry(2), Exit, ShortLeg, LongLeg})
=============================================================================
