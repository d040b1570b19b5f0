---------------------------- MODULE OrderLedger -----------------------------
(***************************************************************************)
(* What the order manager promises of every order it takes: the book knows *)
(* of an order before the market can, closes it only once the market can   *)
(* no longer fill it, and never opens it again.  OrderManager implements   *)
(* this specification under the mapping of OrderProperties.                *)
(***************************************************************************)
CONSTANT Orders

VARIABLES book,      \* "absent", "working" or "closed": the orders table
          market     \* "none", "resting" or "gone": the broker

Init ==
    /\ book = [o \in Orders |-> "absent"]
    /\ market = [o \in Orders |-> "none"]

Enter(o) ==
    /\ book[o] = "absent"
    /\ \E b \in {"working", "closed"} : book' = [book EXCEPT ![o] = b]
    /\ UNCHANGED market

Rest(o) ==
    /\ book[o] = "working"
    /\ market[o] = "none"
    /\ market' = [market EXCEPT ![o] = "resting"]
    /\ UNCHANGED book

Leave(o) ==
    /\ market[o] = "resting"
    /\ market' = [market EXCEPT ![o] = "gone"]
    /\ UNCHANGED book

Close(o) ==
    /\ book[o] = "working"
    /\ market[o] # "resting"
    /\ book' = [book EXCEPT ![o] = "closed"]
    /\ UNCHANGED market

Next == \E o \in Orders : Enter(o) \/ Rest(o) \/ Leave(o) \/ Close(o)

Spec == Init /\ [][Next]_<<book, market>>
=============================================================================
