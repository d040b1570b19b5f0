--------------------------- MODULE OrderPlacement ----------------------------
(***************************************************************************)
(* One call of ZerodhaBroker.place_order(), src/brokers/zerodha.py: up to  *)
(* three attempts of the same order, told apart from an earlier attempt    *)
(* only by the tag they share, under the wait_for() of OrderManager.       *)
(*                                                                         *)
(* Each attempt runs in a worker thread, which goes on when the coroutine  *)
(* that awaits it is cancelled.  What OrderManager.tla calls the wire of   *)
(* an order is the whole of this call.                                     *)
(***************************************************************************)
EXTENDS Integers, FiniteSets

CONSTANTS
    MaxAttempts,   \* three
    Tagged,        \* a client_order_id was given, so the order has a tag
    Events         \* what may go wrong, a subset of AllEvents

AllEvents == { "lookup_fails",     \* kite.orders() raises in the lookup
               "answer_lost",      \* accepted, but place_order() raises
               "lands_later",      \* place_order() raises, then it is accepted
               "closed_elsewhere", \* a resting order is rejected or cancelled
               "times_out" }       \* wait_for() gives up

ASSUME PlacementConstants ==
    /\ MaxAttempts \in Nat \ {0}
    /\ Tagged \in BOOLEAN
    /\ Events \subseteq AllEvents

Attempts == 1 .. MaxAttempts

VARIABLES
    pc,        \* "submit", "wait", "lookup", or how the call ended
    attempt,   \* the attempt being made
    request,   \* of each attempt: "unsent", "flying", "accepted", "refused"
               \* or "lost"
    order,     \* the exchange's order of each attempt
    result     \* the attempt whose order id was returned, 0 if none

vars == <<pc, attempt, request, order, result>>

Done == {"returned", "raised", "abandoned"}

TypeOK ==
    /\ pc \in {"submit", "wait", "lookup"} \cup Done
    /\ attempt \in Attempts
    /\ request \in [Attempts -> {"unsent", "flying", "accepted", "refused",
                                 "lost"}]
    /\ order \in [Attempts -> {"none", "open", "complete", "dead"}]
    /\ result \in Attempts \cup {0}

Init ==
    /\ pc = "submit"
    /\ attempt = 1
    /\ request = [i \in Attempts |-> "unsent"]
    /\ order = [i \in Attempts |-> "none"]
    /\ result = 0

Happens(event) == event \in Events

\* What the lookup takes for live: neither REJECTED nor CANCELLED.
Live(i) == order[i] \in {"open", "complete"}

Submit ==
    /\ pc = "submit"
    /\ request' = [request EXCEPT ![attempt] = "flying"]
    /\ pc' = "wait"
    /\ UNCHANGED <<attempt, order, result>>

\* Mutant: one attempt too many.
RetryOrRaiseLate ==
    IF attempt <= MaxAttempts
    THEN /\ attempt' = attempt + 1
         /\ pc' = IF Tagged THEN "lookup" ELSE "submit"
    ELSE pc' = "raised" /\ UNCHANGED attempt

\* A network error is retried, after a pause, while attempts are left.
RetryOrRaise ==
    IF attempt < MaxAttempts
    THEN /\ attempt' = attempt + 1
         /\ pc' = IF Tagged THEN "lookup" ELSE "submit"
    ELSE pc' = "raised" /\ UNCHANGED attempt

Answered ==
    /\ pc = "wait"
    /\ request[attempt] = "accepted"
    /\ pc' = "returned"
    /\ result' = attempt
    /\ UNCHANGED <<attempt, request, order>>

\* The answer to an accepted order is lost, as a network error or another.
AnswerLost ==
    /\ pc = "wait"
    /\ request[attempt] = "accepted"
    /\ Happens("answer_lost")
    /\ RetryOrRaise \/ (pc' = "raised" /\ UNCHANGED attempt)
    /\ UNCHANGED <<request, order, result>>

\* The attempt fails with its request unsent, or still on its way.
AttemptFails ==
    /\ pc = "wait"
    /\ request[attempt] = "flying"
    /\ \/ request' = [request EXCEPT ![attempt] = "lost"]
       \/ Happens("lands_later") /\ UNCHANGED request
    /\ RetryOrRaise
    /\ UNCHANGED <<order, result>>

\* Bad parameters, margin, authentication: typed and raised, never retried.
Refused ==
    /\ pc = "wait"
    /\ request[attempt] = "flying"
    /\ request' = [request EXCEPT ![attempt] = "refused"]
    /\ pc' = "raised"
    /\ UNCHANGED <<attempt, order, result>>

\* Mutant: a retry does not look for the order of an earlier attempt.
LookupSkipped ==
    /\ pc = "lookup"
    /\ pc' = "submit"
    /\ UNCHANGED <<attempt, request, order, result>>

\* Mutant: an earlier attempt that was rejected since is reused.
LookupAnyStatus ==
    /\ pc = "lookup"
    /\ \/ \E i \in Attempts : /\ i < attempt
                              /\ result' = i /\ pc' = "returned"
       \/ pc' = "submit" /\ UNCHANGED result
    /\ UNCHANGED <<attempt, request, order>>

\* _find_order_by_tag(): a live order with the tag is reused.  That the
\* lookup itself failed is logged and reads as "none".
Lookup ==
    /\ pc = "lookup"
    /\ \/ \E i \in Attempts : Live(i) /\ result' = i /\ pc' = "returned"
       \/ /\ \A i \in Attempts : ~Live(i)
          /\ pc' = "submit" /\ UNCHANGED result
       \/ /\ Happens("lookup_fails")
          /\ pc' = "submit" /\ UNCHANGED result
    /\ UNCHANGED <<attempt, request, order>>

\* wait_for() cancels the coroutine, not the thread of a request on its way.
TimesOut ==
    /\ pc \notin Done
    /\ Happens("times_out")
    /\ pc' = "abandoned"
    /\ UNCHANGED <<attempt, request, order, result>>

\* The exchange.
Accept(i) ==
    /\ request[i] = "flying"
    /\ request' = [request EXCEPT ![i] = "accepted"]
    /\ order' = [order EXCEPT ![i] = "open"]
    /\ UNCHANGED <<pc, attempt, result>>

Resolve(i) ==
    /\ order[i] = "open"
    /\ \/ order' = [order EXCEPT ![i] = "complete"]
       \/ Happens("closed_elsewhere") /\ order' = [order EXCEPT ![i] = "dead"]
    /\ UNCHANGED <<pc, attempt, request, result>>

Call == Submit \/ Answered \/ AnswerLost \/ AttemptFails \/ Refused \/ Lookup
          \/ TimesOut

Next == Call \/ \E i \in Attempts : Accept(i) \/ Resolve(i)

Spec == Init /\ [][Next]_vars

\* A thread that is waited for ends, and so does every await of the call.
FairSpec == Spec /\ WF_vars(Call)

-----------------------------------------------------------------------------
\* The attempts of one call leave one live order at most: what the tag and
\* the lookup of place_order() are for.
OneOrderPerTag == \A i, j \in Attempts : Live(i) /\ Live(j) => i = j

\* The id that place_order() returns is that of the one order that counts: no
\* other attempt is live or can still come to life.
ReturnedIsTheOrder ==
    pc = "returned" =>
        /\ request[result] = "accepted"
        /\ \A i \in Attempts \ {result} : ~Live(i) /\ request[i] # "flying"

\* A call that is refused or runs out of attempts was not accepted, unless the
\* last answer was lost.
RaisedIsDead ==
    pc = "raised" => \A i \in Attempts : Live(i) => i = attempt

-----------------------------------------------------------------------------
\* Why OneOrderPerTag holds when a lookup tells the truth and a request that
\* failed does not land: before an attempt is sent, all others are over.
Over(i) == ~Live(i) /\ request[i] # "flying"

EarlierAreOver ==
    /\ \A i, j \in Attempts : ~Over(i) /\ ~Over(j) => i = j
    /\ pc \in {"submit", "wait"} => \A i \in Attempts \ {attempt} : Over(i)
    /\ pc \in {"lookup", "returned"} => \A i \in Attempts : request[i] # "flying"
    /\ \A i \in Attempts : /\ order[i] # "none" => request[i] = "accepted"
                           /\ i > attempt => request[i] = "unsent"
    /\ pc \in {"submit", "lookup"} => request[attempt] = "unsent"
    /\ pc = "wait" => request[attempt] \in {"flying", "accepted"}
    /\ pc = "returned" => request[result] = "accepted"
                            /\ \A i \in Attempts \ {result} : Over(i)
    /\ pc = "raised" => \A i \in Attempts \ {attempt} : Over(i)

\* The inductive invariant.
PlacementInv == TypeOK /\ EarlierAreOver
=============================================================================
