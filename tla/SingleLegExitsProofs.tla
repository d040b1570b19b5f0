------------------------ MODULE SingleLegExitsProofs -------------------------
(***************************************************************************)
(* Proofs about the single-leg options, for any number of contracts,       *)
(* handlers, orders, restarts and days, and for whatever the environment   *)
(* may do.                                                                 *)
(***************************************************************************)
EXTENDS SingleLegExits, FiniteSetTheorems, TLAPS

-----------------------------------------------------------------------------
(* The inductive invariant.                                                *)

Exiting == {"resolve", "place", "sent", "release"}

\* What the local variables of a coroutine are at its labels.
LabelsOK ==
    /\ \A p \in Admins : mode[p] = "manual"
    /\ \A p \in Closers :
         /\ pc[p] \in Exiting \cup {"journal"} => at[p] \in Contracts
         /\ pc[p] \in {"resolve", "sent", "release"} => ord[p] \in Ids
         /\ pc[p] \in {"scan", "resolve", "place", "release"} => mode[p] # "entry"
         /\ pc[p] \in Exiting /\ mode[p] # "entry" => at[p] \notin todo[p]
    /\ pc[Cycle] = "entry" => mode[Cycle] # "reversal"
    /\ pc[Cycle] \in {"buy", "journal"} => mode[Cycle] = "entry"
    /\ mode[Cycle] = "reversal" => target \in Contracts
    /\ pc[Cycle] = "buy" => target \in Contracts

\* An order that has been taken by the exchange, whatever became of it.
Taken == {"OPEN", "COMPLETED", "REJECTED", "EXPIRED"}

\* The row of an order against its fate.
RowOK(o) ==
    /\ o.status \in Taken => o.fate \in {"resting", "filled", "killed"}
    /\ o.status = "FAILED" => o.fate = "lost"
    /\ o.entry => o.side = "BUY"
    /\ ~o.entry => o.fate # "resting"

RowsOK == \A i \in Ids : RowOK(order[i])

\* The row of an exit that was in doubt: what the cycle finds out of it is so.
Remembered(o) ==
    /\ o.status \in {"PENDING_VERIFICATION", "OPEN", "COMPLETED", "FAILED"}
    /\ ~o.entry
    /\ o.status = "OPEN" => o.fate = "filled"

\* place_order() works on a row of its own; an exit that looks a row up, or books a
\* close for it, finds there what it has found before.
CallOK(p) ==
    /\ pc[p] = "sent" =>
        /\ order[ord[p]].status = "PENDING" /\ order[ord[p]].fate \notin {"none", "lost"}
        /\ order[ord[p]].entry <=> mode[p] = "entry"
        /\ order[ord[p]].contract = at[p]
    /\ pc[p] = "resolve" => Remembered(order[ord[p]])
    /\ pc[p] = "release" => order[ord[p]].status \in Taken

CallsApart ==
    \A p, q \in Closers : pc[p] = "sent" /\ pc[q] = "sent" /\ ord[p] = ord[q] => p = q

DoubtsOK ==
    /\ saved.pending = pending
    /\ \A c \in Contracts : pending[c] # NoOrder => Remembered(order[pending[c]])

RowInv == RowsOK /\ (\A p \in Closers : CallOK(p)) /\ CallsApart /\ DoubtsOK

\* Who else than the engine closes a contract has been noted.
OthersNoted ==
    \A p \in Closers : pc[p] \in Exiting /\ (p # Cycle \/ mode[p] = "orphan") =>
        at[p] \in others

\* An exit of the engine goes by what is remembered of its contract: nothing, or the
\* order it looks up.
CycleRemembers ==
    at[Cycle] \notin others /\ mode[Cycle] # "entry" =>
        /\ pc[Cycle] \in {"place", "sent"} => pending[at[Cycle]] = NoOrder
        /\ pc[Cycle] = "resolve" => ord[Cycle] = pending[at[Cycle]]

\* The contracts whose exit the cycle has still to decide on.
Deciding(c) ==
    /\ mode[Cycle] \notin {"orphan", "entry"}
    /\ \/ pc[Cycle] \in {"scan"} \cup Exiting /\ c \in todo[Cycle]
       \/ pc[Cycle] \in {"resolve", "place"} /\ c = at[Cycle]

NoneOutstanding(c) == pending[c] = NoOrder \/ order[pending[c]].status = "FAILED"

\* A sale that is on its way: the cycle waits for its answer, or remembers it.
OnItsWay(i) == order[i].fate = "flying" /\ ~order[i].entry

\* What the engine alone has done to a contract.
Alone(c) ==
    /\ held[c] >= 0
    /\ Deciding(c) => snap[Cycle][c] > 0
    /\ Deciding(c) /\ NoneOutstanding(c) => snap[Cycle][c] <= held[c]
    /\ \A i \in Ids : OnItsWay(i) /\ order[i].contract = c =>
         /\ order[i].side = "SELL" /\ order[i].lots <= held[c]
         /\ \/ pc[Cycle] = "sent" /\ ord[Cycle] = i
            \/ pending[c] = i /\ order[i].status = "PENDING_VERIFICATION"

SaleInv == OthersNoted /\ CycleRemembers /\ \A c \in Contracts \ others : Alone(c)

-----------------------------------------------------------------------------
(* Lemmas about the helpers.                                               *)

LEMMA ClosersAre == Cycle \in Closers /\ (\A p \in Closers : p # Cycle => p \in Admins)
BY DEF Closers

LEMMA KeepBroker == ASSUME BrokerOK, UNCHANGED brokerVars PROVE BrokerOK'
BY DEF BrokerOK, brokerVars

LEMMA KeepMemory ==
    ASSUME MemoryOK, UNCHANGED <<memoryVars, saved, deployed>> PROVE MemoryOK'
BY DEF MemoryOK, memoryVars

LEMMA KeepClock == ASSUME ClockOK, UNCHANGED <<clockVars, others>> PROVE ClockOK'
BY DEF ClockOK, clockVars

\* The parts of the memory, one by one.
LEMMA MemoryParts ==
    MemoryOK <=> /\ journaled \subseteq Contracts
                 /\ pending \in [Contracts -> Ids \cup {NoOrder}]
                 /\ exited \in BOOLEAN /\ count \in Nat
                 /\ saved \in Memory /\ deployed \in Nat
BY DEF MemoryOK, Memory

\* A slot for a new order is one that nobody refers to.
LEMMA FreshSlot ==
    ASSUME \E i \in Ids : Unused(i)
    PROVE  NextSlot \in Ids /\ Unused(NextSlot)
BY DEF NextSlot

LEMMA ReleasedIsNat ==
    ASSUME deployed \in Nat, NEW n \in Nat PROVE Released(n) \in Nat
BY DEF Released

LEMMA AbsIsNat == \A n \in Int : Abs(n) \in Nat
BY DEF Abs

\* The lots of finitely many contracts can be counted.
LEMMA LotsAreFinite ==
    ASSUME BrokerOK, NEW S \in SUBSET Contracts
    PROVE  IsFiniteSet(LotsIn(S)) /\ Cardinality(LotsIn(S)) \in Nat
<1> DEFINE lots(c) == {c} \X (1 .. Abs(held[c]))
           f == [c \in S |-> lots(c)]
           L == {lots(c) : c \in S}
<1>1. IsFiniteSet(S)
  BY FS_Subset, SingleLegConstants
<1>2. f \in Surjection(S, L)
  BY DEF Surjection
<1>3. IsFiniteSet(L)
  BY <1>1, <1>2, FS_Surjection
<1>4. ASSUME NEW c \in S PROVE IsFiniteSet(lots(c))
  <2>1. Abs(held[c]) \in Int
    BY AbsIsNat DEF BrokerOK
  <2>2. IsFiniteSet(1 .. Abs(held[c]))
    BY <2>1, FS_Interval
  <2>3. IsFiniteSet({c})
    BY FS_Singleton
  <2> QED BY <2>2, <2>3, FS_Product
<1>5. \A T \in L : IsFiniteSet(T)
  BY <1>4
<1>6. IsFiniteSet(UNION L)
  BY <1>3, <1>5, FS_UNION
<1>7. LotsIn(S) = UNION L
  BY DEF LotsIn
<1> QED BY <1>6, <1>7, FS_CardinalityType

LEMMA RebuiltIsNat == ASSUME TypeOK PROVE Rebuilt \in Nat
BY LotsAreFinite, MemoryParts DEF Rebuilt, TypeOK

-----------------------------------------------------------------------------
(* Types, and what the local variables are at each label.                  *)

Typed == TypeOK /\ LabelsOK

LEMMA TypedInit == Init => Typed
<1> SUFFICES ASSUME Init PROVE Typed
  OBVIOUS
<1>1. BrokerOK
  BY DEF Init, BrokerOK, Rows, Blank, Flat, Statuses, Final, Fates
<1>2. MemoryOK
  BY DEF Init, MemoryOK, Memory
<1>3. LocalsOK
  BY ClosersAre DEF Init, LocalsOK, Labels, Modes, Flat
<1>4. ClockOK
  BY SingleLegConstants DEF Init, ClockOK
<1>5. LabelsOK
  BY SingleLegConstants, ClosersAre DEF Init, LabelsOK, Exiting, Closers
<1> QED BY <1>1, <1>2, <1>3, <1>4, <1>5 DEF Typed, TypeOK

\* The cycle after a contract, and a handler after its only one.
LEMMA TypedLeave ==
    ASSUME Typed, NEW p \in Closers, pc[p] \in Exiting, mode[p] # "entry", Leave(p),
           UNCHANGED <<mode, snap, todo, target>>
    PROVE  LocalsOK' /\ LabelsOK'
<1> USE DEF Typed, TypeOK
<1>1. LocalsOK'
  BY DEF Leave, Goto, LocalsOK, Labels
<1>2. LabelsOK'
  BY DEF Leave, Goto, LocalsOK, LabelsOK, Exiting
<1> QED BY <1>1, <1>2

LEMMA TypedSettle ==
    ASSUME Typed, NEW p \in Closers, pc[p] \in {"resolve", "sent"}, mode[p] # "entry",
           Settle(p), UNCHANGED <<mode, snap, todo, target>>
    PROVE  LocalsOK' /\ LabelsOK' /\ journaled' \subseteq Contracts
<1>1. CASE at[p] \in journaled
  <2>1. pc' = [pc EXCEPT ![p] = "release"] /\ UNCHANGED <<at, ord>>
    BY <1>1 DEF Settle, Goto
  <2>2. LocalsOK'
    BY <2>1 DEF Typed, TypeOK, LocalsOK, Labels
  <2>3. LabelsOK'
    BY <2>1 DEF Typed, TypeOK, LocalsOK, LabelsOK, Exiting
  <2> QED BY <2>2, <2>3, MemoryParts DEF Settle, Typed, TypeOK
<1>2. CASE at[p] \notin journaled
  BY <1>2, TypedLeave, MemoryParts DEF Settle, Exiting, Typed, TypeOK
<1> QED BY <1>1, <1>2

LEMMA TypedExit ==
    ASSUME Typed, NEW p \in Closers, NEW c \in Contracts, Exit(p, c)
    PROVE  Typed'
<1> USE DEF Typed, TypeOK
<1>1. BrokerOK' /\ MemoryOK'
  BY KeepBroker, KeepMemory DEF Exit
<1>2. ClockOK'
  BY DEF Exit, ClockOK, clockVars
<1>3. LocalsOK'
  BY MemoryParts DEF Exit, LocalsOK, Goto, Labels
<1>4. LabelsOK'
  <2>1. /\ at' = [at EXCEPT ![p] = c] /\ todo' = [todo EXCEPT ![p] = @ \ {c}]
        /\ UNCHANGED <<mode, target>> /\ pc[p] = "scan"
    BY DEF Exit
  <2>2. CASE pc' = [pc EXCEPT ![p] = "place"] /\ UNCHANGED ord
    BY <2>1, <2>2 DEF LocalsOK, LabelsOK, Exiting
  <2>3. CASE /\ pc' = [pc EXCEPT ![p] = "resolve"]
             /\ ord' = [ord EXCEPT ![p] = pending[c]] /\ pending[c] \in Ids
    BY <2>1, <2>3 DEF LocalsOK, LabelsOK, Exiting
  <2> QED BY <2>2, <2>3, MemoryParts DEF Exit, Goto
<1> QED BY <1>1, <1>2, <1>3, <1>4

\* The table after a new order.
LEMMA TypedSend ==
    ASSUME BrokerOK, NEW p \in Closers, NEW c \in Contracts, NEW side \in {"BUY", "SELL"},
           NEW lots \in Nat, NEW entry \in BOOLEAN, SendOrder(p, c, side, lots, entry)
    PROVE  /\ order' \in [Ids -> Rows]
           /\ NextSlot \in Ids
           /\ ord' = [ord EXCEPT ![p] = NextSlot] /\ pc' = [pc EXCEPT ![p] = "sent"]
<1>1. NextSlot \in Ids
  BY FreshSlot DEF SendOrder
<1>2. order' = [order EXCEPT ![NextSlot] =
                    [contract |-> c, side |-> side, lots |-> lots, entry |-> entry,
                     status |-> "PENDING", fate |-> "flying"]]
  BY DEF SendOrder
<1>3. [contract |-> c, side |-> side, lots |-> lots, entry |-> entry,
       status |-> "PENDING", fate |-> "flying"] \in Rows
  BY DEF Rows, Statuses, Fates
<1> QED BY <1>1, <1>2, <1>3 DEF SendOrder, Goto, BrokerOK

\* A row with another status and fate.
LEMMA TypedWrite ==
    ASSUME BrokerOK, NEW i \in Ids, NEW s \in Statuses, NEW f \in Fates,
           order' = [order EXCEPT ![i].status = s, ![i].fate = f]
    PROVE  /\ order' \in [Ids -> Rows]
           /\ \A j \in Ids \ {i} : order'[j] = order[j]
           /\ order'[i] = [order[i] EXCEPT !.status = s, !.fate = f]
<1> DEFINE r == [order[i] EXCEPT !.status = s, !.fate = f]
<1>1. order \in [Ids -> Rows] /\ order[i] \in Rows
  BY DEF BrokerOK
<1>2. r \in Rows
  BY <1>1 DEF Rows
<1>3. order' = [order EXCEPT ![i] = r]
  OBVIOUS
<1> HIDE DEF r
<1>4. order' \in [Ids -> Rows] /\ order'[i] = r /\ \A j \in Ids \ {i} : order'[j] = order[j]
  BY <1>1, <1>2, <1>3
<1> QED BY <1>4 DEF r

LEMMA TypedStatus ==
    ASSUME BrokerOK, NEW i \in Ids, NEW s \in Statuses,
           order' = [order EXCEPT ![i].status = s]
    PROVE  /\ order' \in [Ids -> Rows]
           /\ \A j \in Ids \ {i} : order'[j] = order[j]
           /\ order'[i] = [order[i] EXCEPT !.status = s]
BY DEF BrokerOK, Rows

LEMMA TypedFate ==
    ASSUME BrokerOK, NEW i \in Ids, NEW f \in Fates,
           order' = [order EXCEPT ![i].fate = f]
    PROVE  /\ order' \in [Ids -> Rows]
           /\ \A j \in Ids \ {i} : order'[j] = order[j]
           /\ order'[i] = [order[i] EXCEPT !.fate = f]
BY DEF BrokerOK, Rows

\* The row of an order whose answer is lost.
LEMMA TypedDoubt ==
    ASSUME BrokerOK, NEW i \in Ids, Doubt(i)
    PROVE  /\ order' \in [Ids -> Rows]
           /\ \A j \in Ids \ {i} : order'[j] = order[j]
           /\ \E f \in {order[i].fate} \cup
                       (IF order[i].fate = "flying" THEN {"lost"} ELSE {}) :
                order'[i] = [order[i] EXCEPT !.status = "PENDING_VERIFICATION", !.fate = f]
<1>1. PICK f \in {order[i].fate} \cup
                 (IF order[i].fate = "flying" THEN {"lost"} ELSE {}) :
        order' = [order EXCEPT ![i].status = "PENDING_VERIFICATION", ![i].fate = f]
  BY DEF Doubt
<1>2. f \in Fates
  BY <1>1 DEF BrokerOK, Rows, Fates
<1> QED BY <1>1, <1>2, TypedWrite DEF Statuses

LEMMA TypedResolve == ASSUME Typed, NEW p \in Closers, Resolve(p) PROVE Typed'
<1> USE DEF Typed, TypeOK
<1>1. /\ pc[p] = "resolve" /\ mode[p] # "entry" /\ at[p] \in Contracts /\ ord[p] \in Ids
      /\ UNCHANGED <<mode, snap, todo, target, exited, count, deployed>>
  BY DEF Resolve, LabelsOK, Exiting
<1>2. BrokerOK' /\ ClockOK'
  BY KeepBroker, KeepClock DEF Resolve
<1>3. CASE order[ord[p]].status = "PENDING_VERIFICATION"
  <2>1. Leave(p) /\ UNCHANGED <<journaled, pending, saved>>
    BY <1>3 DEF Resolve
  <2> QED BY <1>1, <1>2, <2>1, TypedLeave, KeepMemory DEF Exiting, memoryVars
<1>4. CASE order[ord[p]].status # "PENDING_VERIFICATION"
  <2>0. /\ pending' = [pending EXCEPT ![at[p]] = NoOrder]
        /\ saved' = [journaled |-> journaled, pending |-> pending',
                     exited |-> exited, count |-> count]
    BY <1>4 DEF Resolve
  <2>1. pending' \in [Contracts -> Ids \cup {NoOrder}] /\ saved' \in Memory
    BY <1>1, <2>0, MemoryParts DEF Memory
  <2>2. CASE /\ pc' = [pc EXCEPT ![p] = "place"] /\ ord' = [ord EXCEPT ![p] = NoOrder]
             /\ UNCHANGED <<journaled, at>>
    <3>1. LocalsOK'
      BY <1>1, <2>2 DEF LocalsOK, Labels
    <3>2. LabelsOK'
      BY <1>1, <2>2 DEF LocalsOK, LabelsOK, Exiting
    <3>3. MemoryOK'
      BY <1>1, <2>1, <2>2 DEF MemoryOK, Memory
    <3> QED BY <1>2, <3>1, <3>2, <3>3
  <2>3. CASE Settle(p)
    <3>1. LocalsOK' /\ LabelsOK' /\ journaled' \subseteq Contracts
      BY <1>1, <2>3, TypedSettle
    <3>2. MemoryOK'
      BY <1>1, <2>1, <3>1 DEF MemoryOK, Memory
    <3> QED BY <1>2, <3>1, <3>2
  <2> QED BY <1>4, <2>2, <2>3 DEF Resolve, Goto
<1> QED BY <1>3, <1>4

LEMMA TypedPlace == ASSUME Typed, NEW p \in Closers, Place(p) PROVE Typed'
<1> USE DEF Typed, TypeOK
<1>1. at[p] \in Contracts /\ Abs(snap[p][at[p]]) \in Nat /\ mode[p] # "entry"
  BY AbsIsNat DEF Place, LabelsOK, LocalsOK, Exiting
<1>2. /\ order' \in [Ids -> Rows] /\ NextSlot \in Ids
      /\ ord' = [ord EXCEPT ![p] = NextSlot] /\ pc' = [pc EXCEPT ![p] = "sent"]
  BY <1>1, TypedSend DEF Place
<1>3. BrokerOK' /\ MemoryOK' /\ ClockOK'
  BY <1>2, KeepMemory, KeepClock DEF Place, BrokerOK
<1>4. LocalsOK'
  BY <1>2 DEF Place, LocalsOK, Labels
<1>5. LabelsOK'
  BY <1>1, <1>2 DEF Place, LocalsOK, LabelsOK, Exiting
<1> QED BY <1>3, <1>4, <1>5

LEMMA TypedExitTaken == ASSUME Typed, NEW p \in Closers, ExitTaken(p) PROVE Typed'
<1> USE DEF Typed, TypeOK
<1>1. /\ pc[p] = "sent" /\ mode[p] # "entry" /\ ord[p] \in Ids
      /\ order' = [order EXCEPT ![ord[p]].status = "OPEN"]
      /\ UNCHANGED <<held, pending, exited, count, saved, deployed, mode, snap, todo,
                     target, clockVars, others>>
  BY DEF ExitTaken, LabelsOK
<1>2. BrokerOK' /\ ClockOK'
  BY <1>1, TypedStatus, KeepClock DEF BrokerOK, Statuses
<1>3. LocalsOK' /\ LabelsOK' /\ journaled' \subseteq Contracts
  BY <1>1, TypedLeave, TypedSettle, MemoryParts DEF ExitTaken, Exiting
<1>4. MemoryOK'
  BY <1>1, <1>3 DEF MemoryOK, Memory
<1> QED BY <1>2, <1>3, <1>4

LEMMA TypedExitFailed == ASSUME Typed, NEW p \in Closers, ExitFailed(p) PROVE Typed'
<1> USE DEF Typed, TypeOK
<1>1. /\ pc[p] = "sent" /\ mode[p] # "entry" /\ ord[p] \in Ids
      /\ order' = [order EXCEPT ![ord[p]].status = "FAILED", ![ord[p]].fate = "lost"]
      /\ Leave(p)
  BY DEF ExitFailed, LabelsOK
<1>2. BrokerOK' /\ MemoryOK' /\ ClockOK'
  <2>1. order' \in [Ids -> Rows]
    BY <1>1, TypedWrite DEF Statuses, Final, Fates
  <2> QED BY <2>1, KeepMemory, KeepClock DEF BrokerOK, ExitFailed
<1>3. LocalsOK' /\ LabelsOK'
  BY <1>1, TypedLeave DEF ExitFailed, Exiting
<1> QED BY <1>2, <1>3

LEMMA TypedExitDoubtful == ASSUME Typed, NEW p \in Closers, ExitDoubtful(p) PROVE Typed'
<1> USE DEF Typed, TypeOK
<1>1. /\ pc[p] = "sent" /\ mode[p] # "entry" /\ ord[p] \in Ids /\ at[p] \in Contracts
      /\ Doubt(ord[p]) /\ Leave(p)
      /\ UNCHANGED <<held, deployed, mode, snap, todo, target, clockVars, others>>
  BY DEF ExitDoubtful, LabelsOK, Exiting
<1>2. BrokerOK' /\ ClockOK'
  BY <1>1, TypedDoubt, KeepClock DEF BrokerOK
<1>3. LocalsOK' /\ LabelsOK'
  BY <1>1, TypedLeave DEF Exiting
<1>4. MemoryOK'
  <2>1. CASE UNCHANGED <<memoryVars, saved>>
    BY <1>1, <2>1, KeepMemory
  <2>2. CASE /\ pending' = [pending EXCEPT ![at[p]] = ord[p]]
             /\ UNCHANGED <<journaled, exited, count>>
             /\ Persist
    <3>1. pending' \in [Contracts -> Ids \cup {NoOrder}]
      BY <1>1, <2>2, MemoryParts
    <3> QED BY <1>1, <2>2, <3>1 DEF MemoryOK, Memory, Persist
  <2> QED BY <2>1, <2>2 DEF ExitDoubtful
<1> QED BY <1>2, <1>3, <1>4

LEMMA TypedRelease == ASSUME Typed, NEW p \in Closers, Release(p) PROVE Typed'
<1> USE DEF Typed, TypeOK
<1>1. /\ pc[p] = "release" /\ mode[p] # "entry" /\ at[p] \in Contracts /\ Leave(p)
      /\ exited' \in BOOLEAN
      /\ UNCHANGED <<journaled, pending, count>>
  BY MemoryParts DEF Release, LabelsOK, Exiting
<1>2. BrokerOK' /\ ClockOK'
  BY KeepBroker, KeepClock DEF Release
<1>3. LocalsOK' /\ LabelsOK'
  BY <1>1, TypedLeave DEF Release, Exiting
<1>4. deployed' \in Nat
  BY <1>1, AbsIsNat, ReleasedIsNat, MemoryParts DEF Release, LocalsOK
<1>5. MemoryOK'
  <2>1. CASE UNCHANGED saved
    BY <1>1, <1>4, <2>1 DEF MemoryOK, Memory
  <2>2. CASE Persist
    BY <1>1, <1>4, <2>2 DEF MemoryOK, Memory, Persist
  <2> QED BY <2>1, <2>2 DEF Release
<1> QED BY <1>2, <1>3, <1>5

LEMMA TypedExits == ASSUME Typed, NEW p \in Closers, ExitStep(p) PROVE Typed'
BY TypedExit, TypedResolve, TypedPlace, TypedExitTaken, TypedExitFailed,
   TypedExitDoubtful, TypedRelease DEF ExitStep

LEMMA TypedManual ==
    ASSUME Typed, NEW p \in Admins, NEW c \in Contracts, ManualClose(p, c)
    PROVE  Typed'
<1> USE DEF Typed, TypeOK
<1>1. BrokerOK' /\ MemoryOK' /\ ClockOK'
  BY KeepBroker, KeepMemory, KeepClock DEF ManualClose
<1>2. LocalsOK'
  BY DEF ManualClose, LocalsOK, Goto, Labels, BrokerOK, Closers
<1>3. LabelsOK'
  BY DEF ManualClose, LocalsOK, LabelsOK, Goto, Exiting, Closers
<1> QED BY <1>1, <1>2, <1>3

\* The steps of the cycle that only read, and decide where to go on.
Reading ==
    \/ StartCycle \/ ReadPositions \/ ExitsDone \/ SquareOff
    \/ ReversalDone \/ NoSignal \/ GateShut \/ FindOrphans
    \/ \E c \in Contracts : Hold(c) \/ Signal(c)

LEMMA PositionsTyped == ASSUME BrokerOK PROVE \A q \in Positions : q \in [Contracts -> Int]
BY DEF BrokerOK, Positions, Flat

LEMMA TypedReading == ASSUME Typed, Reading PROVE Typed'
<1> USE DEF Typed, TypeOK, Goto
<1> USE ClosersAre
<1>1. BrokerOK' /\ MemoryOK' /\ ClockOK'
  BY KeepBroker, KeepMemory, KeepClock
  DEF Reading, StartCycle, ReadPositions, ExitsDone, SquareOff, ReversalDone, NoSignal,
      GateShut, FindOrphans, Hold, Signal, ScanDone
<1>2. CASE StartCycle \/ NoSignal \/ GateShut \/ ExitsDone
  <2>1. LocalsOK'
    BY <1>2 DEF StartCycle, NoSignal, GateShut, ExitsDone, ScanDone, LocalsOK, Labels
  <2>2. LabelsOK'
    BY <1>2 DEF StartCycle, NoSignal, GateShut, ExitsDone, ScanDone, LocalsOK, LabelsOK,
                Exiting
  <2> QED BY <1>1, <2>1, <2>2
<1>3. CASE ReversalDone
  <2>1. LocalsOK'
    BY <1>3 DEF ReversalDone, ScanDone, LocalsOK, Labels, Modes
  <2>2. LabelsOK'
    BY <1>3, SingleLegConstants DEF ReversalDone, ScanDone, LocalsOK, LabelsOK, Exiting, Closers
  <2> QED BY <1>1, <2>1, <2>2
<1>4. CASE ReadPositions
  <2>1. LocalsOK'
    <3>1. mode' \in [Closers -> Modes] /\ pc' \in [Closers -> Labels]
      BY <1>4 DEF ReadPositions, LocalsOK, Labels, Modes
    <3>2. snap' \in [Closers -> [Contracts -> Int]] /\ todo' \in [Closers -> SUBSET Contracts]
      <4> DEFINE longs == {c \in Contracts : held[c] > 0}
      <4>1. longs \in SUBSET Contracts
        OBVIOUS
      <4>2. \/ snap' = [snap EXCEPT ![Cycle] = held] /\ todo' = [todo EXCEPT ![Cycle] = longs]
            \/ UNCHANGED <<snap, todo>>
        BY <1>4 DEF ReadPositions
      <4> HIDE DEF longs
      <4> QED BY <4>1, <4>2 DEF LocalsOK, BrokerOK
    <3> QED BY <1>4, <3>1, <3>2 DEF ReadPositions, LocalsOK
  <2>2. LabelsOK'
    BY <1>4, SingleLegConstants DEF ReadPositions, LocalsOK, LabelsOK, Exiting, Closers
  <2> QED BY <1>1, <2>1, <2>2
<1>5. CASE SquareOff
  <2>1. LocalsOK'
    BY <1>5, PositionsTyped DEF SquareOff, LocalsOK, Labels, Modes
  <2>2. LabelsOK'
    BY <1>5, SingleLegConstants DEF SquareOff, LocalsOK, LabelsOK, Exiting, Closers
  <2> QED BY <1>1, <2>1, <2>2
<1>6. CASE FindOrphans
  <2>1. LocalsOK'
    BY <1>6, PositionsTyped DEF FindOrphans, LocalsOK, Labels, Modes
  <2>2. LabelsOK'
    BY <1>6, SingleLegConstants DEF FindOrphans, LocalsOK, LabelsOK, Exiting, Closers
  <2> QED BY <1>1, <2>1, <2>2
<1>7. ASSUME NEW c \in Contracts, Hold(c) PROVE Typed'
  <2>1. LocalsOK'
    BY <1>7 DEF Hold, LocalsOK
  <2>2. LabelsOK'
    BY <1>7 DEF Hold, LocalsOK, LabelsOK, Exiting
  <2> QED BY <1>1, <2>1, <2>2
<1>8. ASSUME NEW c \in Contracts, Signal(c) PROVE Typed'
  <2>1. LocalsOK'
    BY <1>8, PositionsTyped DEF Signal, LocalsOK, Labels, Modes
  <2>2. LabelsOK'
    BY <1>8, SingleLegConstants DEF Signal, LocalsOK, LabelsOK, Exiting, Closers
  <2> QED BY <1>1, <2>1, <2>2
<1> QED BY <1>2, <1>3, <1>4, <1>5, <1>6, <1>7, <1>8 DEF Reading

\* The cycle after an entry, whatever became of it.
LEMMA TypedBack ==
    ASSUME Typed, pc[Cycle] = "journal" \/ (pc[Cycle] = "sent" /\ mode[Cycle] = "entry"),
           BackToEntry, UNCHANGED <<mode, snap, todo, target>>
    PROVE  LocalsOK' /\ LabelsOK'
<1> USE ClosersAre
<1>1. mode[Cycle] # "reversal"
  BY DEF Typed, LabelsOK
<1>2. LocalsOK'
  BY DEF BackToEntry, Goto, Typed, TypeOK, LocalsOK, Labels
<1>3. LabelsOK'
  BY <1>1 DEF BackToEntry, Goto, Typed, TypeOK, LocalsOK, LabelsOK, Exiting
<1> QED BY <1>2, <1>3

LEMMA TypedEntry ==
    ASSUME Typed, Buy \/ EntryTaken \/ EntryNotTaken \/ Journal
    PROVE  Typed'
<1> USE ClosersAre DEF Typed, TypeOK
<1>1. CASE Buy
  <2>1. target \in Contracts /\ mode[Cycle] # "reversal"
    BY <1>1 DEF Buy, LabelsOK
  <2>2. /\ order' \in [Ids -> Rows] /\ NextSlot \in Ids
        /\ ord' = [ord EXCEPT ![Cycle] = NextSlot] /\ pc' = [pc EXCEPT ![Cycle] = "sent"]
    BY <1>1, <2>1, TypedSend DEF Buy
  <2>3. BrokerOK' /\ MemoryOK' /\ ClockOK'
    BY <1>1, <2>2, KeepMemory, KeepClock DEF Buy, BrokerOK
  <2>4. LocalsOK'
    BY <1>1, <2>1, <2>2 DEF Buy, LocalsOK, Labels
  <2>5. LabelsOK'
    BY <1>1, <2>1, <2>2 DEF Buy, LocalsOK, LabelsOK, Exiting
  <2> QED BY <2>3, <2>4, <2>5
<1>2. CASE EntryTaken
  <2>1. /\ pc[Cycle] = "sent" /\ mode[Cycle] = "entry" /\ ord[Cycle] \in Ids
        /\ order' = [order EXCEPT ![ord[Cycle]].status = "OPEN"]
        /\ pc' = [pc EXCEPT ![Cycle] = "journal"]
    BY <1>2 DEF EntryTaken, LabelsOK, Goto
  <2>2. BrokerOK' /\ ClockOK'
    BY <1>2, <2>1, TypedStatus, KeepClock DEF EntryTaken, BrokerOK, Statuses
  <2>3. MemoryOK'
    BY <1>2 DEF EntryTaken, MemoryOK, Memory
  <2>4. LocalsOK'
    BY <1>2, <2>1 DEF EntryTaken, LocalsOK, Labels
  <2>5. LabelsOK'
    BY <1>2, <2>1 DEF EntryTaken, LocalsOK, LabelsOK, Exiting
  <2> QED BY <2>2, <2>3, <2>4, <2>5
<1>3. CASE EntryNotTaken
  <2>1. /\ pc[Cycle] = "sent" /\ mode[Cycle] = "entry" /\ ord[Cycle] \in Ids /\ BackToEntry
    BY <1>3 DEF EntryNotTaken, LabelsOK
  <2>2. order' \in [Ids -> Rows]
    BY <1>3, <2>1, TypedWrite, TypedDoubt DEF EntryNotTaken, Statuses, Final, Fates
  <2>3. BrokerOK' /\ MemoryOK' /\ ClockOK'
    BY <1>3, <2>2, KeepMemory, KeepClock DEF EntryNotTaken, BrokerOK
  <2>4. LocalsOK' /\ LabelsOK'
    BY <1>3, <2>1, TypedBack DEF EntryNotTaken
  <2> QED BY <2>3, <2>4
<1>4. CASE Journal
  <2>1. BrokerOK' /\ ClockOK'
    BY <1>4, KeepBroker, KeepClock DEF Journal
  <2>2. LocalsOK' /\ LabelsOK' /\ at[Cycle] \in Contracts
    BY <1>4, TypedBack DEF Journal, LabelsOK
  <2>3. MemoryOK'
    <3>1. CASE journaled' = journaled \cup {at[Cycle]} /\ Persist
      BY <1>4, <2>2, <3>1 DEF Journal, MemoryOK, Memory, Persist
    <3>2. CASE UNCHANGED <<journaled, saved>>
      BY <1>4, <3>2 DEF Journal, MemoryOK, Memory
    <3> QED BY <1>4, <3>1, <3>2 DEF Journal
  <2> QED BY <2>1, <2>2, <2>3
<1> QED BY <1>1, <1>2, <1>3, <1>4

\* The rest of the cycle: it looks at orders, and counts again.
LEMMA TypedBooks ==
    ASSUME Typed,
           \/ SquareOffDone \/ RestoreDone
           \/ \E i \in Ids : Verify(i) \/ ExpireStale(i)
    PROVE  Typed'
<1> USE ClosersAre DEF Typed, TypeOK
<1>1. CASE SquareOffDone \/ RestoreDone
  <2>1. BrokerOK' /\ ClockOK'
    BY <1>1, KeepBroker, KeepClock DEF SquareOffDone, RestoreDone, ScanDone
  <2>2. MemoryOK'
    BY <1>1, RebuiltIsNat
    DEF SquareOffDone, RestoreDone, ScanDone, Persist, MemoryOK, Memory, memoryVars
  <2>3. LocalsOK'
    BY <1>1 DEF SquareOffDone, RestoreDone, ScanDone, Goto, LocalsOK, Labels
  <2>4. LabelsOK'
    BY <1>1 DEF SquareOffDone, RestoreDone, ScanDone, Goto, LocalsOK, LabelsOK, Exiting
  <2> QED BY <2>1, <2>2, <2>3, <2>4
<1>2. ASSUME NEW i \in Ids, Verify(i) PROVE Typed'
  <2>1. order' \in [Ids -> Rows]
    BY <1>2, TypedStatus, TypedWrite DEF Verify, Statuses, Final, Fates
  <2>2. order[i].lots \in Nat
    BY DEF BrokerOK, Rows
  <2>3. BrokerOK' /\ ClockOK'
    BY <1>2, <2>1, KeepClock DEF Verify, BrokerOK
  <2>4. MemoryOK'
    BY <1>2, <2>2 DEF Verify, MemoryOK, Memory, memoryVars
  <2>5. LocalsOK' /\ LabelsOK'
    BY <1>2 DEF Verify, LocalsOK, LabelsOK, localVars
  <2> QED BY <2>3, <2>4, <2>5
<1>3. ASSUME NEW i \in Ids, ExpireStale(i) PROVE Typed'
  <2>1. order' \in [Ids -> Rows]
    BY <1>3, TypedWrite DEF ExpireStale, Statuses, Final, Fates
  <2>2. Released(order[i].lots) \in Nat
    BY ReleasedIsNat, MemoryParts DEF BrokerOK, Rows
  <2>3. BrokerOK' /\ ClockOK'
    BY <1>3, <2>1, KeepClock DEF ExpireStale, BrokerOK
  <2>4. MemoryOK'
    BY <1>3, <2>2 DEF ExpireStale, MemoryOK, Memory, memoryVars
  <2>5. LocalsOK' /\ LabelsOK'
    BY <1>3 DEF ExpireStale, LocalsOK, LabelsOK, localVars
  <2> QED BY <2>3, <2>4, <2>5
<1> QED BY <1>1, <1>2, <1>3

\* What the exchange does to the quantity that is held.
LEMMA TypedFill ==
    ASSUME BrokerOK, NEW i \in Ids,
           held' = [held EXCEPT ![order[i].contract] = @ + Signed(order[i])]
    PROVE  held' \in [Contracts -> Int]
<1>1. Signed(order[i]) \in Int /\ order[i].contract \in Contracts \cup {NoContract}
  BY DEF BrokerOK, Rows, Signed
<1>2. CASE order[i].contract \in Contracts
  BY <1>1, <1>2 DEF BrokerOK
<1>3. CASE order[i].contract \notin Contracts
  BY <1>3 DEF BrokerOK
<1> QED BY <1>2, <1>3

LEMMA TypedExchange ==
    ASSUME Typed, NEW i \in Ids, Land(i) \/ Fill(i) \/ Sync(i)
    PROVE  Typed'
<1> USE DEF Typed, TypeOK
<1>1. LocalsOK' /\ LabelsOK' /\ ClockOK'
  BY KeepClock DEF Land, Fill, Sync, localVars, LocalsOK, LabelsOK
<1>2. order' \in [Ids -> Rows]
  BY TypedStatus, TypedFate DEF Land, Fill, Sync, Statuses, Final, Fates
<1>3. held' \in [Contracts -> Int]
  BY TypedFill DEF Land, Fill, Sync, BrokerOK
<1>4. MemoryOK'
  <2>1. Released(order[i].lots) \in Nat
    BY ReleasedIsNat, MemoryParts DEF BrokerOK, Rows
  <2> QED BY <2>1 DEF Land, Fill, Sync, MemoryOK, Memory, memoryVars
<1> QED BY <1>1, <1>2, <1>3, <1>4 DEF BrokerOK

\* The fates of all orders when the day or the process ends.
LEMMA TypedEnds ==
    ASSUME BrokerOK, NEW from \in Fates, NEW to \in Fates,
           order' = [i \in Ids |-> IF order[i].fate = from
                                   THEN [order[i] EXCEPT !.fate = to] ELSE order[i]]
    PROVE  order' \in [Ids -> Rows]
BY DEF BrokerOK, Rows

LEMMA TypedClock == ASSUME Typed, LateInTheDay \/ NextDay \/ Crash PROVE Typed'
<1> USE DEF Typed, TypeOK
<1>1. BrokerOK'
  BY TypedEnds DEF LateInTheDay, NextDay, Crash, BrokerOK, Fates
<1>2. CASE LateInTheDay
  <2>1. MemoryOK' /\ LocalsOK' /\ LabelsOK'
    BY <1>2, KeepMemory DEF LateInTheDay, LocalsOK, LabelsOK, localVars
  <2>2. ClockOK'
    BY <1>2 DEF LateInTheDay, ClockOK
  <2> QED BY <1>1, <2>1, <2>2
<1>3. CASE NextDay
  <2>1. LocalsOK' /\ LabelsOK'
    BY <1>3 DEF NextDay, LocalsOK, LabelsOK, localVars
  <2>2. ClockOK'
    BY <1>3, SingleLegConstants DEF NextDay, ClockOK
  <2>3. saved' \in Memory /\ deployed' \in Nat
    BY <1>3, RebuiltIsNat, MemoryParts DEF NextDay, Memory
  <2>4. MemoryOK'
    BY <1>3, <2>3 DEF NextDay, MemoryOK, Memory
  <2> QED BY <1>1, <2>1, <2>2, <2>4
<1>4. CASE Crash
  <2>1. LocalsOK'
    BY <1>4 DEF Crash, LocalsOK, Labels
  <2>2. LabelsOK'
    BY <1>4, ClosersAre DEF Crash, LocalsOK, LabelsOK, Exiting
  <2>3. ClockOK'
    BY <1>4, SingleLegConstants DEF Crash, ClockOK
  <2>4. MemoryOK'
    BY <1>4 DEF Crash, MemoryOK, Memory
  <2> QED BY <1>1, <2>1, <2>2, <2>3, <2>4
<1> QED BY <1>2, <1>3, <1>4

LEMMA TypedStep == ASSUME Typed, [Next]_vars PROVE Typed'
<1>1. CASE UNCHANGED vars
  <2>1. UNCHANGED <<brokerVars, memoryVars, saved, deployed, localVars, clockVars, others>>
    BY <1>1 DEF vars
  <2>2. BrokerOK' /\ MemoryOK' /\ ClockOK'
    BY <2>1, KeepBroker, KeepMemory, KeepClock DEF Typed, TypeOK
  <2> QED BY <2>1, <2>2 DEF Typed, TypeOK, LocalsOK, LabelsOK, localVars
<1>2. CASE CycleStep
  BY <1>2, TypedReading, TypedEntry, TypedBooks DEF CycleStep, Reading
<1>3. CASE EnvStep
  BY <1>3, TypedExchange, TypedClock DEF EnvStep
<1> QED BY <1>1, <1>2, <1>3, TypedExits, TypedManual DEF Next

\* Every variable keeps its type, and a coroutine has the contract, the order and the
\* mode that the step it is about to take reads: no handler, restart or day changes that.
THEOREM ExitsStayTyped == Spec => []TypeOK
<1>1. Spec => []Typed
  BY TypedInit, TypedStep, PTL DEF Spec
<1>2. Typed => TypeOK
  BY DEF Typed
<1> QED BY <1>1, <1>2, PTL

-----------------------------------------------------------------------------
(* Rows and calls.                                                         *)

\* What may become of a row that some call, or the memory, refers to.
Advance(o, n) ==
    /\ n.entry = o.entry /\ n.contract = o.contract
    /\ o.status \in Taken => n.status \in Taken
    /\ Remembered(o) => Remembered(n)
    /\ o.status = "PENDING" =>
         n.status = "PENDING" /\ (o.fate \notin {"none", "lost"} => n.fate \notin {"none", "lost"})
    /\ RowOK(n)

LEMMA Still == ASSUME NEW o, RowOK(o) PROVE Advance(o, o)
BY DEF Advance

LEMMA RowsAdvance ==
    ASSUME Typed, RowInv, \A i \in Ids : Advance(order[i], order'[i]),
           UNCHANGED <<pc, mode, at, ord, pending>>, saved'.pending = pending
    PROVE  RowInv'
<1> USE DEF RowInv
<1>1. RowsOK'
  BY DEF RowsOK, Advance
<1>2. ASSUME NEW p \in Closers PROVE CallOK(p)'
  <2>1. pc[p] \in {"sent", "resolve", "release"} => Advance(order[ord[p]], order'[ord[p]])
    BY DEF Typed, LabelsOK
  <2> QED BY <2>1 DEF CallOK, Advance
<1>3. CallsApart'
  BY DEF CallsApart
<1>4. DoubtsOK'
  <2>1. \A c \in Contracts : pending[c] # NoOrder => pending[c] \in Ids
    BY MemoryParts DEF Typed, TypeOK
  <2> QED BY <2>1 DEF DoubtsOK, Advance
<1> QED BY <1>1, <1>2, <1>3, <1>4

\* A call that does not move, and whose row stays as it is, stays as it was.
LEMMA OthersKeep ==
    ASSUME NEW q \in Closers, CallOK(q),
           pc'[q] = pc[q], mode'[q] = mode[q], at'[q] = at[q], ord'[q] = ord[q],
           pc[q] \in {"sent", "resolve", "release"} => order'[ord[q]] = order[ord[q]]
    PROVE  CallOK(q)'
BY DEF CallOK

\* A call that writes to row i of its own, or that has just been given it.
LEMMA OwnRow ==
    ASSUME Typed, RowInv, NEW p \in Closers, NEW i \in Ids,
           RowOK(order'[i]), \A j \in Ids \ {i} : order'[j] = order[j],
           \A q \in Closers \ {p} :
             /\ pc'[q] = pc[q] /\ mode'[q] = mode[q] /\ at'[q] = at[q] /\ ord'[q] = ord[q]
             /\ pc[q] \in {"sent", "resolve", "release"} => ord[q] # i,
           CallOK(p)', pc'[p] = "sent" => ord'[p] = i,
           saved'.pending = pending',
           \A c \in Contracts : pending'[c] # NoOrder =>
             \/ pending'[c] = i /\ Remembered(order'[i])
             \/ pending'[c] = pending[c] /\ pending[c] # i
    PROVE  RowInv'
<1> USE DEF RowInv
<1>1. RowsOK'
  BY DEF RowsOK
<1>2. ASSUME NEW q \in Closers PROVE CallOK(q)'
  <2>1. pc[q] \in {"sent", "resolve", "release"} => ord[q] \in Ids
    BY DEF Typed, LabelsOK
  <2> QED BY <2>1, OthersKeep
<1>3. CallsApart'
  BY DEF CallsApart
<1>4. DoubtsOK'
  <2>1. \A c \in Contracts : pending[c] # NoOrder => pending[c] \in Ids
    BY MemoryParts DEF Typed, TypeOK
  <2> QED BY <2>1 DEF DoubtsOK
<1> QED BY <1>1, <1>2, <1>3, <1>4

\* The row that place_order() works on is nobody else's.
LEMMA SentAlone ==
    ASSUME Typed, RowInv, NEW p \in Closers, pc[p] = "sent"
    PROVE  /\ ord[p] \in Ids /\ order[ord[p]].status = "PENDING"
           /\ \A q \in Closers \ {p} :
                pc[q] \in {"sent", "resolve", "release"} => ord[q] # ord[p]
           /\ \A c \in Contracts : pending[c] # ord[p]
<1>1. ord[p] \in Ids /\ order[ord[p]].status = "PENDING"
  BY DEF Typed, LabelsOK, RowInv, CallOK
<1>2. ASSUME NEW q \in Closers \ {p}, pc[q] \in {"sent", "resolve", "release"},
             ord[q] = ord[p]
      PROVE  FALSE
  BY <1>1, <1>2 DEF RowInv, CallOK, CallsApart, Remembered, Taken
<1>3. ASSUME NEW c \in Contracts, pending[c] = ord[p] PROVE FALSE
  BY <1>1, <1>3 DEF RowInv, DoubtsOK, Remembered, NoOrder, Ids
<1> QED BY <1>1, <1>2, <1>3

LEMMA RowInit == Init => RowInv
BY DEF Init, RowInv, RowsOK, RowOK, Blank, CallOK, CallsApart, DoubtsOK, Taken

\* Steps that leave the table alone, of a call that is nowhere near a row afterwards.
LEMMA RowsStill ==
    ASSUME Typed, RowInv, NEW p \in Closers, UNCHANGED order,
           \A q \in Closers \ {p} :
             pc'[q] = pc[q] /\ mode'[q] = mode[q] /\ at'[q] = at[q] /\ ord'[q] = ord[q],
           pc'[p] # "sent", CallOK(p)', saved'.pending = pending',
           \A c \in Contracts : pending'[c] \in {pending[c], NoOrder}
    PROVE  RowInv'
<1> USE DEF RowInv
<1>1. RowsOK'
  BY DEF RowsOK
<1>2. \A q \in Closers : CallOK(q)'
  BY OthersKeep
<1>3. CallsApart' /\ DoubtsOK'
  BY DEF CallsApart, DoubtsOK
<1> QED BY <1>1, <1>2, <1>3

\* After its answer a call goes on to book a close, or is done.
LEMMA Settled ==
    ASSUME Typed, NEW p \in Closers, Settle(p) \/ Leave(p), UNCHANGED mode
    PROVE  /\ pc'[p] \in {"release", "scan", "idle"}
           /\ Leave(p) => pc'[p] \in {"scan", "idle"}
           /\ pc'[p] = "release" => ord'[p] = ord[p]
           /\ \A q \in Closers \ {p} :
                pc'[q] = pc[q] /\ mode'[q] = mode[q] /\ at'[q] = at[q] /\ ord'[q] = ord[q]
BY DEF Settle, Leave, Goto, Typed, TypeOK, LocalsOK

LEMMA RowExit ==
    ASSUME Typed, RowInv, NEW p \in Closers, NEW c \in Contracts, Exit(p, c)
    PROVE  RowInv'
<1>1. /\ UNCHANGED <<order, pending, saved>>
      /\ \A q \in Closers \ {p} :
           pc'[q] = pc[q] /\ mode'[q] = mode[q] /\ at'[q] = at[q] /\ ord'[q] = ord[q]
      /\ \/ pc'[p] = "place"
         \/ pc'[p] = "resolve" /\ ord'[p] = pending[c] /\ pending[c] # NoOrder
  BY DEF Exit, Goto, Typed, TypeOK, LocalsOK, brokerVars, memoryVars
<1>2. CallOK(p)'
  BY <1>1 DEF RowInv, CallOK, DoubtsOK
<1> QED BY <1>1, <1>2, RowsStill DEF RowInv, DoubtsOK

LEMMA RowResolve == ASSUME Typed, RowInv, NEW p \in Closers, Resolve(p) PROVE RowInv'
<1>1. /\ pc[p] = "resolve" /\ at[p] \in Contracts /\ Remembered(order[ord[p]])
      /\ UNCHANGED <<order, mode>>
  BY DEF Resolve, brokerVars, Typed, LabelsOK, Exiting, RowInv, CallOK
<1>2. CASE order[ord[p]].status = "PENDING_VERIFICATION"
  <2>1. Leave(p) /\ UNCHANGED <<pending, saved>>
    BY <1>2 DEF Resolve
  <2>2. CallOK(p)'
    BY <1>1, <2>1, Settled DEF CallOK
  <2> QED BY <1>1, <2>1, <2>2, Settled, RowsStill DEF RowInv, DoubtsOK
<1>3. CASE order[ord[p]].status # "PENDING_VERIFICATION"
  <2>1. pending' = [pending EXCEPT ![at[p]] = NoOrder] /\ saved'.pending = pending'
    BY <1>3 DEF Resolve
  <2>2. \A c \in Contracts : pending'[c] \in {pending[c], NoOrder}
    BY <2>1, MemoryParts DEF Typed, TypeOK
  <2>3. CASE order[ord[p]].status \in Bad
    <3>1. /\ pc'[p] = "place"
          /\ \A q \in Closers \ {p} :
               pc'[q] = pc[q] /\ mode'[q] = mode[q] /\ at'[q] = at[q] /\ ord'[q] = ord[q]
      BY <1>1, <1>3, <2>3 DEF Resolve, Goto, Typed, TypeOK, LocalsOK
    <3>2. CallOK(p)'
      BY <3>1 DEF CallOK
    <3> QED BY <1>1, <2>1, <2>2, <3>1, <3>2, RowsStill
  <2>4. CASE order[ord[p]].status \notin Bad
    <3>1. Settle(p) /\ order[ord[p]].status \in Taken
      BY <1>1, <1>3, <2>4 DEF Resolve, Remembered, Bad, Taken
    <3>2. CallOK(p)'
      BY <1>1, <3>1, Settled DEF CallOK
    <3> QED BY <1>1, <2>1, <2>2, <3>1, <3>2, Settled, RowsStill
  <2> QED BY <2>3, <2>4
<1> QED BY <1>2, <1>3

\* A new order, of the cycle or of a handler.
LEMMA RowSend ==
    ASSUME Typed, RowInv, NEW p \in Closers, NEW c \in Contracts,
           NEW side \in {"BUY", "SELL"}, NEW lots \in Nat, NEW entry \in BOOLEAN,
           SendOrder(p, c, side, lots, entry),
           entry => side = "BUY", entry <=> mode[p] = "entry", pc[p] \notin {"sent", "idle"},
           at' = [at EXCEPT ![p] = c], UNCHANGED <<mode, pending, saved>>
    PROVE  RowInv'
<1> DEFINE i == NextSlot
<1>1. i \in Ids /\ Unused(i)
  BY FreshSlot DEF SendOrder
<1>2. /\ ord' = [ord EXCEPT ![p] = i] /\ pc' = [pc EXCEPT ![p] = "sent"]
      /\ order' = [order EXCEPT ![i] =
                    [contract |-> c, side |-> side, lots |-> lots, entry |-> entry,
                     status |-> "PENDING", fate |-> "flying"]]
  BY DEF SendOrder, Goto
<1> HIDE DEF i
<1>3. \A q \in Closers \ {p} :
        /\ pc'[q] = pc[q] /\ mode'[q] = mode[q] /\ at'[q] = at[q] /\ ord'[q] = ord[q]
        /\ pc[q] \in {"sent", "resolve", "release"} => ord[q] # i
  BY <1>1, <1>2 DEF Unused, Typed, TypeOK, LocalsOK
<1>4. /\ order'[i] = [contract |-> c, side |-> side, lots |-> lots, entry |-> entry,
                      status |-> "PENDING", fate |-> "flying"]
      /\ \A j \in Ids \ {i} : order'[j] = order[j]
  BY <1>1, <1>2 DEF Typed, TypeOK, BrokerOK
<1>5. CallOK(p)'
  BY <1>2, <1>4 DEF CallOK, Typed, TypeOK, LocalsOK
<1>6. RowOK(order'[i])
  BY <1>4 DEF RowOK, Taken
<1>7. /\ \A d \in Contracts : pending[d] # i
      /\ pc'[p] = "sent" => ord'[p] = i
  BY <1>1, <1>2 DEF Unused, Typed, TypeOK, LocalsOK
<1> QED BY <1>1, <1>3, <1>4, <1>5, <1>6, <1>7, OwnRow DEF RowInv, DoubtsOK

LEMMA RowPlace == ASSUME Typed, RowInv, NEW p \in Closers, Place(p) PROVE RowInv'
<1>1. at[p] \in Contracts /\ Abs(snap[p][at[p]]) \in Nat /\ mode[p] # "entry"
      /\ pc[p] = "place" /\ at' = [at EXCEPT ![p] = at[p]]
  BY AbsIsNat DEF Place, Typed, TypeOK, LabelsOK, LocalsOK, Exiting
<1>2. UNCHANGED <<mode, pending, saved>>
  BY DEF Place, memoryVars
<1> DEFINE side == IF snap[p][at[p]] < 0 /\ mode[p] \in {"squareoff", "orphan"}
                   THEN "BUY" ELSE "SELL"
<1>3. SendOrder(p, at[p], side, Abs(snap[p][at[p]]), FALSE) /\ side \in {"BUY", "SELL"}
  BY DEF Place
<1> HIDE DEF side
<1> QED BY <1>1, <1>2, <1>3, RowSend

\* The four answers to an order that was sent.
LEMMA RowAnswer ==
    ASSUME Typed, RowInv, NEW p \in Closers,
           ExitTaken(p) \/ ExitFailed(p) \/ ExitDoubtful(p)
    PROVE  RowInv'
<1> DEFINE i == ord[p]
<1>1. /\ i \in Ids /\ order[i].status = "PENDING" /\ order[i].fate \notin {"none", "lost"}
      /\ ~order[i].entry /\ RowOK(order[i])
      /\ at[p] \in Contracts /\ UNCHANGED mode
      /\ \A q \in Closers \ {p} : pc[q] \in {"sent", "resolve", "release"} => ord[q] # i
      /\ \A c \in Contracts : pending[c] # i
  BY SentAlone DEF ExitTaken, ExitFailed, ExitDoubtful, RowInv, CallOK, RowsOK, Typed,
     LabelsOK, Exiting
<1> HIDE DEF i
<1>2. CASE ExitTaken(p)
  <2>1. order' = [order EXCEPT ![i].status = "OPEN"] /\ order[i].fate # "flying"
        /\ (Settle(p) \/ Leave(p)) /\ UNCHANGED <<pending, saved>>
    BY <1>2 DEF ExitTaken, i
  <2>2. \A j \in Ids \ {i} : order'[j] = order[j]
    BY <1>1, <2>1, TypedStatus DEF Typed, TypeOK, Statuses
  <2>3. order'[i] = [order[i] EXCEPT !.status = "OPEN"]
    BY <1>1, <2>1, TypedStatus DEF Typed, TypeOK, Statuses
  <2>5. RowOK(order'[i]) /\ order'[i].status = "OPEN"
    BY <1>1, <2>1, <2>3 DEF RowOK, Typed, TypeOK, BrokerOK, Rows, Fates, Taken
  <2>6. CallOK(p)'
    BY <2>1, <2>5, Settled, <1>1 DEF CallOK, Taken, i
  <2> QED BY <1>1, <2>1, <2>2, <2>5, <2>6, Settled, OwnRow DEF RowInv, DoubtsOK
<1>3. CASE ExitFailed(p)
  <2>1. /\ order' = [order EXCEPT ![i].status = "FAILED", ![i].fate = "lost"]
        /\ Leave(p) /\ UNCHANGED <<pending, saved>>
    BY <1>3 DEF ExitFailed, i, memoryVars
  <2>2. \A j \in Ids \ {i} : order'[j] = order[j]
    BY <1>1, <2>1, TypedWrite DEF Typed, TypeOK, Statuses, Final, Fates
  <2>3. order'[i] = [order[i] EXCEPT !.status = "FAILED", !.fate = "lost"]
    BY <1>1, <2>1, TypedWrite DEF Typed, TypeOK, Statuses, Final, Fates
  <2>4. RowOK(order'[i])
    BY <1>1, <2>3 DEF RowOK, Typed, TypeOK, BrokerOK, Rows, Taken
  <2>5. CallOK(p)'
    BY <1>1, <2>1, Settled DEF CallOK
  <2>6. /\ saved'.pending = pending'
        /\ \A c \in Contracts : pending'[c] = pending[c] /\ pending[c] # i
    BY <1>1, <2>1 DEF RowInv, DoubtsOK
  <2>7. /\ pc'[p] # "sent"
        /\ \A q \in Closers \ {p} :
             pc'[q] = pc[q] /\ mode'[q] = mode[q] /\ at'[q] = at[q] /\ ord'[q] = ord[q]
    BY <1>1, <2>1, Settled
  <2> QED BY <1>1, <2>2, <2>4, <2>5, <2>6, <2>7, OwnRow
<1>4. CASE ExitDoubtful(p)
  <2>1. /\ Doubt(i) /\ Leave(p)
        /\ \/ UNCHANGED <<pending, saved>>
           \/ pending' = [pending EXCEPT ![at[p]] = i] /\ saved'.pending = pending'
    BY <1>4 DEF ExitDoubtful, i, memoryVars, Persist
  <2>2. \A j \in Ids \ {i} : order'[j] = order[j]
    BY <1>1, <2>1, TypedDoubt DEF Typed, TypeOK
  <2>3. PICK f : order'[i] = [order[i] EXCEPT !.status = "PENDING_VERIFICATION", !.fate = f]
                   /\ (f = order[i].fate \/ f = "lost")
    BY <1>1, <2>1, TypedDoubt DEF Typed, TypeOK
  <2>4. RowOK(order'[i]) /\ Remembered(order'[i])
    BY <1>1, <2>3 DEF RowOK, Remembered, Typed, TypeOK, BrokerOK, Rows, Taken
  <2>5. CallOK(p)'
    BY <1>1, <2>1, Settled DEF CallOK
  <2>6. saved'.pending = pending' /\
        \A c \in Contracts : pending'[c] # NoOrder =>
             \/ pending'[c] = i /\ Remembered(order'[i])
             \/ pending'[c] = pending[c] /\ pending[c] # i
    BY <1>1, <2>1, <2>4, MemoryParts DEF RowInv, DoubtsOK, Typed, TypeOK
  <2> QED BY <1>1, <2>1, <2>2, <2>4, <2>5, <2>6, Settled, OwnRow
<1> QED BY <1>2, <1>3, <1>4

LEMMA RowEntry ==
    ASSUME Typed, RowInv, Buy \/ EntryTaken \/ EntryNotTaken \/ Journal
    PROVE  RowInv'
<1> USE ClosersAre
<1>1. CASE Buy
  <2>1. target \in Contracts /\ mode[Cycle] = "entry" /\ pc[Cycle] = "buy"
        /\ SendOrder(Cycle, target, "BUY", 1, TRUE)
        /\ at' = [at EXCEPT ![Cycle] = target]
        /\ UNCHANGED <<mode, pending, saved>>
    BY <1>1 DEF Buy, Typed, LabelsOK, memoryVars
  <2> QED BY <2>1, RowSend
<1>2. CASE Journal
  <2>1. /\ UNCHANGED <<order, mode, pending>> /\ BackToEntry
        /\ \/ saved'.pending = pending \/ UNCHANGED saved
    BY <1>2 DEF Journal, brokerVars, Persist
  <2>2. pc'[Cycle] = "entry"
        /\ \A q \in Closers \ {Cycle} :
             pc'[q] = pc[q] /\ mode'[q] = mode[q] /\ at'[q] = at[q] /\ ord'[q] = ord[q]
    BY <2>1 DEF BackToEntry, Goto, Typed, TypeOK, LocalsOK
  <2>3. CallOK(Cycle)'
    BY <2>2 DEF CallOK
  <2> QED BY <2>1, <2>2, <2>3, RowsStill DEF RowInv, DoubtsOK
<1>3. ASSUME EntryTaken \/ EntryNotTaken PROVE RowInv'
  <2> DEFINE i == ord[Cycle]
  <2>1. /\ i \in Ids /\ order[i].status = "PENDING" /\ order[i].fate \notin {"none", "lost"}
        /\ order[i].entry /\ RowOK(order[i]) /\ UNCHANGED <<mode, pending, saved>>
        /\ \A q \in Closers \ {Cycle} : pc[q] \in {"sent", "resolve", "release"} => ord[q] # i
        /\ \A c \in Contracts : pending[c] # i
    BY <1>3, SentAlone DEF EntryTaken, EntryNotTaken, RowInv, CallOK, RowsOK, Typed,
       LabelsOK, memoryVars
  <2>2. /\ saved'.pending = pending'
        /\ \A c \in Contracts : pending'[c] = pending[c] /\ pending[c] # i
    BY <2>1 DEF RowInv, DoubtsOK
  <2>3. /\ pc'[Cycle] \in {"journal", "entry"}
        /\ \A q \in Closers \ {Cycle} :
             pc'[q] = pc[q] /\ mode'[q] = mode[q] /\ at'[q] = at[q] /\ ord'[q] = ord[q]
    BY <1>3 DEF EntryTaken, EntryNotTaken, BackToEntry, Goto, Typed, TypeOK, LocalsOK
  <2>4. CallOK(Cycle)'
    BY <2>3 DEF CallOK
  <2> HIDE DEF i
  <2>5. (\A j \in Ids \ {i} : order'[j] = order[j]) /\ RowOK(order'[i])
    <3>1. CASE EntryTaken
      <4>1. order' = [order EXCEPT ![i].status = "OPEN"] /\ order[i].fate # "flying"
        BY <3>1 DEF EntryTaken, i
      <4>2. \A j \in Ids \ {i} : order'[j] = order[j]
        BY <2>1, <4>1, TypedStatus DEF Typed, TypeOK, Statuses
      <4>3. order'[i] = [order[i] EXCEPT !.status = "OPEN"]
        BY <2>1, <4>1, TypedStatus DEF Typed, TypeOK, Statuses
      <4>4. RowOK(order'[i])
        BY <2>1, <4>1, <4>3 DEF RowOK, Typed, TypeOK, BrokerOK, Rows, Fates, Taken
      <4> QED BY <4>2, <4>4
    <3>2. CASE order' = [order EXCEPT ![i].status = "FAILED", ![i].fate = "lost"]
      <4>1. \A j \in Ids \ {i} : order'[j] = order[j]
        BY <2>1, <3>2, TypedWrite DEF Typed, TypeOK, Statuses, Final, Fates
      <4>2. order'[i] = [order[i] EXCEPT !.status = "FAILED", !.fate = "lost"]
        BY <2>1, <3>2, TypedWrite DEF Typed, TypeOK, Statuses, Final, Fates
      <4>3. RowOK(order'[i])
        BY <2>1, <4>2 DEF RowOK, Typed, TypeOK, BrokerOK, Rows, Taken
      <4> QED BY <4>1, <4>3
    <3>3. CASE Doubt(i)
      <4>1. \A j \in Ids \ {i} : order'[j] = order[j]
        BY <2>1, <3>3, TypedDoubt DEF Typed, TypeOK
      <4>2. PICK f : order'[i] = [order[i] EXCEPT !.status = "PENDING_VERIFICATION",
                                                 !.fate = f]
        BY <2>1, <3>3, TypedDoubt DEF Typed, TypeOK
      <4>3. RowOK(order'[i])
        BY <2>1, <4>2 DEF RowOK, Typed, TypeOK, BrokerOK, Rows, Taken
      <4> QED BY <4>1, <4>3
    <3> QED BY <1>3, <3>1, <3>2, <3>3 DEF EntryNotTaken, i
  <2> QED BY <2>1, <2>2, <2>3, <2>4, <2>5, OwnRow
<1> QED BY <1>1, <1>2, <1>3

LEMMA RowReading ==
    ASSUME Typed, RowInv, Reading \/ SquareOffDone \/ RestoreDone
    PROVE  RowInv'
<1> USE ClosersAre
<1>1. UNCHANGED <<order, pending, at, ord>> /\ saved'.pending = pending'
  BY DEF Reading, StartCycle, ReadPositions, ExitsDone, SquareOff, ReversalDone, NoSignal,
     GateShut, FindOrphans, Hold, Signal, ScanDone, SquareOffDone, RestoreDone, Persist,
     brokerVars, memoryVars, RowInv, DoubtsOK
<1>2. \A q \in Closers \ {Cycle} :
        pc'[q] = pc[q] /\ mode'[q] = mode[q] /\ at'[q] = at[q] /\ ord'[q] = ord[q]
  BY <1>1 DEF Reading, StartCycle, ReadPositions, ExitsDone, SquareOff, ReversalDone,
     NoSignal, GateShut, FindOrphans, Hold, Signal, ScanDone, SquareOffDone, RestoreDone,
     Goto, Typed, TypeOK, LocalsOK
<1>3. pc'[Cycle] \in {"verify", "scan", "entry", "idle", "buy"}
  BY DEF Reading, StartCycle, ReadPositions, ExitsDone, SquareOff, ReversalDone, NoSignal,
     GateShut, FindOrphans, Hold, Signal, ScanDone, SquareOffDone, RestoreDone, Goto,
     Typed, TypeOK, LocalsOK
<1>4. CallOK(Cycle)'
  BY <1>3 DEF CallOK
<1> QED BY <1>1, <1>2, <1>3, <1>4, RowsStill

\* One row that the cycle looks up, or that the exchange or the order job moves.
LEMMA RowMoves ==
    ASSUME Typed, RowInv, NEW i \in Ids,
           Verify(i) \/ ExpireStale(i) \/ Land(i) \/ Fill(i) \/ Sync(i)
    PROVE  Advance(order[i], order'[i]) /\ \A j \in Ids \ {i} : order'[j] = order[j]
<1>1. order[i] \in Rows /\ RowOK(order[i])
  BY DEF Typed, TypeOK, BrokerOK, RowInv, RowsOK
<1>2. ASSUME NEW s \in Statuses, order' = [order EXCEPT ![i].status = s],
             Advance(order[i], [order[i] EXCEPT !.status = s])
      PROVE  Advance(order[i], order'[i]) /\ \A j \in Ids \ {i} : order'[j] = order[j]
  BY <1>2, TypedStatus DEF Typed, TypeOK
<1>3. ASSUME NEW f \in Fates, order' = [order EXCEPT ![i].fate = f],
             Advance(order[i], [order[i] EXCEPT !.fate = f])
      PROVE  Advance(order[i], order'[i]) /\ \A j \in Ids \ {i} : order'[j] = order[j]
  BY <1>3, TypedFate DEF Typed, TypeOK
<1>4. ASSUME NEW s \in Statuses, NEW f \in Fates,
             order' = [order EXCEPT ![i].status = s, ![i].fate = f],
             Advance(order[i], [order[i] EXCEPT !.status = s, !.fate = f])
      PROVE  Advance(order[i], order'[i]) /\ \A j \in Ids \ {i} : order'[j] = order[j]
  BY <1>4, TypedWrite DEF Typed, TypeOK
<1> USE <1>1 DEF Advance, RowOK, Remembered, Taken, Rows
<1>5. CASE Verify(i)
  <2>1. CASE order[i].fate \in {"resting", "filled"}
    <3>1. Advance(order[i], [order[i] EXCEPT !.status = "OPEN"])
      BY <1>5, <2>1 DEF Verify
    <3> QED BY <1>2, <1>5, <2>1, <3>1 DEF Verify, Statuses
  <2>2. CASE order[i].fate \notin {"resting", "filled"}
    <3>1. Advance(order[i], [order[i] EXCEPT !.status = "FAILED", !.fate = "lost"])
      BY <1>5, <2>2 DEF Verify
    <3> QED BY <1>4, <1>5, <2>2, <3>1 DEF Verify, Statuses, Final, Fates
  <2> QED BY <2>1, <2>2
<1>6. CASE ExpireStale(i)
  <2>1. Advance(order[i], [order[i] EXCEPT !.status = "EXPIRED", !.fate = "killed"])
    BY <1>6 DEF ExpireStale
  <2> QED BY <1>4, <1>6, <2>1 DEF ExpireStale, Statuses, Final, Fates
<1>7. CASE Land(i)
  <2>1. order[i].entry => Advance(order[i], [order[i] EXCEPT !.fate = "resting"])
    BY <1>7 DEF Land
  <2>2. /\ Advance(order[i], [order[i] EXCEPT !.fate = "filled"])
        /\ Advance(order[i], [order[i] EXCEPT !.fate = "killed"])
    BY <1>7 DEF Land
  <2> QED BY <1>3, <1>7, <2>1, <2>2 DEF Land, Fates
<1>8. CASE Fill(i)
  <2>1. Advance(order[i], [order[i] EXCEPT !.fate = "filled"])
    BY <1>8 DEF Fill
  <2> QED BY <1>3, <1>8, <2>1 DEF Fill, Fates
<1>9. CASE Sync(i)
  <2>1. order[i].fate = "filled" =>
          Advance(order[i], [order[i] EXCEPT !.status = "COMPLETED"])
    BY <1>9 DEF Sync
  <2>2. order[i].fate = "killed" =>
          Advance(order[i], [order[i] EXCEPT !.status = "REJECTED"])
    BY <1>9 DEF Sync
  <2> QED BY <1>2, <1>9, <2>1, <2>2 DEF Sync, Statuses, Final
<1> QED BY <1>5, <1>6, <1>7, <1>8, <1>9

LEMMA RowJobs ==
    ASSUME Typed, RowInv, NEW i \in Ids,
           Verify(i) \/ ExpireStale(i) \/ Land(i) \/ Fill(i) \/ Sync(i)
    PROVE  RowInv'
<1>1. \A j \in Ids : Advance(order[j], order'[j])
  BY RowMoves, Still DEF RowInv, RowsOK
<1>2. UNCHANGED <<pc, mode, at, ord, pending, saved>>
  BY DEF Verify, ExpireStale, Land, Fill, Sync, localVars, memoryVars
<1> QED BY <1>1, <1>2, RowsAdvance DEF RowInv, DoubtsOK

\* What was flying when the process died, or the day ended, is lost.
LEMMA RowLost ==
    ASSUME Typed, RowInv,
           order' = [i \in Ids |-> IF order[i].fate = "flying"
                                   THEN [order[i] EXCEPT !.fate = "lost"] ELSE order[i]]
    PROVE  \A i \in Ids : /\ RowOK(order'[i])
                          /\ Remembered(order[i]) => Remembered(order'[i])
<1> SUFFICES ASSUME NEW i \in Ids
             PROVE  /\ RowOK(order'[i])
                    /\ Remembered(order[i]) => Remembered(order'[i])
  OBVIOUS
<1>1. order[i] \in Rows /\ RowOK(order[i])
  BY DEF Typed, TypeOK, BrokerOK, RowInv, RowsOK
<1>2. order'[i] = IF order[i].fate = "flying" THEN [order[i] EXCEPT !.fate = "lost"]
                                              ELSE order[i]
  OBVIOUS
<1> QED BY <1>1, <1>2 DEF RowOK, Remembered, Taken, Rows

LEMMA RowClock == ASSUME Typed, RowInv, LateInTheDay \/ NextDay \/ Crash PROVE RowInv'
<1>1. CASE LateInTheDay
  <2>1. \A i \in Ids : order[i] \in Rows /\ RowOK(order[i])
    BY DEF Typed, TypeOK, BrokerOK, RowInv, RowsOK
  <2>2. ASSUME NEW i \in Ids PROVE Advance(order[i], order'[i])
    <3>1. \/ order' = order
          \/ order' = [j \in Ids |-> IF order[j].fate = "resting"
                                     THEN [order[j] EXCEPT !.fate = "killed"]
                                     ELSE order[j]]
      BY <1>1 DEF LateInTheDay
    <3>2. \/ order'[i] = order[i]
          \/ order[i].fate = "resting" /\ order'[i] = [order[i] EXCEPT !.fate = "killed"]
      BY <3>1
    <3>3. order[i].fate = "resting" =>
            Advance(order[i], [order[i] EXCEPT !.fate = "killed"])
      BY <2>1 DEF Advance, RowOK, Remembered, Taken, Rows
    <3> QED BY <2>1, <3>2, <3>3, Still
  <2>3. UNCHANGED <<pc, mode, at, ord, pending, saved>>
    BY <1>1 DEF LateInTheDay, localVars, memoryVars
  <2> QED BY <2>2, <2>3, RowsAdvance DEF RowInv, DoubtsOK
<1>2. CASE NextDay \/ Crash
  <2>1. \A i \in Ids : /\ RowOK(order'[i])
                       /\ Remembered(order[i]) => Remembered(order'[i])
    BY <1>2, RowLost DEF NextDay, Crash
  <2>2. pending' = pending /\ saved'.pending = pending
    BY <1>2, MemoryParts
    DEF NextDay, Crash, memoryVars, RowInv, DoubtsOK, Typed, TypeOK, Memory
  <2>3. \A p \in Closers : pc'[p] \in {"idle", "restore"}
    BY <1>2 DEF NextDay, Crash, Quiet, localVars
  <2>4. \A c \in Contracts : pending[c] # NoOrder => pending[c] \in Ids
    BY MemoryParts DEF Typed, TypeOK
  <2>5. DoubtsOK'
    BY <2>1, <2>2, <2>4 DEF DoubtsOK, RowInv
  <2> QED BY <2>1, <2>3, <2>5 DEF RowInv, RowsOK, CallOK, CallsApart
<1> QED BY <1>1, <1>2

LEMMA RowRelease ==
    ASSUME Typed, RowInv, NEW p \in Closers, Release(p)
    PROVE  RowInv'
<1>1. /\ UNCHANGED <<order, pending, mode>> /\ Leave(p)
      /\ \/ saved'.pending = pending' \/ UNCHANGED saved
  BY DEF Release, brokerVars, Persist
<1>2. CallOK(p)'
  BY <1>1, Settled DEF CallOK
<1> QED BY <1>1, <1>2, Settled, RowsStill DEF RowInv, DoubtsOK

LEMMA RowManual ==
    ASSUME Typed, RowInv, NEW p \in Admins, NEW c \in Contracts, ManualClose(p, c)
    PROVE  RowInv'
<1>1. /\ UNCHANGED <<order, pending, saved, mode, at, ord>> /\ pc'[p] = "scan"
      /\ p \in Closers /\ \A q \in Closers \ {p} : pc'[q] = pc[q]
  BY DEF ManualClose, brokerVars, memoryVars, Goto, Typed, TypeOK, LocalsOK, Closers
<1>2. CallOK(p)'
  BY <1>1 DEF CallOK
<1> QED BY <1>1, <1>2, RowsStill DEF RowInv, DoubtsOK

LEMMA RowStep == ASSUME Typed, RowInv, [Next]_vars PROVE RowInv'
<1>1. CASE UNCHANGED vars
  <2>1. UNCHANGED <<order, pc, mode, at, ord, pending, saved>>
    BY <1>1 DEF vars, brokerVars, memoryVars, localVars
  <2>2. \A i \in Ids : Advance(order[i], order'[i])
    BY <2>1, Still DEF RowInv, RowsOK
  <2> QED BY <2>1, <2>2, RowsAdvance DEF RowInv, DoubtsOK
<1>2. CASE CycleStep
  BY <1>2, RowReading, RowEntry, RowJobs DEF CycleStep, Reading
<1>3. CASE EnvStep
  BY <1>3, RowJobs, RowClock DEF EnvStep
<1>4. ASSUME NEW p \in Closers, ExitStep(p) PROVE RowInv'
  BY <1>4, RowExit, RowResolve, RowPlace, RowAnswer, RowRelease DEF ExitStep
<1> QED BY <1>1, <1>2, <1>3, <1>4, RowManual DEF Next

LEMMA RowsHold == Spec => [](Typed /\ RowInv)
<1>1. Init => Typed /\ RowInv
  BY TypedInit, RowInit
<1>2. Typed /\ RowInv /\ [Next]_vars => (Typed /\ RowInv)'
  BY TypedStep, RowStep
<1> QED BY <1>1, <1>2, PTL DEF Spec

\* No close is booked, by the cycle, the square-off, a handler or after a restart, for an
\* order that failed or that never arrived: each of them books only on an answer, or on
\* a look at a row that says the exchange has it.
THEOREM ClosesAreAccepted == Spec => []CloseWasAccepted
<1>1. ASSUME Typed, RowInv PROVE CloseWasAccepted
  BY <1>1 DEF CloseWasAccepted, Typed, LabelsOK, RowInv, CallOK, RowsOK, RowOK
<1>2. Typed /\ RowInv => CloseWasAccepted
  BY <1>1
<1> QED BY RowsHold, <1>2, PTL

-----------------------------------------------------------------------------
(* What the engine sells, it holds.                                        *)

LEMMA SaleInit == Init => SaleInv
BY ClosersAre DEF Init, SaleInv, OthersNoted, CycleRemembers, Alone, Deciding, OnItsWay, Blank,
   Flat, Exiting, Ids

\* A step that sells nothing of c, and that does not make the cycle decide on c.
LEMMA AloneFrame ==
    ASSUME Typed, Typed', NEW c \in Contracts, Alone(c),
           held'[c] >= held[c],
           Deciding(c)' => Deciding(c) /\ snap'[Cycle][c] = snap[Cycle][c],
           Deciding(c)' /\ NoneOutstanding(c)' => NoneOutstanding(c),
           \A i \in Ids : OnItsWay(i)' /\ order'[i].contract = c =>
             /\ OnItsWay(i) /\ order[i].contract = c
             /\ order'[i].side = order[i].side /\ order'[i].lots = order[i].lots
             /\ \/ pc'[Cycle] = "sent" /\ ord'[Cycle] = i
                \/ pending'[c] = i /\ order'[i].status = "PENDING_VERIFICATION"
    PROVE  Alone(c)'
<1>1. /\ held[c] \in Int /\ held'[c] \in Int
      /\ snap[Cycle][c] \in Int /\ snap'[Cycle][c] \in Int
      /\ \A i \in Ids : order[i].lots \in Int
  BY ClosersAre DEF Typed, TypeOK, BrokerOK, LocalsOK, Rows
<1>2. held'[c] >= 0
  BY <1>1 DEF Alone
<1>3. Deciding(c)' => snap'[Cycle][c] > 0
  BY DEF Alone
<1>4. Deciding(c)' /\ NoneOutstanding(c)' => snap'[Cycle][c] <= held'[c]
  BY <1>1 DEF Alone
<1>5. ASSUME NEW i \in Ids, OnItsWay(i)', order'[i].contract = c
      PROVE  /\ order'[i].side = "SELL" /\ order'[i].lots <= held'[c]
             /\ \/ pc'[Cycle] = "sent" /\ ord'[Cycle] = i
                \/ pending'[c] = i /\ order'[i].status = "PENDING_VERIFICATION"
  BY <1>1, <1>5 DEF Alone
<1> QED BY <1>2, <1>3, <1>4, <1>5 DEF Alone

\* Only p moves.
LEMMA NotedFrame ==
    ASSUME OthersNoted, others \subseteq others', NEW p \in Closers,
           \A q \in Closers \ {p} : pc'[q] = pc[q] /\ mode'[q] = mode[q] /\ at'[q] = at[q],
           pc'[p] \in Exiting /\ (p # Cycle \/ mode'[p] = "orphan") => at'[p] \in others'
    PROVE  OthersNoted'
BY DEF OthersNoted

\* The cycle reads positions, or goes from one part of its work to the next.
LEMMA SaleReading ==
    ASSUME Typed, Typed', RowInv, SaleInv, Reading \/ SquareOffDone \/ RestoreDone
    PROVE  SaleInv'
<1> USE ClosersAre
<1>1. UNCHANGED <<held, order, pending, at, ord, others>>
  BY DEF Reading, StartCycle, ReadPositions, ExitsDone, SquareOff, ReversalDone, NoSignal,
     GateShut, FindOrphans, Hold, Signal, ScanDone, SquareOffDone, RestoreDone,
     brokerVars, memoryVars
<1>2. \A q \in Closers \ {Cycle} : pc'[q] = pc[q] /\ mode'[q] = mode[q] /\ at'[q] = at[q]
  BY <1>1 DEF Reading, StartCycle, ReadPositions, ExitsDone, SquareOff, ReversalDone,
     NoSignal, GateShut, FindOrphans, Hold, Signal, ScanDone, SquareOffDone, RestoreDone,
     Goto, Typed, TypeOK, LocalsOK
<1>3. /\ pc[Cycle] \in {"idle", "verify", "scan", "entry", "buy", "restore"}
      /\ pc'[Cycle] \in {"verify", "scan", "entry", "idle", "buy"}
  BY DEF Reading, StartCycle, ReadPositions, ExitsDone, SquareOff, ReversalDone, NoSignal,
     GateShut, FindOrphans, Hold, Signal, ScanDone, SquareOffDone, RestoreDone, Goto,
     Typed, TypeOK, LocalsOK
<1>4. OthersNoted'
  BY <1>1, <1>2, <1>3, NotedFrame DEF SaleInv, Exiting
<1>5. CycleRemembers'
  BY <1>3 DEF CycleRemembers
<1>6. ASSUME NEW c \in Contracts, Deciding(c)'
      PROVE  \/ Deciding(c) /\ snap'[Cycle][c] = snap[Cycle][c]
             \/ snap'[Cycle][c] = held[c] /\ held[c] # 0
  <2>0. pc'[Cycle] = "scan" /\ c \in todo'[Cycle] /\ mode'[Cycle] # "orphan"
    BY <1>3, <1>6 DEF Deciding, Exiting
  <2>1. CASE \E d \in Contracts : Hold(d)
    BY <2>0, <2>1 DEF Hold, Deciding, Typed, LabelsOK, TypeOK, LocalsOK
  <2>2. CASE ReadPositions \/ SquareOff \/ \E d \in Contracts : Signal(d)
    BY <2>0, <2>2 DEF ReadPositions, SquareOff, Signal, Positions, Flat, Goto, Typed, TypeOK,
       LocalsOK
  <2>3. CASE FindOrphans
    BY <2>0, <2>3 DEF FindOrphans, Typed, TypeOK, LocalsOK
  <2>4. CASE \/ StartCycle \/ ExitsDone \/ ReversalDone \/ NoSignal \/ GateShut
             \/ SquareOffDone \/ RestoreDone
    BY <2>0, <2>4 DEF StartCycle, ExitsDone, ReversalDone, NoSignal, GateShut, ScanDone,
       SquareOffDone, RestoreDone, Goto, Typed, TypeOK, LocalsOK
  <2> QED BY <2>1, <2>2, <2>3, <2>4 DEF Reading
<1>7. ASSUME NEW c \in Contracts \ others PROVE Alone(c)'
  <2>1. Alone(c) /\ held[c] \in Int
    BY DEF SaleInv, Typed, TypeOK, BrokerOK
  <2>2. NoneOutstanding(c)' <=> NoneOutstanding(c)
    BY <1>1 DEF NoneOutstanding
  <2>3. \A i \in Ids : OnItsWay(i)' /\ order'[i].contract = c =>
          /\ OnItsWay(i) /\ order[i].contract = c /\ order'[i] = order[i]
          /\ pending'[c] = i /\ order'[i].status = "PENDING_VERIFICATION"
    BY <1>1, <1>3, <2>1 DEF OnItsWay, Alone
  <2>4. CASE Deciding(c)' => Deciding(c) /\ snap'[Cycle][c] = snap[Cycle][c]
    BY <1>1, <2>1, <2>2, <2>3, <2>4, AloneFrame
  <2>5. CASE snap'[Cycle][c] = held[c] /\ held[c] # 0
    BY <1>1, <2>1, <2>3, <2>5 DEF Alone
  <2> QED BY <1>6, <2>4, <2>5
<1> QED BY <1>1, <1>4, <1>5, <1>7 DEF SaleInv

LEMMA SaleExit ==
    ASSUME Typed, Typed', RowInv, SaleInv, NEW p \in Closers, NEW c \in Contracts, Exit(p, c)
    PROVE  SaleInv'
<1> USE ClosersAre
<1>1. /\ pc[p] = "scan" /\ mode[p] # "entry" /\ c \in todo[p]
      /\ UNCHANGED <<held, order, pending, mode, snap>>
      /\ others \subseteq others'
      /\ todo' = [todo EXCEPT ![p] = @ \ {c}] /\ at'[p] = c
      /\ \A q \in Closers \ {p} : /\ pc'[q] = pc[q] /\ mode'[q] = mode[q] /\ at'[q] = at[q]
                                  /\ ord'[q] = ord[q]
      /\ \/ p = Cycle /\ mode[p] # "orphan" /\ others' = others
         \/ (p # Cycle \/ mode[p] = "orphan") /\ c \in others'
  BY DEF Exit, Goto, Typed, LabelsOK, TypeOK, LocalsOK, brokerVars, memoryVars
<1>2. \/ pc'[p] = "resolve" /\ ord'[p] = pending[c]
      \/ pc'[p] = "place" /\ (pending[c] = NoOrder \/ mode[p] = "orphan")
  BY DEF Exit, Goto, Typed, TypeOK, LocalsOK
<1>3. OthersNoted'
  BY <1>1, NotedFrame DEF SaleInv
<1>4. CycleRemembers'
  <2>1. CASE p = Cycle
    BY <1>1, <1>2, <2>1 DEF CycleRemembers
  <2>2. CASE p # Cycle
    BY <1>1, <2>2 DEF CycleRemembers, SaleInv
  <2> QED BY <2>1, <2>2
<1>5. ASSUME NEW d \in Contracts \ others' PROVE Alone(d)'
  <2>1. Alone(d)
    BY <1>1 DEF SaleInv
  <2>2. Deciding(d)' => Deciding(d)
    BY <1>1, <1>2 DEF Deciding, Exiting, Typed, TypeOK, LocalsOK
  <2>3. NoneOutstanding(d)' <=> NoneOutstanding(d)
    BY <1>1 DEF NoneOutstanding
  <2>4. \A i \in Ids : OnItsWay(i)' /\ order'[i].contract = d =>
          /\ OnItsWay(i) /\ order[i].contract = d /\ order'[i] = order[i]
          /\ \/ pc'[Cycle] = "sent" /\ ord'[Cycle] = i
             \/ pending'[d] = i /\ order'[i].status = "PENDING_VERIFICATION"
    BY <1>1, <2>1 DEF OnItsWay, Alone
  <2>5. held'[d] >= held[d]
    BY <1>1 DEF Typed, TypeOK, BrokerOK
  <2> QED BY <1>1, <2>1, <2>2, <2>3, <2>4, <2>5, AloneFrame
<1> QED BY <1>3, <1>4, <1>5 DEF SaleInv

\* Steps of a handler, or of the reconciliation, about a contract that it has set out
\* to close: whatever they do to that one, the others are left alone.
LEMMA SaleHandler ==
    ASSUME Typed, Typed', SaleInv, NEW p \in Admins,
           UNCHANGED <<held, mode, snap, todo, others>>,
           \A q \in Closers \ {p} : /\ pc'[q] = pc[q] /\ at'[q] = at[q] /\ ord'[q] = ord[q],
           pc'[p] \in Exiting => at'[p] \in others,
           \A c \in Contracts \ others : /\ pending'[c] = pending[c]
                                         /\ pending[c] # NoOrder =>
                                              order'[pending[c]] = order[pending[c]],
           \A i \in Ids : order'[i].fate = "flying" /\ order'[i].contract \notin others =>
                          order'[i] = order[i]
    PROVE  SaleInv'
<1>1. p \in Closers /\ Cycle \in Closers \ {p}
  BY SingleLegConstants DEF Closers
<1>2. OthersNoted'
  BY <1>1, NotedFrame DEF SaleInv
<1>3. CycleRemembers'
  BY <1>1 DEF CycleRemembers, SaleInv, Typed, LabelsOK, Exiting
<1>4. ASSUME NEW c \in Contracts \ others PROVE Alone(c)'
  <2>1. Alone(c) /\ held'[c] >= held[c]
    BY DEF SaleInv, Typed, TypeOK, BrokerOK
  <2>2. Deciding(c)' => Deciding(c) /\ snap'[Cycle][c] = snap[Cycle][c]
    BY <1>1 DEF Deciding
  <2>3. NoneOutstanding(c)' => NoneOutstanding(c)
    BY DEF NoneOutstanding
  <2>4. \A i \in Ids : OnItsWay(i)' /\ order'[i].contract = c =>
          /\ OnItsWay(i) /\ order[i].contract = c /\ order'[i] = order[i]
          /\ \/ pc'[Cycle] = "sent" /\ ord'[Cycle] = i
             \/ pending'[c] = i /\ order'[i].status = "PENDING_VERIFICATION"
    BY <1>1, <2>1 DEF OnItsWay, Alone
  <2> QED BY <2>1, <2>2, <2>3, <2>4, AloneFrame
<1> QED BY <1>2, <1>3, <1>4 DEF SaleInv

LEMMA SaleManual ==
    ASSUME Typed, Typed', SaleInv, NEW p \in Admins, NEW c \in Contracts, ManualClose(p, c)
    PROVE  SaleInv'
<1>1. p \in Closers /\ Cycle \in Closers \ {p}
  BY SingleLegConstants DEF Closers
<1>2. /\ UNCHANGED <<held, order, pending, mode, at, ord, others>>
      /\ pc'[p] = "scan"
      /\ \A q \in Closers \ {p} : pc'[q] = pc[q] /\ snap'[q] = snap[q] /\ todo'[q] = todo[q]
  BY <1>1 DEF ManualClose, Goto, brokerVars, memoryVars, Typed, TypeOK, LocalsOK
<1>3. OthersNoted'
  BY <1>1, <1>2, NotedFrame DEF SaleInv, Exiting
<1>4. CycleRemembers'
  BY <1>1, <1>2 DEF CycleRemembers, SaleInv
<1>5. ASSUME NEW d \in Contracts \ others PROVE Alone(d)'
  <2>1. Alone(d) /\ held'[d] >= held[d]
    BY <1>2 DEF SaleInv, Typed, TypeOK, BrokerOK
  <2>2. Deciding(d)' => Deciding(d) /\ snap'[Cycle][d] = snap[Cycle][d]
    BY <1>1, <1>2 DEF Deciding
  <2>3. NoneOutstanding(d)' => NoneOutstanding(d)
    BY <1>2 DEF NoneOutstanding
  <2>4. \A i \in Ids : OnItsWay(i)' /\ order'[i].contract = d =>
          /\ OnItsWay(i) /\ order[i].contract = d /\ order'[i] = order[i]
          /\ \/ pc'[Cycle] = "sent" /\ ord'[Cycle] = i
             \/ pending'[d] = i /\ order'[i].status = "PENDING_VERIFICATION"
    BY <1>1, <1>2, <2>1 DEF OnItsWay, Alone
  <2> QED BY <2>1, <2>2, <2>3, <2>4, AloneFrame
<1> QED BY <1>2, <1>3, <1>4, <1>5 DEF SaleInv

\* The exit looks the order in doubt up.
LEMMA SaleResolve ==
    ASSUME Typed, Typed', RowInv, SaleInv, NEW p \in Closers, Resolve(p)
    PROVE  SaleInv'
<1>1. /\ pc[p] = "resolve" /\ at[p] \in Contracts /\ mode[p] # "entry"
      /\ Remembered(order[ord[p]]) /\ at[p] \notin todo[p]
      /\ UNCHANGED <<held, order, mode, snap, todo, others>>
  BY DEF Resolve, brokerVars, Typed, LabelsOK, Exiting, RowInv, CallOK
<1>2. /\ \A q \in Closers \ {p} : pc'[q] = pc[q] /\ at'[q] = at[q] /\ ord'[q] = ord[q]
      /\ pc'[p] \in Exiting => at'[p] = at[p] /\ pc'[p] \in {"place", "release"}
      /\ pc'[p] \in {"scan", "idle", "place", "release"}
  BY DEF Resolve, Settle, Leave, Goto, Typed, TypeOK, LocalsOK, Exiting
<1>3. /\ \A c \in Contracts \ {at[p]} : pending'[c] = pending[c]
      /\ \/ order[ord[p]].status = "PENDING_VERIFICATION"
            /\ pending' = pending /\ pc'[p] \in {"scan", "idle"}
         \/ order[ord[p]].status = "FAILED"
            /\ pending'[at[p]] = NoOrder
         \/ order[ord[p]].status # "PENDING_VERIFICATION"
            /\ pending'[at[p]] = NoOrder /\ pc'[p] # "place"
  BY <1>1, MemoryParts
  DEF Resolve, Settle, Leave, Goto, Bad, Remembered, Typed, TypeOK, LocalsOK
<1>4. CASE p # Cycle
  <2>1. p \in Admins /\ at[p] \in others
    BY <1>1, <1>4, ClosersAre DEF SaleInv, OthersNoted, Exiting
  <2>2. \A c \in Contracts \ others : /\ pending'[c] = pending[c]
                                      /\ order'[pending[c]] = order[pending[c]]
    BY <1>1, <1>3, <2>1
  <2>3. \A i \in Ids : order'[i] = order[i]
    BY <1>1
  <2>4. pc'[p] \in Exiting => at'[p] \in others
    BY <1>2, <2>1
  <2> QED BY <1>1, <1>2, <2>1, <2>2, <2>3, <2>4, SaleHandler
<1>5. CASE p = Cycle
  <2>1. OthersNoted'
    BY <1>1, <1>2, <1>5, NotedFrame DEF SaleInv, OthersNoted, Exiting
  <2>2. CycleRemembers'
    BY <1>1, <1>2, <1>3, <1>5 DEF CycleRemembers, Exiting
  <2>3. ASSUME NEW c \in Contracts \ others PROVE Alone(c)'
    <3>1. Alone(c) /\ held'[c] >= held[c]
      BY <1>1 DEF SaleInv, Typed, TypeOK, BrokerOK
    <3>2. Deciding(c)' => Deciding(c) /\ (c # at[Cycle] \/ pc'[Cycle] = "place")
      BY <1>1, <1>2, <1>5 DEF Deciding, Exiting
    <3>3. c = at[Cycle] => ord[Cycle] = pending[c]
      BY <1>1, <1>5 DEF SaleInv, CycleRemembers
    <3>4. Deciding(c)' /\ NoneOutstanding(c)' => NoneOutstanding(c)
      BY <1>1, <1>3, <1>5, <3>2, <3>3 DEF NoneOutstanding
    <3>5. \A i \in Ids : OnItsWay(i)' /\ order'[i].contract = c =>
            /\ OnItsWay(i) /\ order[i].contract = c /\ order'[i] = order[i]
            /\ pending'[c] = i /\ order'[i].status = "PENDING_VERIFICATION"
      <4> SUFFICES ASSUME NEW i \in Ids, OnItsWay(i)', order'[i].contract = c
                   PROVE  /\ OnItsWay(i) /\ order[i].contract = c /\ order'[i] = order[i]
                          /\ pending'[c] = i /\ order'[i].status = "PENDING_VERIFICATION"
        OBVIOUS
      <4>1. pending[c] = i /\ order[i].status = "PENDING_VERIFICATION"
        BY <1>1, <1>5, <3>1 DEF OnItsWay, Alone
      <4>2. pending'[c] = i
        BY <1>3, <1>5, <3>3, <4>1
      <4> QED BY <1>1, <4>1, <4>2 DEF OnItsWay
    <3> QED BY <1>1, <3>1, <3>2, <3>4, <3>5, AloneFrame
  <2> QED BY <1>1, <2>1, <2>2, <2>3 DEF SaleInv
<1> QED BY <1>4, <1>5

LEMMA SalePlace ==
    ASSUME Typed, Typed', RowInv, SaleInv, NEW p \in Closers, Place(p)
    PROVE  SaleInv'
<1> DEFINE i == NextSlot
           a == at[p]
           side == IF snap[p][a] < 0 /\ mode[p] \in {"squareoff", "orphan"}
                   THEN "BUY" ELSE "SELL"
<1>1. /\ i \in Ids /\ Unused(i)
      /\ pc[p] = "place" /\ a \in Contracts /\ mode[p] # "entry" /\ a \notin todo[p]
      /\ UNCHANGED <<held, mode, snap, todo, at, others, pending>>
  BY FreshSlot DEF Place, SendOrder, Typed, LabelsOK, Exiting, memoryVars
<1>2. /\ ord' = [ord EXCEPT ![p] = i] /\ pc' = [pc EXCEPT ![p] = "sent"]
      /\ order' = [order EXCEPT ![i] =
                    [contract |-> a, side |-> side, lots |-> Abs(snap[p][a]),
                     entry |-> FALSE, status |-> "PENDING", fate |-> "flying"]]
  BY DEF Place, SendOrder, Goto
<1>3. side = "SELL" \/ snap[p][a] < 0
  OBVIOUS
<1> HIDE DEF i, side
<1>4. /\ order'[i] = [contract |-> a, side |-> side, lots |-> Abs(snap[p][a]),
                      entry |-> FALSE, status |-> "PENDING", fate |-> "flying"]
      /\ \A j \in Ids \ {i} : order'[j] = order[j]
      /\ \A c \in Contracts : pending[c] # i
  BY <1>1, <1>2 DEF Unused, Typed, TypeOK, BrokerOK
<1>5. /\ \A q \in Closers \ {p} : pc'[q] = pc[q] /\ ord'[q] = ord[q]
      /\ pc'[p] = "sent" /\ ord'[p] = i
  BY <1>2 DEF Typed, TypeOK, LocalsOK
<1>6. \A c \in Contracts : pending[c] # NoOrder => pending[c] \in Ids
  BY MemoryParts DEF Typed, TypeOK
<1>7. CASE p # Cycle
  <2>1. p \in Admins /\ a \in others
    BY <1>1, <1>7, ClosersAre DEF SaleInv, OthersNoted, Exiting
  <2>2. \A c \in Contracts \ others : /\ pending'[c] = pending[c]
                                      /\ pending[c] # NoOrder =>
                                            order'[pending[c]] = order[pending[c]]
    BY <1>1, <1>4, <1>6
  <2>3. \A j \in Ids : order'[j].contract \notin others => order'[j] = order[j]
    BY <1>4, <2>1
  <2> QED BY <1>1, <1>5, <2>1, <2>2, <2>3, SaleHandler
<1>8. CASE p = Cycle
  <2>1. OthersNoted'
    BY <1>1, <1>5, <1>8, NotedFrame DEF SaleInv, OthersNoted, Exiting
  <2>2. a \notin others => pending[a] = NoOrder
    BY <1>1, <1>8 DEF SaleInv, CycleRemembers
  <2>3. CycleRemembers'
    BY <1>1, <1>5, <1>8, <2>2 DEF CycleRemembers
  <2>4. ASSUME NEW c \in Contracts \ others PROVE Alone(c)'
    <3>1. Alone(c) /\ held'[c] = held[c] /\ held[c] \in Int
      BY <1>1 DEF SaleInv, Typed, TypeOK, BrokerOK
    <3>2. Deciding(c)' => Deciding(c) /\ c # a
      BY <1>1, <1>5, <1>8 DEF Deciding, Exiting
    <3>3. NoneOutstanding(c)' <=> NoneOutstanding(c)
      BY <1>1, <1>4, <1>6 DEF NoneOutstanding
    <3>4. ASSUME c = a
          PROVE  /\ order'[i].side = "SELL" /\ order'[i].lots <= held[c]
      <4>1. mode[Cycle] # "orphan"
        BY <1>1, <1>8, <3>4 DEF SaleInv, OthersNoted, Exiting
      <4>2. Deciding(c) /\ NoneOutstanding(c)
        BY <1>1, <1>8, <2>2, <3>4, <4>1 DEF Deciding, NoneOutstanding
      <4>3. snap[Cycle][c] \in Int /\ snap[Cycle][c] > 0 /\ snap[Cycle][c] <= held[c]
        BY <1>8, <3>1, <4>2 DEF Alone, Typed, TypeOK, LocalsOK
      <4> QED BY <1>3, <1>4, <1>8, <3>4, <4>3 DEF Abs
    <3>5. ASSUME NEW j \in Ids, OnItsWay(j)', order'[j].contract = c
          PROVE  /\ order'[j].side = "SELL" /\ order'[j].lots <= held'[c]
                 /\ \/ pc'[Cycle] = "sent" /\ ord'[Cycle] = j
                    \/ pending'[c] = j /\ order'[j].status = "PENDING_VERIFICATION"
      <4>1. CASE j = i
        BY <1>4, <1>5, <1>8, <3>1, <3>4, <3>5, <4>1
      <4>2. CASE j # i
        <5>1. order'[j] = order[j] /\ OnItsWay(j)
          BY <1>4, <3>5, <4>2 DEF OnItsWay
        <5> QED BY <1>1, <1>8, <3>1, <3>5, <5>1 DEF Alone
      <4> QED BY <4>1, <4>2
    <3>6. Deciding(c)' => snap'[Cycle][c] > 0
      BY <1>1, <3>1, <3>2 DEF Alone
    <3>7. Deciding(c)' /\ NoneOutstanding(c)' => snap'[Cycle][c] <= held'[c]
      BY <1>1, <3>1, <3>2, <3>3 DEF Alone
    <3>8. held'[c] >= 0
      BY <3>1 DEF Alone
    <3> QED BY <3>5, <3>6, <3>7, <3>8 DEF Alone
  <2> QED BY <1>1, <2>1, <2>3, <2>4 DEF SaleInv
<1> QED BY <1>7, <1>8

\* What the answer to an exit leaves of its row, and of the memory.
LEMMA Answered ==
    ASSUME Typed, RowInv, NEW p \in Closers,
           ExitTaken(p) \/ ExitFailed(p) \/ ExitDoubtful(p)
    PROVE  /\ ord[p] \in Ids /\ order[ord[p]].contract = at[p] /\ order[ord[p]].fate # "lost"
           /\ \A j \in Ids \ {ord[p]} : order'[j] = order[j]
           /\ \A c \in Contracts \ {at[p]} : pending'[c] = pending[c]
           /\ \/ /\ order'[ord[p]].fate \notin {"flying"}
                 /\ pending'[at[p]] = pending[at[p]]
              \/ /\ \E f \in {order[ord[p]].fate, "lost"} :
                      order'[ord[p]] = [order[ord[p]] EXCEPT
                                          !.status = "PENDING_VERIFICATION", !.fate = f]
                 /\ pending'[at[p]] = IF mode[p] = "orphan" THEN pending[at[p]] ELSE ord[p]
<1> DEFINE i == ord[p]
<1>1. /\ i \in Ids /\ at[p] \in Contracts /\ order[i].contract = at[p]
      /\ order[i].fate \notin {"none", "lost"} /\ order[i] \in Rows
      /\ pending \in [Contracts -> Ids \cup {NoOrder}]
  BY MemoryParts DEF ExitTaken, ExitFailed, ExitDoubtful, RowInv, CallOK, Typed, LabelsOK,
     Exiting, TypeOK, BrokerOK
<1> HIDE DEF i
<1>2. CASE ExitTaken(p)
  <2>1. /\ order' = [order EXCEPT ![i].status = "OPEN"] /\ order[i].fate # "flying"
        /\ UNCHANGED pending
    BY <1>2 DEF ExitTaken, i
  <2>2. /\ \A j \in Ids \ {i} : order'[j] = order[j]
        /\ order'[i] = [order[i] EXCEPT !.status = "OPEN"]
    BY <1>1, <2>1, TypedStatus DEF Typed, TypeOK, Statuses
  <2>3. order'[i].fate # "flying"
    BY <1>1, <2>1, <2>2 DEF Rows
  <2> QED BY <1>1, <2>1, <2>2, <2>3 DEF i
<1>3. CASE ExitFailed(p)
  <2>1. /\ order' = [order EXCEPT ![i].status = "FAILED", ![i].fate = "lost"]
        /\ UNCHANGED pending
    BY <1>3 DEF ExitFailed, i, memoryVars
  <2>2. /\ \A j \in Ids \ {i} : order'[j] = order[j]
        /\ order'[i] = [order[i] EXCEPT !.status = "FAILED", !.fate = "lost"]
    BY <1>1, <2>1, TypedWrite DEF Typed, TypeOK, Statuses, Final, Fates
  <2>3. order'[i].fate # "flying"
    BY <1>1, <2>2 DEF Rows
  <2> QED BY <1>1, <2>1, <2>2, <2>3 DEF i
<1>4. CASE ExitDoubtful(p)
  <2>1. /\ Doubt(i)
        /\ pending' = IF mode[p] = "orphan" THEN pending
                      ELSE [pending EXCEPT ![at[p]] = i]
    BY <1>4 DEF ExitDoubtful, i, memoryVars
  <2>2. \A j \in Ids \ {i} : order'[j] = order[j]
    BY <1>1, <2>1, TypedDoubt DEF Typed, TypeOK
  <2>3. \E f \in {order[i].fate, "lost"} :
          order'[i] = [order[i] EXCEPT !.status = "PENDING_VERIFICATION", !.fate = f]
    BY <1>1, <2>1, TypedDoubt DEF Typed, TypeOK
  <2>4. /\ pending'[at[p]] = IF mode[p] = "orphan" THEN pending[at[p]] ELSE i
        /\ \A c \in Contracts \ {at[p]} : pending'[c] = pending[c]
    BY <1>1, <2>1
  <2> QED BY <1>1, <2>2, <2>3, <2>4 DEF i
<1> QED BY <1>2, <1>3, <1>4

LEMMA SaleAnswer ==
    ASSUME Typed, Typed', RowInv, SaleInv, NEW p \in Closers,
           ExitTaken(p) \/ ExitFailed(p) \/ ExitDoubtful(p)
    PROVE  SaleInv'
<1> DEFINE i == ord[p]
           a == at[p]
<1>1. /\ pc[p] = "sent" /\ mode[p] # "entry" /\ a \in Contracts /\ a \notin todo[p]
      /\ UNCHANGED <<held, mode, snap, todo, others>>
      /\ (Settle(p) \/ Leave(p))
  BY DEF ExitTaken, ExitFailed, ExitDoubtful, Typed, LabelsOK, Exiting
<1>2. /\ \A q \in Closers \ {p} : pc'[q] = pc[q] /\ at'[q] = at[q] /\ ord'[q] = ord[q]
      /\ pc'[p] = "release" => at'[p] = a
      /\ pc'[p] \in {"scan", "idle", "release"}
  BY <1>1 DEF Settle, Leave, Goto, Typed, TypeOK, LocalsOK
<1>3. /\ i \in Ids /\ order[i].contract = a /\ order[i] \in Rows
      /\ \A j \in Ids \ {i} : order'[j] = order[j]
      /\ \A c \in Contracts \ {a} : pending'[c] = pending[c]
      /\ \A c \in Contracts : pending[c] # i
  BY <1>1, Answered, SentAlone DEF Typed, TypeOK, BrokerOK
<1>4. \/ order'[i].fate # "flying" /\ pending'[a] = pending[a]
      \/ /\ order'[i].status = "PENDING_VERIFICATION" /\ order'[i].contract = order[i].contract
         /\ order'[i].side = order[i].side /\ order'[i].lots = order[i].lots
         /\ order'[i].entry = order[i].entry
         /\ order'[i].fate = "flying" => order[i].fate = "flying"
         /\ pending'[a] = IF mode[p] = "orphan" THEN pending[a] ELSE i
  <2>1. CASE order'[i].fate # "flying" /\ pending'[a] = pending[a]
    BY <2>1
  <2>2. CASE \E f \in {order[i].fate, "lost"} :
               /\ order'[i] = [order[i] EXCEPT !.status = "PENDING_VERIFICATION", !.fate = f]
               /\ pending'[a] = IF mode[p] = "orphan" THEN pending[a] ELSE i
    BY <1>3, <2>2 DEF Rows
  <2> QED BY <2>1, <2>2, Answered
<1>5. \A c \in Contracts : pending[c] # NoOrder => pending[c] \in Ids
  BY MemoryParts DEF Typed, TypeOK
<1> HIDE DEF i
<1>6. CASE p # Cycle
  <2>1. p \in Admins /\ a \in others
    BY <1>1, <1>6, ClosersAre DEF SaleInv, OthersNoted, Exiting
  <2>2. \A c \in Contracts \ others : /\ pending'[c] = pending[c]
                                      /\ pending[c] # NoOrder =>
                                            order'[pending[c]] = order[pending[c]]
    BY <1>3, <1>5, <2>1
  <2>3. \A j \in Ids : order'[j].fate = "flying" /\ order'[j].contract \notin others =>
                       order'[j] = order[j]
    BY <1>3, <1>4, <2>1
  <2>4. pc'[p] \in Exiting => at'[p] \in others
    BY <1>2, <2>1 DEF Exiting
  <2>5. UNCHANGED <<held, mode, snap, todo, others>>
    BY <1>1
  <2>6. p \in Admins /\ \A q \in Closers \ {p} : /\ pc'[q] = pc[q] /\ at'[q] = at[q]
                                                /\ ord'[q] = ord[q]
    BY <1>2, <2>1
  <2> HIDE DEF a
  <2> QED BY <2>2, <2>3, <2>4, <2>5, <2>6, SaleHandler
<1>7. CASE p = Cycle
  <2>1. OthersNoted'
    BY <1>1, <1>2, <1>7, NotedFrame DEF SaleInv, OthersNoted, Exiting
  <2>2. CycleRemembers'
    BY <1>2, <1>7 DEF CycleRemembers
  <2>3. ASSUME NEW c \in Contracts \ others PROVE Alone(c)'
    <3>1. Alone(c) /\ held'[c] >= held[c]
      BY <1>1 DEF SaleInv, Typed, TypeOK, BrokerOK
    <3>2. c = a => pending[c] = NoOrder /\ mode[p] # "orphan"
      BY <1>1, <1>7 DEF SaleInv, CycleRemembers, OthersNoted, Exiting
    <3>3. Deciding(c)' => Deciding(c) /\ c # a
      BY <1>1, <1>2, <1>7 DEF Deciding, Exiting
    <3>4. Deciding(c)' /\ NoneOutstanding(c)' => NoneOutstanding(c)
      BY <1>3, <1>5, <3>3 DEF NoneOutstanding
    <3>5. ASSUME NEW j \in Ids, OnItsWay(j)', order'[j].contract = c
          PROVE  /\ OnItsWay(j) /\ order[j].contract = c
                 /\ order'[j].side = order[j].side /\ order'[j].lots = order[j].lots
                 /\ pending'[c] = j /\ order'[j].status = "PENDING_VERIFICATION"
      <4>1. CASE j = i
        BY <1>3, <1>4, <3>2, <3>5, <4>1 DEF OnItsWay
      <4>2. CASE j # i
        <5>1. order'[j] = order[j] /\ OnItsWay(j)
          BY <1>3, <3>5, <4>2 DEF OnItsWay
        <5>2. pending[c] = j /\ order[j].status = "PENDING_VERIFICATION"
          BY <1>7, <3>1, <3>5, <4>2, <5>1 DEF Alone, i
        <5>3. c # a
          BY <3>2, <5>2 DEF NoOrder, Ids
        <5> QED BY <1>3, <3>5, <5>1, <5>2, <5>3
      <4> QED BY <4>1, <4>2
    <3> QED BY <1>1, <3>1, <3>3, <3>4, <3>5, AloneFrame
  <2> QED BY <1>1, <2>1, <2>2, <2>3 DEF SaleInv
<1> QED BY <1>6, <1>7

LEMMA SaleRelease ==
    ASSUME Typed, Typed', RowInv, SaleInv, NEW p \in Closers, Release(p)
    PROVE  SaleInv'
<1>1. /\ UNCHANGED <<held, order, pending, mode, snap, todo, others>>
      /\ pc[p] = "release" /\ pc'[p] \in {"scan", "idle"}
      /\ \A q \in Closers \ {p} : pc'[q] = pc[q] /\ at'[q] = at[q] /\ ord'[q] = ord[q]
  BY DEF Release, brokerVars, Leave, Goto, Typed, TypeOK, LocalsOK
<1>2. OthersNoted'
  BY <1>1, NotedFrame DEF SaleInv, Exiting
<1>3. CycleRemembers'
  BY <1>1, ClosersAre DEF CycleRemembers, SaleInv
<1>4. ASSUME NEW c \in Contracts \ others PROVE Alone(c)'
  <2>1. Alone(c) /\ held'[c] >= held[c]
    BY <1>1 DEF SaleInv, Typed, TypeOK, BrokerOK
  <2>2. Deciding(c)' => Deciding(c)
    BY <1>1, ClosersAre DEF Deciding, Exiting, Typed, LabelsOK
  <2>3. NoneOutstanding(c)' => NoneOutstanding(c)
    BY <1>1 DEF NoneOutstanding
  <2>4. \A i \in Ids : OnItsWay(i)' /\ order'[i].contract = c =>
          /\ OnItsWay(i) /\ order[i].contract = c /\ order'[i] = order[i]
          /\ \/ pc'[Cycle] = "sent" /\ ord'[Cycle] = i
             \/ pending'[c] = i /\ order'[i].status = "PENDING_VERIFICATION"
    BY <1>1, <2>1, ClosersAre DEF OnItsWay, Alone
  <2> QED BY <1>1, <2>1, <2>2, <2>3, <2>4, AloneFrame
<1> QED BY <1>1, <1>2, <1>3, <1>4 DEF SaleInv

\* The answer to an entry touches its row only.
LEMMA EntryAnswered ==
    ASSUME Typed, NEW i \in Ids, order[i].entry,
           i = ord[Cycle], EntryTaken \/ EntryNotTaken
    PROVE  (\A j \in Ids \ {i} : order'[j] = order[j]) /\ order'[i].entry
<1>1. \/ order' = [order EXCEPT ![i].status = "OPEN"]
      \/ order' = [order EXCEPT ![i].status = "FAILED", ![i].fate = "lost"]
      \/ Doubt(i)
  BY DEF EntryTaken, EntryNotTaken
<1>2. order[i] \in Rows /\ BrokerOK
  BY DEF Typed, TypeOK, BrokerOK
<1>3. CASE order' = [order EXCEPT ![i].status = "OPEN"]
  <2>1. /\ \A j \in Ids \ {i} : order'[j] = order[j]
        /\ order'[i] = [order[i] EXCEPT !.status = "OPEN"]
    BY <1>2, <1>3, TypedStatus DEF Statuses
  <2> QED BY <1>2, <2>1 DEF Rows
<1>4. CASE order' = [order EXCEPT ![i].status = "FAILED", ![i].fate = "lost"]
  <2>1. /\ \A j \in Ids \ {i} : order'[j] = order[j]
        /\ order'[i] = [order[i] EXCEPT !.status = "FAILED", !.fate = "lost"]
    BY <1>2, <1>4, TypedWrite DEF Statuses, Final, Fates
  <2> QED BY <1>2, <2>1 DEF Rows
<1>5. CASE Doubt(i)
  <2>1. PICK f : order'[i] = [order[i] EXCEPT !.status = "PENDING_VERIFICATION", !.fate = f]
    BY <1>2, <1>5, TypedDoubt
  <2>2. order'[i].entry
    BY <1>2, <2>1 DEF Rows
  <2>3. \A j \in Ids \ {i} : order'[j] = order[j]
    BY <1>2, <1>5, TypedDoubt
  <2> QED BY <2>2, <2>3
<1> QED BY <1>1, <1>3, <1>4, <1>5

\* An entry buys.
LEMMA SaleEntry ==
    ASSUME Typed, Typed', RowInv, SaleInv, Buy \/ EntryTaken \/ EntryNotTaken \/ Journal
    PROVE  SaleInv'
<1> USE ClosersAre
<1>1. /\ UNCHANGED <<held, mode, snap, todo, others, pending>> /\ mode[Cycle] = "entry"
      /\ \A q \in Closers \ {Cycle} : pc'[q] = pc[q] /\ at'[q] = at[q] /\ ord'[q] = ord[q]
  BY DEF Buy, EntryTaken, EntryNotTaken, Journal, SendOrder, BackToEntry, Goto, brokerVars,
     memoryVars, Typed, TypeOK, LabelsOK, LocalsOK
<1>2. OthersNoted'
  BY <1>1, NotedFrame DEF SaleInv
<1>3. CycleRemembers'
  BY <1>1 DEF CycleRemembers
<1>4. \A i \in Ids : OnItsWay(i)' =>
        OnItsWay(i) /\ order'[i] = order[i] /\ (pc[Cycle] = "sent" => ord[Cycle] # i)
  <2>1. CASE Buy
    <3>1. NextSlot \in Ids /\ pc[Cycle] = "buy" /\
          \E row : row.entry /\ order' = [order EXCEPT ![NextSlot] = row]
      BY <2>1, FreshSlot DEF Buy, SendOrder
    <3>2. PICK row : row.entry /\ order' = [order EXCEPT ![NextSlot] = row]
      BY <3>1
    <3> HIDE DEF NextSlot
    <3> QED BY <3>1, <3>2 DEF OnItsWay, Typed, TypeOK, BrokerOK
  <2>2. CASE Journal
    BY <2>2 DEF Journal, brokerVars, OnItsWay
  <2>3. CASE EntryTaken \/ EntryNotTaken
    <3>1. ord[Cycle] \in Ids /\ order[ord[Cycle]].entry /\ order[ord[Cycle]] \in Rows
      BY <2>3 DEF EntryTaken, EntryNotTaken, Typed, LabelsOK, RowInv, CallOK, TypeOK, BrokerOK
    <3>2. (\A j \in Ids \ {ord[Cycle]} : order'[j] = order[j]) /\ order'[ord[Cycle]].entry
      BY <2>3, <3>1, EntryAnswered
    <3> QED BY <3>1, <3>2 DEF OnItsWay
  <2> QED BY <2>1, <2>2, <2>3
<1>5. ASSUME NEW c \in Contracts \ others PROVE Alone(c)'
  <2>1. Alone(c) /\ held'[c] >= held[c]
    BY <1>1 DEF SaleInv, Typed, TypeOK, BrokerOK
  <2>2. ~Deciding(c)'
    BY <1>1 DEF Deciding
  <2>3. \A i \in Ids : OnItsWay(i)' /\ order'[i].contract = c =>
          /\ OnItsWay(i) /\ order[i].contract = c /\ order'[i] = order[i]
          /\ pending'[c] = i /\ order'[i].status = "PENDING_VERIFICATION"
    BY <1>1, <1>4, <2>1 DEF Alone
  <2> QED BY <2>1, <2>2, <2>3, AloneFrame
<1> QED BY <1>1, <1>2, <1>3, <1>5 DEF SaleInv

\* The cycle looks a doubtful order up, or kills a stale entry; the order job.
LEMMA SaleJobs ==
    ASSUME Typed, Typed', RowInv, SaleInv, NEW i \in Ids, Verify(i) \/ ExpireStale(i) \/ Sync(i)
    PROVE  SaleInv'
<1>1. UNCHANGED <<held, pending, pc, mode, snap, todo, at, ord, others>>
  BY DEF Verify, ExpireStale, Sync, memoryVars, localVars
<1>2. \A j \in Ids \ {i} : order'[j] = order[j]
  BY RowMoves
<1>3. /\ order'[i].fate # "flying"
      /\ order[i].status = "OPEN" => order'[i].status # "FAILED"
      /\ order[i].status = "OPEN" \/ pc[Cycle] = "verify"
  BY DEF Verify, ExpireStale, Sync, Typed, TypeOK, BrokerOK, Rows, RowInv, RowsOK, RowOK, Taken
<1>4. OthersNoted' /\ CycleRemembers'
  BY <1>1 DEF SaleInv, OthersNoted, CycleRemembers
<1>5. ASSUME NEW c \in Contracts \ others PROVE Alone(c)'
  <2>1. Alone(c) /\ held'[c] >= held[c]
    BY <1>1 DEF SaleInv, Typed, TypeOK, BrokerOK
  <2>2. Deciding(c)' => Deciding(c) /\ order[i].status = "OPEN"
    BY <1>1, <1>3 DEF Deciding, Exiting
  <2>3. pending[c] # NoOrder => pending[c] \in Ids
    BY MemoryParts DEF Typed, TypeOK
  <2>4. Deciding(c)' /\ NoneOutstanding(c)' => NoneOutstanding(c)
    BY <1>1, <1>2, <1>3, <2>2, <2>3 DEF NoneOutstanding
  <2>5. \A j \in Ids : OnItsWay(j)' /\ order'[j].contract = c =>
          /\ OnItsWay(j) /\ order[j].contract = c /\ order'[j] = order[j]
          /\ \/ pc'[Cycle] = "sent" /\ ord'[Cycle] = j
             \/ pending'[c] = j /\ order'[j].status = "PENDING_VERIFICATION"
    BY <1>1, <1>2, <1>3, <2>1 DEF OnItsWay, Alone
  <2> QED BY <1>1, <2>1, <2>2, <2>4, <2>5, AloneFrame
<1> QED BY <1>1, <1>4, <1>5 DEF SaleInv

\* A request arrives, or a resting entry is filled: a sale that is on its way is the only
\* one of its contract, and nothing counts on the lots that it takes.
LEMMA SaleLands ==
    ASSUME Typed, Typed', RowInv, SaleInv, NEW i \in Ids, Land(i) \/ Fill(i)
    PROVE  SaleInv'
<1> DEFINE o == order[i]
<1>1. UNCHANGED <<pending, pc, mode, snap, todo, at, ord, others>>
  BY DEF Land, Fill, memoryVars, localVars
<1>2. /\ \A j \in Ids \ {i} : order'[j] = order[j]
      /\ o \in Rows
  BY RowMoves DEF Typed, TypeOK, BrokerOK
<1>3. order'[i].fate # "flying" /\ order'[i].status = o.status
  BY <1>2 DEF Land, Fill, Rows, Typed, TypeOK, BrokerOK
<1>4. /\ \A c \in Contracts \ {o.contract} : held'[c] = held[c]
      /\ o.contract \in Contracts =>
           \/ held'[o.contract] = held[o.contract]
           \/ OnItsWay(i) /\ held'[o.contract] = held[o.contract] + Signed(o)
           \/ o.side = "BUY" /\ held'[o.contract] = held[o.contract] + Signed(o)
  BY DEF Land, Fill, OnItsWay, Typed, TypeOK, BrokerOK, RowInv, RowsOK, RowOK
<1> HIDE DEF o
<1>5. OthersNoted' /\ CycleRemembers'
  BY <1>1 DEF SaleInv, OthersNoted, CycleRemembers
<1>6. ASSUME NEW c \in Contracts \ others PROVE Alone(c)'
  <2>1. Alone(c) /\ held[c] \in Int /\ held'[c] \in Int
    BY DEF SaleInv, Typed, TypeOK, BrokerOK
  <2>2. pending[c] # NoOrder => pending[c] \in Ids
    BY MemoryParts DEF Typed, TypeOK
  <2>3. NoneOutstanding(c)' <=> NoneOutstanding(c)
    BY <1>1, <1>2, <1>3, <2>2 DEF NoneOutstanding, o
  <2>4. Deciding(c)' <=> Deciding(c)
    BY <1>1 DEF Deciding
  <2>5. \A j \in Ids : OnItsWay(j)' /\ order'[j].contract = c =>
          j # i /\ OnItsWay(j) /\ order[j].contract = c /\ order'[j] = order[j]
    BY <1>2, <1>3 DEF OnItsWay
  <2>6. CASE held'[c] >= held[c]
    BY <1>1, <2>1, <2>3, <2>4, <2>5, <2>6, AloneFrame DEF Alone
  <2>7. CASE ~(held'[c] >= held[c])
    <3>1. /\ c = o.contract /\ OnItsWay(i)
          /\ held'[c] = held[c] + Signed(o)
      BY <1>2, <1>4, <2>1, <2>7 DEF Signed, Rows
    <3>2. /\ o.side = "SELL" /\ o.lots <= held[c] /\ o.lots \in Nat
          /\ \/ pc[Cycle] = "sent" /\ ord[Cycle] = i
             \/ pending[c] = i /\ o.status = "PENDING_VERIFICATION"
      BY <1>2, <2>1, <3>1 DEF Alone, o, Rows
    <3>3. held'[c] >= 0
      BY <2>1, <3>1, <3>2 DEF Signed
    <3>4. pc[Cycle] = "sent" => /\ order[ord[Cycle]].contract = at[Cycle]
                                /\ order[ord[Cycle]].entry <=> mode[Cycle] = "entry"
      BY ClosersAre DEF RowInv, CallOK
    <3>5. pc[Cycle] = "sent" /\ at[Cycle] = c /\ mode[Cycle] # "entry" =>
            pending[c] = NoOrder /\ c \notin todo[Cycle]
      BY ClosersAre DEF SaleInv, CycleRemembers, Typed, LabelsOK, Exiting
    <3>6. ~(Deciding(c) /\ NoneOutstanding(c))
      BY <3>1, <3>2, <3>4, <3>5 DEF Deciding, NoneOutstanding, o, OnItsWay, NoOrder, Ids
    <3>7. ASSUME NEW j \in Ids, OnItsWay(j)', order'[j].contract = c PROVE FALSE
      <4>1. j # i /\ OnItsWay(j) /\ order[j].contract = c
        BY <2>5, <3>7
      <4>2. (pc[Cycle] = "sent" /\ ord[Cycle] = j) \/ pending[c] = j
        BY <2>1, <4>1 DEF Alone
      <4>3. CASE pc[Cycle] = "sent" /\ ord[Cycle] = j
        <5>1. pending[c] = NoOrder
          BY <3>4, <3>5, <4>1, <4>3 DEF OnItsWay
        <5> QED BY <3>2, <4>1, <4>3, <5>1 DEF NoOrder, Ids
      <4>4. CASE pending[c] = j
        <5>1. pc[Cycle] = "sent" /\ ord[Cycle] = i
          BY <3>2, <4>1, <4>4
        <5>2. pending[c] = NoOrder
          BY <3>1, <3>4, <3>5, <5>1 DEF OnItsWay, o
        <5> QED BY <4>4, <5>2 DEF NoOrder, Ids
      <4> QED BY <4>2, <4>3, <4>4
    <3>8. Deciding(c)' => snap'[Cycle][c] > 0
      BY <1>1, <2>1, <2>4 DEF Alone
    <3> QED BY <2>3, <2>4, <3>3, <3>6, <3>7, <3>8 DEF Alone
  <2> QED BY <2>6, <2>7
<1> QED BY <1>1, <1>5, <1>6 DEF SaleInv

LEMMA SaleClock ==
    ASSUME Typed, Typed', RowInv, SaleInv, LateInTheDay \/ NextDay \/ Crash
    PROVE  SaleInv'
<1>1. UNCHANGED <<held, pending, others>>
  BY DEF LateInTheDay, NextDay, Crash, memoryVars, RowInv, DoubtsOK
<1>2. CASE LateInTheDay
  <2>1. UNCHANGED <<pc, mode, snap, todo, at, ord>>
    BY <1>2 DEF LateInTheDay, localVars
  <2>2. \A i \in Ids : /\ order'[i].fate = "flying" => order'[i] = order[i]
                       /\ order'[i].status = order[i].status
    BY <1>2 DEF LateInTheDay, Typed, TypeOK, BrokerOK, Rows
  <2>3. OthersNoted' /\ CycleRemembers'
    BY <1>1, <2>1 DEF SaleInv, OthersNoted, CycleRemembers
  <2>4. ASSUME NEW c \in Contracts \ others PROVE Alone(c)'
    <3>1. Alone(c) /\ held'[c] >= held[c]
      BY <1>1 DEF SaleInv, Typed, TypeOK, BrokerOK
    <3>2. Deciding(c)' <=> Deciding(c)
      BY <2>1 DEF Deciding
    <3>3. pending[c] # NoOrder => pending[c] \in Ids
      BY MemoryParts DEF Typed, TypeOK
    <3>4. NoneOutstanding(c)' <=> NoneOutstanding(c)
      BY <1>1, <2>2, <3>3 DEF NoneOutstanding
    <3>5. \A j \in Ids : OnItsWay(j)' /\ order'[j].contract = c =>
            /\ OnItsWay(j) /\ order[j].contract = c /\ order'[j] = order[j]
            /\ \/ pc'[Cycle] = "sent" /\ ord'[Cycle] = j
               \/ pending'[c] = j /\ order'[j].status = "PENDING_VERIFICATION"
      BY <1>1, <2>1, <2>2, <3>1 DEF OnItsWay, Alone
    <3> QED BY <2>1, <3>1, <3>2, <3>4, <3>5, AloneFrame
  <2> QED BY <1>1, <2>3, <2>4 DEF SaleInv
<1>3. CASE NextDay \/ Crash
  <2>1. \A p \in Closers : pc'[p] \in {"idle", "restore"}
    BY <1>3 DEF NextDay, Crash, Quiet, localVars
  <2>2. \A i \in Ids : order'[i].fate # "flying"
    BY <1>3 DEF NextDay, Crash, Typed, TypeOK, BrokerOK, Rows
  <2>3. OthersNoted' /\ CycleRemembers'
    BY <2>1, ClosersAre DEF OthersNoted, CycleRemembers, Exiting
  <2>4. ASSUME NEW c \in Contracts \ others PROVE Alone(c)'
    BY <1>1, <2>1, <2>2, ClosersAre DEF Alone, Deciding, OnItsWay, Exiting, SaleInv
  <2> QED BY <1>1, <2>3, <2>4 DEF SaleInv
<1> QED BY <1>2, <1>3

LEMMA SaleStep == ASSUME Typed, Typed', RowInv, SaleInv, [Next]_vars PROVE SaleInv'
<1>1. CASE UNCHANGED vars
  <2>1. UNCHANGED <<held, order, pending, pc, mode, snap, todo, at, ord, others>>
    BY <1>1 DEF vars, brokerVars, memoryVars, localVars
  <2>2. OthersNoted' /\ CycleRemembers'
    BY <2>1 DEF SaleInv, OthersNoted, CycleRemembers
  <2>3. ASSUME NEW c \in Contracts \ others PROVE Alone(c)'
    BY <2>1 DEF SaleInv, Alone, Deciding, NoneOutstanding, OnItsWay
  <2> QED BY <2>1, <2>2, <2>3 DEF SaleInv
<1>2. CASE CycleStep
  BY <1>2, SaleReading, SaleEntry, SaleJobs DEF CycleStep, Reading
<1>3. CASE EnvStep
  BY <1>3, SaleJobs, SaleLands, SaleClock DEF EnvStep
<1>4. ASSUME NEW p \in Closers, ExitStep(p) PROVE SaleInv'
  BY <1>4, SaleExit, SaleResolve, SalePlace, SaleAnswer, SaleRelease DEF ExitStep
<1> QED BY <1>1, <1>2, <1>3, <1>4, SaleManual DEF Next

LEMMA SalesHold == Spec => [](Typed /\ RowInv /\ SaleInv)
<1>1. Init => Typed /\ RowInv /\ SaleInv
  BY TypedInit, RowInit, SaleInit
<1>2. Typed /\ RowInv /\ SaleInv /\ [Next]_vars => (Typed /\ RowInv /\ SaleInv)'
  BY TypedStep, RowStep, SaleStep
<1> QED BY <1>1, <1>2, PTL DEF Spec

\* The engine alone never sells what it does not hold, with any number of exits that
\* fail or stay in doubt, fills at any moment, restarts, and calls of the broker that
\* raise: only a contract that a handler or the reconciliation has set out to close can
\* go short.
THEOREM NothingIsOversold == Spec => []NeverOversold
<1>1. ASSUME Typed, SaleInv PROVE NeverOversold
  <2>1. \A c \in Contracts : held[c] \in Int
    BY <1>1 DEF Typed, TypeOK, BrokerOK
  <2> QED BY <1>1, <2>1 DEF SaleInv, Alone, NeverOversold
<1>2. Typed /\ RowInv /\ SaleInv => NeverOversold
  BY <1>1
<1> QED BY SalesHold, <1>2, PTL

\* What the cycle or a restart does to the memory of an exit of the engine.
LEMMA DoubtStep ==
    ASSUME Typed, RowInv, SaleInv, Next, NEW c \in Contracts \ others', pending[c] # NoOrder,
           order[pending[c]].status = "PENDING_VERIFICATION"
    PROVE  pending'[c] = pending[c]
<1>1. others \subseteq others' /\ c \notin others
  BY DEF Next, CycleStep, ExitStep, EnvStep, StartCycle, ReadPositions, ExitsDone, SquareOff,
     SquareOffDone, ReversalDone, NoSignal, GateShut, Buy, EntryTaken, EntryNotTaken,
     Journal, FindOrphans, RestoreDone, ScanDone, Hold, Signal, Verify, ExpireStale, Exit,
     Resolve, Place, ExitTaken, ExitFailed, ExitDoubtful, Release, ManualClose,
     LateInTheDay, NextDay, Crash, Land, Fill, Sync
<1>2. CASE CycleStep
  BY <1>2 DEF CycleStep, StartCycle, ReadPositions, ExitsDone, SquareOff,
     SquareOffDone, ReversalDone, NoSignal, GateShut, Buy, EntryTaken, EntryNotTaken,
     Journal, FindOrphans, RestoreDone, ScanDone, Hold, Signal, Verify, ExpireStale, memoryVars
<1>3. CASE EnvStep
  BY <1>3 DEF EnvStep, LateInTheDay, NextDay, Crash, Land, Fill, Sync, memoryVars, RowInv,
     DoubtsOK
<1>4. ASSUME NEW p \in Admins, NEW d \in Contracts, ManualClose(p, d)
      PROVE  pending'[c] = pending[c]
  BY <1>4 DEF ManualClose, memoryVars
<1>5. ASSUME NEW p \in Closers, ExitStep(p) PROVE pending'[c] = pending[c]
  <2>1. \/ UNCHANGED pending
        \/ Resolve(p) \/ ExitDoubtful(p)
    BY <1>5 DEF ExitStep, Exit, Place, ExitTaken, ExitFailed, Release, memoryVars
  <2>2. CASE Resolve(p)
    <3>1. /\ pc[p] = "resolve" /\ at[p] \in Contracts /\ mode[p] # "entry"
      BY <2>2 DEF Resolve, Typed, LabelsOK, Exiting
    <3>2. \/ UNCHANGED pending
          \/ /\ order[ord[p]].status # "PENDING_VERIFICATION"
             /\ pending' = [pending EXCEPT ![at[p]] = NoOrder]
      BY <2>2 DEF Resolve
    <3>3. at[p] = c => ord[p] = pending[c]
      BY <1>1, <3>1, ClosersAre DEF SaleInv, OthersNoted, CycleRemembers, Exiting
    <3> QED BY <3>1, <3>2, <3>3, MemoryParts DEF Typed, TypeOK
  <2>3. CASE ExitDoubtful(p)
    <3>1. /\ pc[p] = "sent" /\ at[p] \in Contracts /\ mode[p] # "entry"
      BY <2>3 DEF ExitDoubtful, Typed, LabelsOK, Exiting
    <3>2. \/ UNCHANGED pending
          \/ pending' = [pending EXCEPT ![at[p]] = ord[p]]
      BY <2>3 DEF ExitDoubtful, memoryVars
    <3>3. at[p] # c
      BY <1>1, <3>1, ClosersAre DEF SaleInv, OthersNoted, CycleRemembers, Exiting
    <3> QED BY <3>1, <3>2, <3>3, MemoryParts DEF Typed, TypeOK
  <2> QED BY <2>1, <2>2, <2>3
<1> QED BY <1>2, <1>3, <1>4, <1>5 DEF Next

\* No step of the engine drops or replaces the memory of an exit in doubt before its row
\* says what has become of it; a crash loses none either, as each is saved at once.
THEOREM DoubtsAreRemembered == Spec => DoubtIsRemembered
<1> DEFINE Kept == \A c \in Contracts \ others' :
                      /\ pending[c] # NoOrder
                      /\ order[pending[c]].status = "PENDING_VERIFICATION"
                      => pending'[c] = pending[c]
<1>1. ASSUME Typed, RowInv, SaleInv, [Next]_vars PROVE [Kept]_vars
  <2>1. CASE Next
    BY <1>1, <2>1, DoubtStep
  <2>2. CASE UNCHANGED vars
    BY <2>2
  <2> QED BY <1>1, <2>1, <2>2
<1>2. Typed /\ RowInv /\ SaleInv /\ [Next]_vars => [Kept]_vars
  BY <1>1
<1>3. DoubtIsRemembered <=> [][Kept]_vars
  BY DEF DoubtIsRemembered
<1> QED BY SalesHold, <1>2, <1>3, PTL DEF Spec

-----------------------------------------------------------------------------
(* The books.  What is deployed is one lot for each contract that is        *)
(* charged: an entry that was taken and waits or is held, or an exit whose  *)
(* capital has still to be released.  BooksInv says so at every step, and   *)
(* that whatever is bought is journaled before the cycle goes on.           *)

\* The cycle on its own, with a broker that answers and refuses entries only: what the
\* code would need for its books to be exact.  With an order in doubt, an exit rejected
\* after it was accepted, positions that cannot be read, a journal that fails, a handler
\* or a restart they are not.
BooksCalm ==
    /\ Admins = {} /\ MaxRestarts = 0
    /\ Env \subseteq {"orders_age", "entry_rejected"}

Buying(c) == pc[Cycle] = "sent" /\ mode[Cycle] = "entry" /\ at[Cycle] = c
Selling(c) == pc[Cycle] = "sent" /\ mode[Cycle] # "entry" /\ at[Cycle] = c
Releasing(c) == pc[Cycle] = "release" /\ at[Cycle] = c
Journaling(c) == pc[Cycle] = "journal" /\ at[Cycle] = c
AtHand(c) == pc[Cycle] \in {"sent", "release", "journal"} /\ at[Cycle] = c
Sent == order[ord[Cycle]]

\* An entry that was taken and that the order job still counts on.
Waits(i, c) ==
    /\ order[i].entry /\ order[i].contract = c
    /\ order[i].status = "OPEN" /\ order[i].fate \in {"resting", "killed"}

Charged(c) ==
    \/ \E i \in Ids : Waits(i, c)
    \/ held[c] = 1 /\ ~Buying(c)
    \/ Selling(c) \/ Releasing(c)

ChargedLots == {x \in Contracts \X {1} : Charged(x[1])}

RowPlain(i) ==
    LET o == order[i] IN
    /\ o.status # "PENDING_VERIFICATION"
    /\ o.status = "PENDING" => pc[Cycle] = "sent" /\ ord[Cycle] = i
    /\ o.fate = "flying" => o.status = "PENDING"
    /\ o.fate = "resting" => o.status \in {"PENDING", "OPEN"}
    /\ ~o.entry => o.fate # "killed"
    /\ o.entry => o.lots = 1
    /\ o.status = "OPEN" => o.contract \in Contracts

ContractOK(c) ==
    /\ held[c] \in {0, 1}
    /\ \A i \in Ids : Waits(i, c) =>
         /\ held[c] = 0 /\ ~Buying(c) /\ ~Selling(c) /\ ~Releasing(c)
         /\ \A j \in Ids : Waits(j, c) => j = i
    /\ Buying(c) => held[c] = IF Sent.fate = "filled" THEN 1 ELSE 0
    /\ Selling(c) => /\ held[c] = IF Sent.fate = "flying" THEN 1 ELSE 0
                     /\ Sent.side = "SELL" /\ Sent.lots = 1
    /\ Selling(c) \/ Releasing(c) => snap[Cycle][c] = 1
    /\ Releasing(c) => held[c] = 0
    /\ held[c] = 1 /\ ~Buying(c) => c \in journaled \/ Journaling(c)
    /\ \A i \in Ids : Waits(i, c) => c \in journaled \/ Journaling(c)

\* What the calm excludes.
Plainly ==
    /\ others = {} /\ mode[Cycle] # "orphan"
    /\ pc[Cycle] \notin {"restore", "resolve"}
    /\ \A c \in Contracts : pending[c] = NoOrder

BooksInv ==
    /\ Plainly
    /\ \A i \in Ids : RowPlain(i)
    /\ \A c \in Contracts : ContractOK(c)
    /\ deployed >= Cardinality(ChargedLots)

Books == Typed /\ RowInv /\ SaleInv /\ BooksInv

LEMMA CalmIs ==
    ASSUME BooksCalm, Typed
    PROVE  /\ Closers = {Cycle} /\ MaxRestarts = 0 /\ restarts = 0
           /\ ~May("entry_doubtful") /\ ~May("exit_doubtful") /\ ~May("exit_rejected")
           /\ ~May("positions_fail") /\ ~May("journal_fails")
<1>1. Closers = {Cycle} /\ restarts = 0
  BY SingleLegConstants DEF BooksCalm, Closers, Typed, TypeOK, ClockOK
<1> QED BY <1>1 DEF BooksCalm, May

\* The counting.
LEMMA LotsCounted ==
    /\ IsFiniteSet(Contracts \X {1})
    /\ \A S \in SUBSET (Contracts \X {1}) :
         IsFiniteSet(S) /\ Cardinality(S) \in Nat
    /\ \A S, T \in SUBSET (Contracts \X {1}) :
         S \subseteq T => Cardinality(S) <= Cardinality(T)
    /\ \A S \in SUBSET (Contracts \X {1}), x \in Contracts \X {1} :
         /\ Cardinality(S \cup {x}) <= Cardinality(S) + 1
         /\ x \in S => Cardinality(S \ {x}) = Cardinality(S) - 1
<1>1. IsFiniteSet(Contracts \X {1})
  BY SingleLegConstants, FS_Singleton, FS_Product
<1>2. \A S \in SUBSET (Contracts \X {1}) : IsFiniteSet(S)
  BY <1>1, FS_Subset
<1>3. \A S \in SUBSET (Contracts \X {1}) : Cardinality(S) \in Nat
  BY <1>2, FS_CardinalityType
<1>4. \A S, T \in SUBSET (Contracts \X {1}) :
         S \subseteq T => Cardinality(S) <= Cardinality(T)
  BY <1>2, FS_Subset
<1>5. ASSUME NEW S \in SUBSET (Contracts \X {1}), NEW x
      PROVE  /\ Cardinality(S \cup {x}) <= Cardinality(S) + 1
             /\ x \in S => Cardinality(S \ {x}) = Cardinality(S) - 1
  <2>1. IsFiniteSet(S) /\ Cardinality(S) \in Nat
    BY <1>2, <1>3
  <2>2. Cardinality(S \cup {x}) = IF x \in S THEN Cardinality(S) ELSE Cardinality(S) + 1
    BY <2>1, FS_AddElement
  <2>3. Cardinality(S \ {x}) = IF x \in S THEN Cardinality(S) - 1 ELSE Cardinality(S)
    BY <2>1, FS_RemoveElement
  <2> QED BY <2>1, <2>2, <2>3
<1> QED BY <1>1, <1>2, <1>3, <1>4, <1>5

Covered == deployed >= Cardinality(ChargedLots)

LEMMA ChargedAre == ChargedLots \in SUBSET (Contracts \X {1})
BY DEF ChargedLots

LEMMA NothingMore ==
    ASSUME Typed, Covered, deployed' = deployed,
           \A c \in Contracts : Charged(c)' => Charged(c)
    PROVE  Covered'
<1>1. ChargedLots' \subseteq ChargedLots
  BY DEF ChargedLots
<1>2. Cardinality(ChargedLots') <= Cardinality(ChargedLots)
  BY <1>1, ChargedAre, LotsCounted
<1>3. Cardinality(ChargedLots') \in Nat /\ Cardinality(ChargedLots) \in Nat /\ deployed \in Nat
  <2>1. ChargedLots' \in SUBSET (Contracts \X {1})
    BY <1>1, ChargedAre
  <2> QED BY <2>1, ChargedAre, LotsCounted, MemoryParts DEF Typed, TypeOK
<1> QED BY <1>2, <1>3 DEF Covered

LEMMA OneMore ==
    ASSUME Typed, Covered, deployed' = deployed + 1, NEW k \in Contracts,
           \A c \in Contracts \ {k} : Charged(c)' => Charged(c)
    PROVE  Covered'
<1>1. ChargedLots' \subseteq ChargedLots \cup {<<k, 1>>}
  BY DEF ChargedLots
<1>2. ChargedLots \cup {<<k, 1>>} \in SUBSET (Contracts \X {1})
  BY ChargedAre
<1>3. /\ Cardinality(ChargedLots') <= Cardinality(ChargedLots \cup {<<k, 1>>})
      /\ Cardinality(ChargedLots \cup {<<k, 1>>}) <= Cardinality(ChargedLots) + 1
  BY <1>1, <1>2, ChargedAre, LotsCounted
<1>4. /\ Cardinality(ChargedLots') \in Nat /\ Cardinality(ChargedLots) \in Nat
      /\ Cardinality(ChargedLots \cup {<<k, 1>>}) \in Nat /\ deployed \in Nat
  <2>1. ChargedLots' \in SUBSET (Contracts \X {1})
    BY <1>1, <1>2
  <2> QED BY <1>2, <2>1, ChargedAre, LotsCounted, MemoryParts DEF Typed, TypeOK
<1> QED BY <1>3, <1>4 DEF Covered

LEMMA OneLess ==
    ASSUME Typed, Covered, deployed' = Released(1), NEW k \in Contracts,
           Charged(k), ~Charged(k)', \A c \in Contracts : Charged(c)' => Charged(c)
    PROVE  Covered'
<1> DEFINE left == ChargedLots \ {<<k, 1>>}
<1>1. <<k, 1>> \in ChargedLots /\ ChargedLots' \subseteq left
  BY DEF ChargedLots
<1>2. left \in SUBSET (Contracts \X {1}) /\ ChargedLots' \in SUBSET (Contracts \X {1})
  BY <1>1, ChargedAre
<1>3. /\ Cardinality(ChargedLots') <= Cardinality(left)
      /\ Cardinality(left) = Cardinality(ChargedLots) - 1
  BY <1>1, <1>2, ChargedAre, LotsCounted
<1>4. /\ Cardinality(ChargedLots') \in Nat /\ Cardinality(ChargedLots) \in Nat
      /\ Cardinality(left) \in Nat /\ deployed \in Nat
  BY <1>2, ChargedAre, LotsCounted, MemoryParts DEF Typed, TypeOK
<1> QED BY <1>3, <1>4 DEF Covered, Released

-----------------------------------------------------------------------------
(* The books, step by step.                                                *)

LEMMA BooksParts ==
    ASSUME BooksInv
    PROVE  Plainly /\ (\A i \in Ids : RowPlain(i)) /\ (\A c \in Contracts : ContractOK(c)) /\ Covered
BY DEF BooksInv, Covered

\* A contract that the step is not about.
LEMMA OtherStays ==
    ASSUME NEW c \in Contracts, ContractOK(c), ~AtHand(c), ~AtHand(c)', held'[c] = held[c],
           c \in journaled => c \in journaled',
           \A i \in Ids : Waits(i, c)' <=> Waits(i, c)
    PROVE  ContractOK(c)' /\ (Charged(c)' => Charged(c))
<1>1. ~Buying(c) /\ ~Selling(c) /\ ~Releasing(c) /\ ~Journaling(c)
  BY DEF AtHand, Buying, Selling, Releasing, Journaling
<1>2. ~Buying(c)' /\ ~Selling(c)' /\ ~Releasing(c)' /\ ~Journaling(c)'
  BY DEF AtHand, Buying, Selling, Releasing, Journaling
<1>3. ContractOK(c)'
  BY <1>1, <1>2 DEF ContractOK
<1>4. Charged(c)' => Charged(c)
  BY <1>1, <1>2 DEF Charged
<1> QED BY <1>3, <1>4

\* A step that only moves the cycle, from one place where nothing is at hand to another.
LEMMA BooksMove ==
    ASSUME Books, UNCHANGED <<held, order, pending, journaled, deployed, others>>,
           pc[Cycle] \notin {"sent", "release", "journal"},
           pc'[Cycle] \notin {"sent", "release", "journal", "restore", "resolve"},
           mode'[Cycle] # "orphan"
    PROVE  BooksInv'
<1>1. Plainly'
  BY DEF Books, BooksInv, Plainly
<1>2. \A i \in Ids : RowPlain(i)'
  BY DEF Books, BooksInv, RowPlain
<1>3. ASSUME NEW c \in Contracts PROVE ContractOK(c)' /\ (Charged(c)' => Charged(c))
  <2>1. ~AtHand(c) /\ ~AtHand(c)' /\ \A i \in Ids : Waits(i, c)' <=> Waits(i, c)
    BY DEF AtHand, Waits
  <2> QED BY <2>1, OtherStays DEF Books, BooksInv
<1>4. Covered'
  BY <1>3, NothingMore, BooksParts DEF Books
<1> QED BY <1>1, <1>2, <1>3, <1>4 DEF BooksInv, Covered

LEMMA BooksReading ==
    ASSUME BooksCalm, Books, Typed', Reading \/ SquareOffDone PROVE BooksInv'
<1>1. UNCHANGED <<held, order, pending, journaled, deployed, others>>
  BY DEF Reading, StartCycle, ReadPositions, ExitsDone, SquareOff, ReversalDone, NoSignal,
     GateShut, FindOrphans, Hold, Signal, ScanDone, SquareOffDone, brokerVars, memoryVars
<1>2. /\ pc[Cycle] \in {"idle", "verify", "scan", "entry", "buy", "restore"}
      /\ pc'[Cycle] \in {"verify", "scan", "entry", "idle", "buy"}
  BY ClosersAre DEF Reading, StartCycle, ReadPositions, ExitsDone, SquareOff, ReversalDone,
     NoSignal, GateShut, FindOrphans, Hold, Signal, ScanDone, SquareOffDone, Goto,
     Books, Typed, TypeOK, LocalsOK
<1>3. mode'[Cycle] # "orphan"
  <2>1. ~FindOrphans /\ mode[Cycle] # "orphan"
    BY DEF FindOrphans, Books, BooksInv, Plainly
  <2> QED BY <2>1, ClosersAre DEF Reading, StartCycle, ReadPositions, ExitsDone, SquareOff,
     ReversalDone, NoSignal, GateShut, Hold, Signal, ScanDone, SquareOffDone,
     Books, Typed, TypeOK, LocalsOK
<1> QED BY <1>1, <1>2, <1>3, BooksMove

LEMMA BooksExit ==
    ASSUME BooksCalm, Books, NEW c \in Contracts, Exit(Cycle, c) PROVE BooksInv'
<1>1. pending[c] = NoOrder /\ mode[Cycle] # "orphan"
  BY DEF Books, BooksInv, Plainly
<1>2. /\ UNCHANGED <<held, order, pending, journaled, deployed, others, mode>>
      /\ pc[Cycle] = "scan" /\ pc' = [pc EXCEPT ![Cycle] = "place"]
  BY <1>1 DEF Exit, Goto, brokerVars, memoryVars
<1>3. pc'[Cycle] = "place"
  BY <1>2, ClosersAre DEF Books, Typed, TypeOK, LocalsOK
<1> QED BY <1>1, <1>2, <1>3, BooksMove

\* A new order, in a slot that no entry waits in.
LEMMA BooksSend ==
    ASSUME Books, Typed', NEW k \in Contracts, NEW side \in {"BUY", "SELL"}, NEW entry \in BOOLEAN,
           pc[Cycle] \in {"place", "buy"}, SendOrder(Cycle, k, side, 1, entry),
           UNCHANGED <<held, pending, journaled, deployed, others, mode, snap>>, at'[Cycle] = k,
           entry => mode[Cycle] = "entry" /\ held[k] = 0 /\ \A i \in Ids : ~Waits(i, k),
           ~entry => /\ mode[Cycle] # "entry" /\ side = "SELL" /\ held[k] = 1
                     /\ snap[Cycle][k] = 1
    PROVE  BooksInv'
<1> DEFINE row == [contract |-> k, side |-> side, lots |-> 1, entry |-> entry,
                   status |-> "PENDING", fate |-> "flying"]
<1>1. /\ NextSlot \in Ids /\ Unused(NextSlot)
      /\ order' = [order EXCEPT ![NextSlot] = row]
      /\ ord'[Cycle] = NextSlot /\ pc'[Cycle] = "sent"
  BY FreshSlot, ClosersAre DEF SendOrder, Goto, Books, Typed, TypeOK, LocalsOK
<1>2. /\ row.contract = k /\ row.side = side /\ row.lots = 1 /\ row.entry = entry
      /\ row.status = "PENDING" /\ row.fate = "flying"
  OBVIOUS
<1> HIDE DEF row
<1>3. order'[NextSlot] = row /\ \A i \in Ids \ {NextSlot} : order'[i] = order[i]
  BY <1>1 DEF Books, Typed, TypeOK, BrokerOK
<1>4. \A i \in Ids : \A c \in Contracts : Waits(i, c)' <=> Waits(i, c)
  <2>1. order[NextSlot].status # "OPEN"
    BY <1>1 DEF Unused, Final
  <2> QED BY <1>2, <1>3, <2>1 DEF Waits
<1>5. Plainly'
  BY <1>1 DEF Books, BooksInv, Plainly
<1>6. ASSUME NEW i \in Ids PROVE RowPlain(i)'
  <2>1. CASE i = NextSlot
    BY <1>1, <1>2, <1>3, <2>1 DEF RowPlain
  <2>2. CASE i # NextSlot
    <3>1. RowPlain(i) /\ order'[i] = order[i] /\ pc[Cycle] # "sent"
      BY <1>3, <2>2 DEF Books, BooksInv
    <3> QED BY <3>1 DEF RowPlain
  <2> QED BY <2>1, <2>2
<1>7. ~Releasing(k)' /\ ~Journaling(k)' /\ (Buying(k)' <=> entry) /\ (Selling(k)' <=> ~entry)
  BY <1>1 DEF Releasing, Journaling, Buying, Selling
<1>8. Sent' = row
  BY <1>1, <1>3 DEF Sent
<1>9. ~Buying(k) /\ ~Selling(k) /\ ~Releasing(k) /\ ~Journaling(k) /\ ContractOK(k)
  BY DEF Buying, Selling, Releasing, Journaling, Books, BooksInv
<1>10. ContractOK(k)'
  <2>1. CASE entry
    BY <1>2, <1>4, <1>7, <1>8, <1>9, <2>1 DEF ContractOK
  <2>2. CASE ~entry
    <3>1. \A i \in Ids : ~Waits(i, k)'
      BY <1>4, <1>9, <2>2 DEF ContractOK
    <3> QED BY <1>2, <1>7, <1>8, <1>9, <2>2, <3>1 DEF ContractOK
  <2> QED BY <2>1, <2>2
<1>11. Charged(k)' => Charged(k)
  BY <1>4, <1>7, <1>9 DEF Charged
<1>12. ASSUME NEW c \in Contracts \ {k} PROVE ContractOK(c)' /\ (Charged(c)' => Charged(c))
  <2>1. ~AtHand(c) /\ ~AtHand(c)'
    BY <1>1 DEF AtHand
  <2> QED BY <1>4, <2>1, OtherStays DEF Books, BooksInv
<1>13. Covered'
  BY <1>11, <1>12, NothingMore, BooksParts DEF Books
<1>14. \A c \in Contracts : ContractOK(c)'
  BY <1>10, <1>12
<1> QED BY <1>5, <1>6, <1>13, <1>14 DEF BooksInv, Covered

LEMMA BooksPlace == ASSUME BooksCalm, Books, Typed', Place(Cycle) PROVE BooksInv'
<1> DEFINE k == at[Cycle]
<1>1. /\ pc[Cycle] = "place" /\ k \in Contracts /\ mode[Cycle] \notin {"entry", "orphan"}
      /\ pending[k] = NoOrder /\ others = {}
  BY ClosersAre DEF Place, Books, BooksInv, Plainly, Typed, LabelsOK, Exiting
<1>2. Alone(k) /\ Deciding(k) /\ NoneOutstanding(k) /\ ContractOK(k)
  BY <1>1 DEF Books, BooksInv, SaleInv, Deciding, NoneOutstanding
<1>3. snap[Cycle][k] = 1 /\ held[k] = 1
  <2>1. snap[Cycle][k] \in Int /\ held[k] \in {0, 1}
    BY <1>1, <1>2, ClosersAre DEF ContractOK, Books, Typed, TypeOK, LocalsOK
  <2> QED BY <1>2, <2>1 DEF Alone
<1>4. /\ SendOrder(Cycle, k, "SELL", 1, FALSE)
      /\ UNCHANGED <<held, pending, journaled, deployed, others, mode, snap, at>>
  <2>1. /\ (IF snap[Cycle][k] < 0 /\ mode[Cycle] \in {"squareoff", "orphan"}
             THEN "BUY" ELSE "SELL") = "SELL"
        /\ Abs(snap[Cycle][k]) = 1
    BY <1>3 DEF Abs
  <2> QED BY <2>1 DEF Place, memoryVars
<1> QED BY <1>1, <1>3, <1>4, BooksSend

LEMMA BooksBuy == ASSUME BooksCalm, Books, Typed', Buy PROVE BooksInv'
<1>1. /\ pc[Cycle] = "buy" /\ target \in Contracts /\ mode[Cycle] = "entry"
  BY DEF Buy, Books, Typed, LabelsOK
<1>2. held[target] = 0
  <2>1. Positions = {held}
    BY CalmIs DEF Positions, Books
  <2>2. held[target] <= 0
    BY <2>1 DEF Buy
  <2> QED BY <1>1, <2>2 DEF Books, BooksInv, ContractOK
<1>3. \A i \in Ids : ~Waits(i, target)
  BY DEF Buy, Waits
<1>4. /\ SendOrder(Cycle, target, "BUY", 1, TRUE) /\ at'[Cycle] = target
      /\ UNCHANGED <<held, pending, journaled, deployed, others, mode, snap>>
  BY ClosersAre DEF Buy, memoryVars, Books, Typed, TypeOK, LocalsOK
<1> QED BY <1>1, <1>2, <1>3, <1>4, BooksSend

\* A row with another status or fate.
Rewritten(i) ==
    /\ order'[i].contract = order[i].contract /\ order'[i].side = order[i].side
    /\ order'[i].lots = order[i].lots /\ order'[i].entry = order[i].entry
    /\ \A j \in Ids \ {i} : order'[j] = order[j]

LEMMA WriteIs ==
    ASSUME BrokerOK, NEW i \in Ids, NEW s \in Statuses, NEW f \in Fates,
           order' = [order EXCEPT ![i].status = s, ![i].fate = f]
    PROVE  Rewritten(i) /\ order'[i].status = s /\ order'[i].fate = f
<1>1. order[i] \in Rows
  BY DEF BrokerOK
<1> QED BY <1>1, TypedWrite DEF Rewritten, Rows

LEMMA StatusIs ==
    ASSUME BrokerOK, NEW i \in Ids, NEW s \in Statuses, order' = [order EXCEPT ![i].status = s]
    PROVE  Rewritten(i) /\ order'[i].status = s /\ order'[i].fate = order[i].fate
<1>1. order[i] \in Rows
  BY DEF BrokerOK
<1> QED BY <1>1, TypedStatus DEF Rewritten, Rows

LEMMA FateIs ==
    ASSUME BrokerOK, NEW i \in Ids, NEW f \in Fates, order' = [order EXCEPT ![i].fate = f]
    PROVE  Rewritten(i) /\ order'[i].status = order[i].status /\ order'[i].fate = f
<1>1. order[i] \in Rows
  BY DEF BrokerOK
<1> QED BY <1>1, TypedFate DEF Rewritten, Rows

\* The row of the call under way, and its contract.
LEMMA SentIs ==
    ASSUME Books, pc[Cycle] = "sent", NEW k, k = at[Cycle], NEW i, i = ord[Cycle]
    PROVE  /\ k \in Contracts /\ i \in Ids /\ ContractOK(k) /\ RowPlain(i)
           /\ order[i].status = "PENDING" /\ order[i].contract = k
           /\ order[i].entry <=> mode[Cycle] = "entry"
           /\ order[i].fate \in {"flying", "resting", "filled", "killed"}
           /\ ~order[i].entry => order[i].fate \in {"flying", "filled"}
           /\ Sent = order[i] /\ ~Releasing(k) /\ ~Journaling(k)
           /\ mode[Cycle] = "entry" => Buying(k) /\ ~Selling(k)
           /\ mode[Cycle] # "entry" => Selling(k) /\ ~Buying(k)
           /\ \A j \in Ids : ~Waits(j, k)
<1>1. k \in Contracts /\ i \in Ids
  BY ClosersAre DEF Books, Typed, LabelsOK, Exiting
<1>2. CallOK(Cycle) /\ RowOK(order[i]) /\ RowPlain(i) /\ ContractOK(k)
  BY <1>1, ClosersAre DEF Books, RowInv, RowsOK, BooksInv
<1>3. /\ order[i].status = "PENDING" /\ order[i].contract = k
      /\ order[i].entry <=> mode[Cycle] = "entry"
      /\ order[i].fate \notin {"none", "lost"}
  BY <1>2 DEF CallOK
<1>4. order[i].fate \in {"flying", "resting", "filled", "killed"}
  BY <1>1, <1>3 DEF Books, Typed, TypeOK, BrokerOK, Rows, Fates
<1>5. ~order[i].entry => order[i].fate \in {"flying", "filled"}
  BY <1>2, <1>4 DEF RowOK, RowPlain
<1>6. /\ Sent = order[i] /\ ~Releasing(k) /\ ~Journaling(k)
      /\ mode[Cycle] = "entry" => Buying(k) /\ ~Selling(k)
      /\ mode[Cycle] # "entry" => Selling(k) /\ ~Buying(k)
  BY DEF Sent, Releasing, Journaling, Buying, Selling
<1>7. \A j \in Ids : ~Waits(j, k)
  BY <1>2, <1>6 DEF ContractOK
<1> QED BY <1>1, <1>2, <1>3, <1>4, <1>5, <1>6, <1>7

\* The answer to a call: what remains to be shown is about its contract.
LEMMA BooksAnswer ==
    ASSUME Books, pc[Cycle] = "sent", NEW k, k = at[Cycle], NEW i, i = ord[Cycle],
           Rewritten(i), order'[i].status \in {"OPEN", "FAILED"},
           order'[i].fate \notin {"flying"}, order'[i].fate = "resting" => order'[i].status = "OPEN",
           ~order[i].entry => order'[i].fate # "killed",
           UNCHANGED <<held, pending, others, mode>>,
           pc'[Cycle] \in {"release", "journal", "scan", "entry"},
           pc'[Cycle] \in {"release", "journal"} => at'[Cycle] = k,
           \A c \in Contracts \ {k} : c \in journaled => c \in journaled',
           ContractOK(k)'
    PROVE  /\ Plainly' /\ (\A j \in Ids : RowPlain(j)') /\ (\A c \in Contracts : ContractOK(c)')
           /\ \A c \in Contracts \ {k} : Charged(c)' => Charged(c)
<1>1. /\ k \in Contracts /\ i \in Ids /\ RowPlain(i) /\ order[i].contract = k
      /\ order[i].status = "PENDING"
  BY SentIs
<1>2. Plainly'
  BY DEF Books, BooksInv, Plainly
<1>3. ASSUME NEW j \in Ids PROVE RowPlain(j)'
  <2>1. CASE j = i
    BY <1>1, <2>1 DEF RowPlain, Rewritten
  <2>2. CASE j # i
    <3>1. RowPlain(j) /\ order'[j] = order[j]
      BY <2>2 DEF Rewritten, Books, BooksInv
    <3> QED BY <2>2, <3>1 DEF RowPlain
  <2> QED BY <2>1, <2>2
<1>4. ASSUME NEW c \in Contracts \ {k} PROVE ContractOK(c)' /\ (Charged(c)' => Charged(c))
  <2>1. ~AtHand(c) /\ ~AtHand(c)'
    BY DEF AtHand
  <2>2. ASSUME NEW j \in Ids PROVE Waits(j, c)' <=> Waits(j, c)
    BY <1>1 DEF Waits, Rewritten
  <2> QED BY <2>1, <2>2, OtherStays DEF Books, BooksInv
<1>5. \A c \in Contracts : ContractOK(c)'
  BY <1>4
<1> QED BY <1>2, <1>3, <1>4, <1>5

LEMMA BooksExitTaken == ASSUME BooksCalm, Books, Typed', ExitTaken(Cycle) PROVE BooksInv'
<1> SUFFICES ASSUME NEW k, k = at[Cycle], NEW i, i = ord[Cycle] PROVE BooksInv'
  OBVIOUS
<1>1. /\ pc[Cycle] = "sent" /\ mode[Cycle] \notin {"entry", "orphan"} /\ order[i].fate # "flying"
      /\ order' = [order EXCEPT ![i].status = "OPEN"] /\ Settle(Cycle)
      /\ UNCHANGED <<held, pending, deployed, mode, snap, others>>
  BY DEF ExitTaken, Books, BooksInv, Plainly
<1>2. /\ k \in Contracts /\ i \in Ids /\ ContractOK(k) /\ Selling(k) /\ ~Buying(k)
      /\ order[i].contract = k /\ ~order[i].entry /\ Sent = order[i]
      /\ order[i].fate = "filled" /\ \A j \in Ids : ~Waits(j, k)
  BY <1>1, SentIs
<1>3. Rewritten(i) /\ order'[i].status = "OPEN" /\ order'[i].fate = "filled"
  BY <1>1, <1>2, StatusIs DEF Books, Typed, TypeOK, Statuses
<1>4. held[k] = 0 /\ snap[Cycle][k] = 1
  BY <1>2 DEF ContractOK
<1>5. journaled' = journaled \ {k}
      /\ \/ pc'[Cycle] = "release" /\ at'[Cycle] = k
         \/ pc'[Cycle] = "scan"
  BY <1>1, ClosersAre DEF Settle, Leave, Goto, Books, Typed, TypeOK, LocalsOK
<1>6. \A j \in Ids : ~Waits(j, k)'
  BY <1>2, <1>3 DEF Waits, Rewritten
<1>7. ~Buying(k)' /\ ~Selling(k)'
  BY <1>5 DEF Buying, Selling
<1>8. ContractOK(k)'
  BY <1>1, <1>4, <1>6, <1>7 DEF ContractOK
<1>9. /\ Plainly' /\ (\A j \in Ids : RowPlain(j)') /\ (\A c \in Contracts : ContractOK(c)')
      /\ \A c \in Contracts \ {k} : Charged(c)' => Charged(c)
  BY <1>1, <1>2, <1>3, <1>5, <1>8, BooksAnswer
<1>10. Charged(k)
  BY <1>2 DEF Charged
<1>11. Covered'
  BY <1>1, <1>9, <1>10, NothingMore, BooksParts DEF Books
<1> QED BY <1>9, <1>11 DEF BooksInv, Covered

LEMMA BooksExitFailed == ASSUME BooksCalm, Books, Typed', ExitFailed(Cycle) PROVE BooksInv'
<1> SUFFICES ASSUME NEW k, k = at[Cycle], NEW i, i = ord[Cycle] PROVE BooksInv'
  OBVIOUS
<1>1. /\ pc[Cycle] = "sent" /\ mode[Cycle] \notin {"entry", "orphan"} /\ order[i].fate = "flying"
      /\ order' = [order EXCEPT ![i].status = "FAILED", ![i].fate = "lost"] /\ Leave(Cycle)
      /\ UNCHANGED <<held, pending, journaled, deployed, mode, snap, others>>
  BY DEF ExitFailed, Books, BooksInv, Plainly, memoryVars
<1>2. /\ k \in Contracts /\ i \in Ids /\ ContractOK(k) /\ Selling(k) /\ ~Buying(k)
      /\ order[i].contract = k /\ ~order[i].entry /\ Sent = order[i] /\ ~Journaling(k)
      /\ \A j \in Ids : ~Waits(j, k)
  BY <1>1, SentIs
<1>3. Rewritten(i) /\ order'[i].status = "FAILED" /\ order'[i].fate = "lost"
  BY <1>1, <1>2, WriteIs DEF Books, Typed, TypeOK, Statuses, Final, Fates
<1>4. held[k] = 1 /\ k \in journaled
  BY <1>1, <1>2 DEF ContractOK
<1>5. pc'[Cycle] = "scan"
  BY <1>1, ClosersAre DEF Leave, Goto, Books, Typed, TypeOK, LocalsOK
<1>6. \A j \in Ids : ~Waits(j, k)'
  BY <1>2, <1>3 DEF Waits, Rewritten
<1>7. ~Buying(k)' /\ ~Selling(k)' /\ ~Releasing(k)'
  BY <1>5 DEF Buying, Selling, Releasing
<1>8. ContractOK(k)'
  BY <1>1, <1>4, <1>6, <1>7 DEF ContractOK
<1>9. /\ Plainly' /\ (\A j \in Ids : RowPlain(j)') /\ (\A c \in Contracts : ContractOK(c)')
      /\ \A c \in Contracts \ {k} : Charged(c)' => Charged(c)
  BY <1>1, <1>2, <1>3, <1>5, <1>8, BooksAnswer
<1>10. Charged(k)
  BY <1>2 DEF Charged
<1>11. Covered'
  BY <1>1, <1>9, <1>10, NothingMore, BooksParts DEF Books
<1> QED BY <1>9, <1>11 DEF BooksInv, Covered

LEMMA BooksEntryTaken == ASSUME BooksCalm, Books, Typed', EntryTaken PROVE BooksInv'
<1> SUFFICES ASSUME NEW k, k = at[Cycle], NEW i, i = ord[Cycle] PROVE BooksInv'
  OBVIOUS
<1>1. /\ pc[Cycle] = "sent" /\ mode[Cycle] = "entry" /\ order[i].fate # "flying"
      /\ order' = [order EXCEPT ![i].status = "OPEN"] /\ deployed' = deployed + 1
      /\ UNCHANGED <<held, pending, journaled, mode, snap, at, others>>
  BY DEF EntryTaken
<1>2. pc'[Cycle] = "journal"
  BY ClosersAre DEF EntryTaken, Goto, Books, Typed, TypeOK, LocalsOK
<1>3. /\ k \in Contracts /\ i \in Ids /\ ContractOK(k) /\ Buying(k)
      /\ order[i].contract = k /\ order[i].entry /\ Sent = order[i]
      /\ order[i].fate \in {"resting", "filled", "killed"} /\ \A j \in Ids : ~Waits(j, k)
  BY <1>1, SentIs
<1>4. Rewritten(i) /\ order'[i].status = "OPEN" /\ order'[i].fate = order[i].fate
  BY <1>1, <1>3, StatusIs DEF Books, Typed, TypeOK, Statuses
<1>5. held[k] = IF order[i].fate = "filled" THEN 1 ELSE 0
  BY <1>3 DEF ContractOK
<1>6. \A j \in Ids : Waits(j, k)' => j = i /\ order[i].fate # "filled"
  BY <1>3, <1>4 DEF Waits, Rewritten
<1>7. ~Buying(k)' /\ ~Selling(k)' /\ ~Releasing(k)' /\ Journaling(k)'
  BY <1>1, <1>2 DEF Buying, Selling, Releasing, Journaling
<1>8. ContractOK(k)'
  BY <1>1, <1>5, <1>6, <1>7 DEF ContractOK
<1>9. /\ Plainly' /\ (\A j \in Ids : RowPlain(j)') /\ (\A c \in Contracts : ContractOK(c)')
      /\ \A c \in Contracts \ {k} : Charged(c)' => Charged(c)
  BY <1>1, <1>2, <1>3, <1>4, <1>8, BooksAnswer
<1>10. Covered'
  BY <1>1, <1>3, <1>9, OneMore, BooksParts DEF Books
<1> QED BY <1>9, <1>10 DEF BooksInv, Covered

LEMMA BooksEntryNotTaken == ASSUME BooksCalm, Books, Typed', EntryNotTaken PROVE BooksInv'
<1> SUFFICES ASSUME NEW k, k = at[Cycle], NEW i, i = ord[Cycle] PROVE BooksInv'
  OBVIOUS
<1>1. /\ pc[Cycle] = "sent" /\ mode[Cycle] = "entry" /\ order[i].fate = "flying"
      /\ order' = [order EXCEPT ![i].status = "FAILED", ![i].fate = "lost"] /\ BackToEntry
      /\ UNCHANGED <<held, pending, journaled, deployed, mode, snap, others>>
  BY CalmIs DEF EntryNotTaken, memoryVars, Books
<1>2. pc'[Cycle] = "entry"
  BY <1>1, ClosersAre DEF BackToEntry, Goto, Books, Typed, TypeOK, LocalsOK
<1>3. /\ k \in Contracts /\ i \in Ids /\ ContractOK(k) /\ Buying(k)
      /\ order[i].contract = k /\ order[i].entry /\ Sent = order[i]
      /\ \A j \in Ids : ~Waits(j, k)
  BY <1>1, SentIs
<1>4. Rewritten(i) /\ order'[i].status = "FAILED" /\ order'[i].fate = "lost"
  BY <1>1, <1>3, WriteIs DEF Books, Typed, TypeOK, Statuses, Final, Fates
<1>5. held[k] = 0
  BY <1>1, <1>3 DEF ContractOK
<1>6. \A j \in Ids : ~Waits(j, k)'
  BY <1>3, <1>4 DEF Waits, Rewritten
<1>7. ~Buying(k)' /\ ~Selling(k)' /\ ~Releasing(k)'
  BY <1>2 DEF Buying, Selling, Releasing
<1>8. ContractOK(k)'
  BY <1>1, <1>5, <1>6, <1>7 DEF ContractOK
<1>9. /\ Plainly' /\ (\A j \in Ids : RowPlain(j)') /\ (\A c \in Contracts : ContractOK(c)')
      /\ \A c \in Contracts \ {k} : Charged(c)' => Charged(c)
  BY <1>1, <1>2, <1>3, <1>4, <1>8, BooksAnswer
<1>10. ~Charged(k)'
  BY <1>1, <1>5, <1>6, <1>7 DEF Charged
<1>11. Covered'
  BY <1>1, <1>9, <1>10, NothingMore, BooksParts DEF Books
<1> QED BY <1>9, <1>11 DEF BooksInv, Covered

LEMMA BooksJournal == ASSUME BooksCalm, Books, Typed', Journal PROVE BooksInv'
<1>1. /\ pc[Cycle] = "journal" /\ journaled' = journaled \cup {at[Cycle]}
      /\ UNCHANGED <<held, order, pending, deployed, mode, snap, others>>
  BY CalmIs DEF Journal, brokerVars, Books
<1>2. pc'[Cycle] = "entry"
  BY ClosersAre DEF Journal, BackToEntry, Goto, Books, Typed, TypeOK, LocalsOK
<1>3. Plainly' /\ \A i \in Ids : RowPlain(i)'
  BY <1>1, <1>2 DEF Books, BooksInv, Plainly, RowPlain
<1>4. ASSUME NEW c \in Contracts PROVE ContractOK(c)' /\ (Charged(c)' => Charged(c))
  <2>1. \A i \in Ids : Waits(i, c)' <=> Waits(i, c)
    BY <1>1 DEF Waits
  <2>2. /\ ~Buying(c) /\ ~Selling(c) /\ ~Releasing(c)
        /\ ~Buying(c)' /\ ~Selling(c)' /\ ~Releasing(c)'
    BY <1>1, <1>2 DEF Buying, Selling, Releasing
  <2>3. c \in journaled \/ Journaling(c) => c \in journaled'
    BY <1>1 DEF Journaling
  <2>4. ContractOK(c)'
    BY <1>1, <2>1, <2>2, <2>3 DEF ContractOK, Books, BooksInv
  <2>5. Charged(c)' => Charged(c)
    BY <1>1, <2>1, <2>2 DEF Charged
  <2> QED BY <2>4, <2>5
<1>5. Covered'
  BY <1>1, <1>4, NothingMore, BooksParts DEF Books
<1> QED BY <1>3, <1>4, <1>5 DEF BooksInv, Covered

LEMMA BooksRelease == ASSUME BooksCalm, Books, Typed', Release(Cycle) PROVE BooksInv'
<1> SUFFICES ASSUME NEW k, k = at[Cycle] PROVE BooksInv'
  OBVIOUS
<1>1. /\ pc[Cycle] = "release" /\ deployed' = Released(Abs(snap[Cycle][k]))
      /\ UNCHANGED <<held, order, pending, journaled, mode, snap, others>>
  BY DEF Release, brokerVars
<1>2. pc'[Cycle] = "scan"
  BY ClosersAre DEF Release, Leave, Goto, Books, Typed, TypeOK, LocalsOK
<1>3. k \in Contracts /\ ContractOK(k) /\ Releasing(k)
  BY <1>1, ClosersAre DEF Books, BooksInv, Typed, LabelsOK, Exiting, Releasing
<1>4. Plainly' /\ \A i \in Ids : RowPlain(i)'
  BY <1>1, <1>2 DEF Books, BooksInv, Plainly, RowPlain
<1>5. ASSUME NEW c \in Contracts
      PROVE  /\ \A i \in Ids : Waits(i, c)' <=> Waits(i, c)
             /\ ~Buying(c) /\ ~Selling(c) /\ ~Journaling(c)
             /\ ~Buying(c)' /\ ~Selling(c)' /\ ~Releasing(c)'
  BY <1>1, <1>2 DEF Waits, Buying, Selling, Releasing, Journaling
<1>6. ASSUME NEW c \in Contracts PROVE ContractOK(c)' /\ (Charged(c)' => Charged(c))
  <2>1. ContractOK(c)'
    BY <1>1, <1>5 DEF ContractOK, Books, BooksInv
  <2>2. Charged(c)' => Charged(c)
    BY <1>1, <1>5 DEF Charged
  <2> QED BY <2>1, <2>2
<1>7. held[k] = 0 /\ snap[Cycle][k] = 1 /\ \A i \in Ids : ~Waits(i, k)
  BY <1>3 DEF ContractOK
<1>8. Charged(k) /\ ~Charged(k)'
  BY <1>1, <1>3, <1>5, <1>7 DEF Charged
<1>9. deployed' = Released(1)
  BY <1>1, <1>7 DEF Abs
<1>10. Covered'
  BY <1>3, <1>6, <1>8, <1>9, OneLess, BooksParts DEF Books
<1> QED BY <1>4, <1>6, <1>10 DEF BooksInv, Covered

\* The broker or a job has changed the row of an order, and nothing else of the engine than
\* what is deployed.
LEMMA BooksRow ==
    ASSUME Books, NEW i \in Ids, Rewritten(i), RowPlain(i)',
           UNCHANGED <<pending, journaled, others, localVars>>,
           NEW k, \A c \in Contracts \ {k} : held'[c] = held[c] /\ (Waits(i, c)' <=> Waits(i, c)),
           \A c \in Contracts : AtHand(c) /\ pc[Cycle] = "sent" /\ i = ord[Cycle] => c = k
    PROVE  /\ Plainly' /\ \A j \in Ids : RowPlain(j)'
           /\ \A c \in Contracts \ {k} : ContractOK(c)' /\ (Charged(c)' => Charged(c))
<1>1. UNCHANGED <<pc, mode, snap, at, ord>>
  BY DEF localVars
<1>2. Plainly'
  BY <1>1 DEF Books, BooksInv, Plainly
<1>3. ASSUME NEW j \in Ids PROVE RowPlain(j)'
  <2>1. CASE j # i
    <3>1. RowPlain(j) /\ order'[j] = order[j]
      BY <2>1 DEF Rewritten, Books, BooksInv
    <3> QED BY <1>1, <3>1 DEF RowPlain
  <2> QED BY <2>1
<1>4. ASSUME NEW c \in Contracts \ {k} PROVE ContractOK(c)' /\ (Charged(c)' => Charged(c))
  <2>1. ASSUME NEW j \in Ids PROVE Waits(j, c)' <=> Waits(j, c)
    <3>1. CASE j # i
      BY <3>1 DEF Waits, Rewritten
    <3> QED BY <3>1
  <2>2. /\ Buying(c)' <=> Buying(c)
        /\ Selling(c)' <=> Selling(c)
        /\ Releasing(c)' <=> Releasing(c)
        /\ Journaling(c)' <=> Journaling(c)
    BY <1>1 DEF Buying, Selling, Releasing, Journaling
  <2>3. Buying(c) \/ Selling(c) => Sent' = Sent
    <3>1. SUFFICES ASSUME pc[Cycle] = "sent", at[Cycle] = c PROVE Sent' = Sent
      BY DEF Buying, Selling
    <3>2. ord[Cycle] \in Ids \ {i}
      BY <3>1, ClosersAre DEF AtHand, Books, Typed, LabelsOK
    <3> QED BY <1>1, <3>2 DEF Sent, Rewritten
  <2>4. ContractOK(c)'
    BY <1>1, <2>1, <2>2, <2>3 DEF ContractOK, Books, BooksInv
  <2>5. Charged(c)' => Charged(c)
    BY <2>1, <2>2 DEF Charged
  <2> QED BY <2>4, <2>5
<1> QED BY <1>2, <1>3, <1>4

\* An entry that waits is given up, and its capital released.
LEMMA BooksGiveUp ==
    ASSUME Books, NEW i \in Ids, order[i].status = "OPEN", order[i].entry,
           order[i].fate \in {"resting", "killed"}, Rewritten(i),
           order'[i].status \in {"EXPIRED", "REJECTED"}, order'[i].fate = "killed",
           UNCHANGED <<held, pending, journaled, others, localVars>>,
           deployed' = Released(order[i].lots)
    PROVE  BooksInv'
<1> SUFFICES ASSUME NEW k, k = order[i].contract PROVE BooksInv'
  OBVIOUS
<1>1. UNCHANGED <<pc, mode, snap, at, ord>>
  BY DEF localVars
<1>2. RowPlain(i) /\ k \in Contracts /\ ContractOK(k) /\ order[i].lots = 1
  BY DEF Books, BooksInv, RowPlain
<1>3. RowPlain(i)'
  BY <1>2 DEF RowPlain, Rewritten
<1>4. /\ pc[Cycle] = "sent" => i # ord[Cycle]
      /\ \A c \in Contracts \ {k} : Waits(i, c)' <=> Waits(i, c)
  BY SentIs DEF Waits, Rewritten
<1>5. /\ Plainly' /\ \A j \in Ids : RowPlain(j)'
      /\ \A c \in Contracts \ {k} : ContractOK(c)' /\ (Charged(c)' => Charged(c))
  BY <1>3, <1>4, BooksRow
<1>6. Waits(i, k)
  BY DEF Waits
<1>7. /\ held[k] = 0 /\ ~Buying(k) /\ ~Selling(k) /\ ~Releasing(k)
      /\ \A j \in Ids : Waits(j, k) => j = i
  BY <1>2, <1>6 DEF ContractOK
<1>8. \A j \in Ids : ~Waits(j, k)'
  BY <1>7 DEF Waits, Rewritten
<1>9. ~Buying(k)' /\ ~Selling(k)' /\ ~Releasing(k)'
  BY <1>1, <1>7 DEF Buying, Selling, Releasing
<1>10. ContractOK(k)' /\ ~Charged(k)'
  BY <1>7, <1>8, <1>9 DEF ContractOK, Charged
<1>11. Charged(k)
  BY <1>6 DEF Charged
<1>12. Covered'
  BY <1>2, <1>5, <1>10, <1>11, OneLess, BooksParts DEF Books
<1> QED BY <1>5, <1>10, <1>12 DEF BooksInv, Covered

LEMMA BooksExpire ==
    ASSUME BooksCalm, Books, NEW i \in Ids, Verify(i) \/ ExpireStale(i) PROVE BooksInv'
<1>1. order[i].status # "PENDING_VERIFICATION" /\ RowOK(order[i])
  BY DEF Books, BooksInv, RowPlain, RowInv, RowsOK
<1>2. /\ order[i].status = "OPEN" /\ order[i].fate = "resting" /\ order[i].entry
      /\ order' = [order EXCEPT ![i].status = "EXPIRED", ![i].fate = "killed"]
      /\ deployed' = Released(order[i].lots)
      /\ UNCHANGED <<held, pending, journaled, others, localVars>>
  BY <1>1 DEF Verify, ExpireStale, RowOK, memoryVars
<1>3. Rewritten(i) /\ order'[i].status = "EXPIRED" /\ order'[i].fate = "killed"
  BY <1>2, WriteIs DEF Books, Typed, TypeOK, Statuses, Final, Fates
<1> QED BY <1>2, <1>3, BooksGiveUp

LEMMA BooksSync == ASSUME BooksCalm, Books, NEW i \in Ids, Sync(i) PROVE BooksInv'
<1>1. /\ order[i].status = "OPEN" /\ UNCHANGED <<held, pending, journaled, others, localVars>>
      /\ RowPlain(i)
  BY DEF Sync, memoryVars, Books, BooksInv
<1>2. CASE /\ order[i].fate = "filled" /\ deployed' = deployed
           /\ order' = [order EXCEPT ![i].status = "COMPLETED"]
  <2>1. Rewritten(i) /\ order'[i].status = "COMPLETED" /\ order'[i].fate = "filled"
    BY <1>2, StatusIs DEF Books, Typed, TypeOK, Statuses, Final
  <2>2. RowPlain(i)'
    BY <1>1, <2>1 DEF RowPlain, Rewritten
  <2>3. pc[Cycle] = "sent" => i # ord[Cycle]
    BY <1>1, SentIs
  <2>4. \A c \in Contracts \ {NoContract} : held'[c] = held[c] /\ (Waits(i, c)' <=> Waits(i, c))
    BY <1>1, <1>2, <2>1 DEF Waits
  <2>5. /\ Plainly' /\ \A j \in Ids : RowPlain(j)'
        /\ \A c \in Contracts \ {NoContract} : ContractOK(c)' /\ (Charged(c)' => Charged(c))
    BY <1>1, <2>1, <2>2, <2>3, <2>4, BooksRow
  <2>6. \A c \in Contracts : ContractOK(c)' /\ (Charged(c)' => Charged(c))
    BY <2>5, SingleLegConstants
  <2>7. Covered'
    BY <1>2, <2>6, NothingMore, BooksParts DEF Books
  <2> QED BY <2>5, <2>6, <2>7 DEF BooksInv, Covered
<1>3. CASE /\ order[i].fate = "killed" /\ order' = [order EXCEPT ![i].status = "REJECTED"]
           /\ deployed' = IF order[i].entry THEN Released(order[i].lots) ELSE deployed
  <2>1. order[i].entry
    BY <1>1, <1>3 DEF RowPlain
  <2>2. Rewritten(i) /\ order'[i].status = "REJECTED" /\ order'[i].fate = "killed"
    BY <1>3, StatusIs DEF Books, Typed, TypeOK, Statuses, Final
  <2> QED BY <1>1, <1>3, <2>1, <2>2, BooksGiveUp
<1> QED BY <1>2, <1>3 DEF Sync

LEMMA BooksFill == ASSUME BooksCalm, Books, Typed', NEW i \in Ids, Fill(i) PROVE BooksInv'
<1> SUFFICES ASSUME NEW k, k = order[i].contract PROVE BooksInv'
  OBVIOUS
<1>1. /\ order[i].fate = "resting" /\ order' = [order EXCEPT ![i].fate = "filled"]
      /\ UNCHANGED <<pending, journaled, deployed, others, localVars>>
  BY DEF Fill, memoryVars
<1>2. RowPlain(i) /\ RowOK(order[i])
  BY DEF Books, BooksInv, RowInv, RowsOK
<1>3. order[i].entry /\ order[i].lots = 1 /\ order[i].side = "BUY"
  BY <1>1, <1>2 DEF RowPlain, RowOK
<1>4. held' = [held EXCEPT ![k] = @ + 1]
  BY <1>3 DEF Fill, Signed
<1>5. held \in [Contracts -> Int]
  BY DEF Books, Typed, TypeOK, BrokerOK
<1>6. Rewritten(i) /\ order'[i].status = order[i].status /\ order'[i].fate = "filled"
  BY <1>1, FateIs DEF Books, Typed, TypeOK, Fates
<1>7. UNCHANGED <<pc, mode, snap, at, ord>>
  BY <1>1 DEF localVars
<1>8. RowPlain(i)'
  BY <1>2, <1>6, <1>7 DEF RowPlain, Rewritten
<1>9. pc[Cycle] = "sent" /\ i = ord[Cycle] => at[Cycle] = k
  BY SentIs
<1>10. \A c \in Contracts \ {k} : held'[c] = held[c] /\ (Waits(i, c)' <=> Waits(i, c))
  BY <1>4, <1>5, <1>6 DEF Waits, Rewritten
<1>11. /\ Plainly' /\ \A j \in Ids : RowPlain(j)'
       /\ \A c \in Contracts \ {k} : ContractOK(c)' /\ (Charged(c)' => Charged(c))
  BY <1>1, <1>6, <1>8, <1>9, <1>10, BooksRow DEF AtHand
<1>12. ASSUME k \in Contracts PROVE ContractOK(k)' /\ (Charged(k)' => Charged(k))
  <2>1. ContractOK(k)
    BY <1>12 DEF Books, BooksInv
  <2>2. \A j \in Ids : Waits(j, k)' => Waits(j, k) /\ j # i
    BY <1>6 DEF Waits, Rewritten
  <2>3. /\ Buying(k)' <=> Buying(k)
        /\ Selling(k)' <=> Selling(k)
        /\ Releasing(k)' <=> Releasing(k)
        /\ Journaling(k)' <=> Journaling(k)
    BY <1>7 DEF Buying, Selling, Releasing, Journaling
  <2>4. CASE order[i].status = "OPEN"
    <3>1. Waits(i, k)
      BY <1>1, <1>3, <2>4 DEF Waits
    <3>2. /\ held[k] = 0 /\ ~Buying(k) /\ ~Selling(k) /\ ~Releasing(k)
          /\ \A j \in Ids : Waits(j, k) => j = i
          /\ k \in journaled \/ Journaling(k)
      BY <2>1, <3>1 DEF ContractOK
    <3>3. held'[k] = 1 /\ \A j \in Ids : ~Waits(j, k)'
      BY <1>4, <1>5, <1>12, <2>2, <3>2
    <3>4. ContractOK(k)'
      BY <1>1, <2>3, <3>2, <3>3 DEF ContractOK
    <3>5. Charged(k)
      BY <3>1 DEF Charged
    <3> QED BY <3>4, <3>5
  <2>5. CASE order[i].status = "PENDING"
    <3>1. pc[Cycle] = "sent" /\ i = ord[Cycle] /\ k = at[Cycle]
      BY <1>2, <1>9, <2>5 DEF RowPlain
    <3>2. /\ Buying(k) /\ ~Selling(k) /\ ~Releasing(k) /\ Sent = order[i]
          /\ \A j \in Ids : ~Waits(j, k)
      BY <1>3, <3>1, SentIs
    <3>3. held[k] = 0
      BY <1>1, <2>1, <3>2 DEF ContractOK
    <3>4. held'[k] = 1 /\ (\A j \in Ids : ~Waits(j, k)') /\ Sent' = order'[i]
      BY <1>4, <1>5, <1>7, <1>12, <2>2, <3>1, <3>2, <3>3 DEF Sent
    <3>5. ContractOK(k)' /\ ~Charged(k)'
      BY <1>6, <2>3, <3>2, <3>4 DEF ContractOK, Charged
    <3> QED BY <3>5
  <2> QED BY <1>1, <1>2, <2>4, <2>5 DEF RowPlain
<1>13. \A c \in Contracts : ContractOK(c)' /\ (Charged(c)' => Charged(c))
  BY <1>11, <1>12
<1>14. Covered'
  BY <1>1, <1>13, NothingMore, BooksParts DEF Books
<1> QED BY <1>11, <1>13, <1>14 DEF BooksInv, Covered

LEMMA BooksLand == ASSUME BooksCalm, Books, Typed', NEW i \in Ids, Land(i) PROVE BooksInv'
<1> SUFFICES ASSUME NEW k, k = order[i].contract PROVE BooksInv'
  OBVIOUS
<1>1. order[i].fate = "flying" /\ UNCHANGED <<pending, journaled, deployed, others, localVars>>
  BY DEF Land, memoryVars
<1>2. RowPlain(i)
  BY DEF Books, BooksInv
<1>3. pc[Cycle] = "sent" /\ i = ord[Cycle]
  BY <1>1, <1>2 DEF RowPlain
<1>4. /\ k = at[Cycle] /\ k \in Contracts /\ ContractOK(k) /\ order[i].status = "PENDING"
      /\ order[i].entry <=> mode[Cycle] = "entry"
      /\ Sent = order[i] /\ ~Releasing(k) /\ ~Journaling(k)
      /\ mode[Cycle] = "entry" => Buying(k) /\ ~Selling(k)
      /\ mode[Cycle] # "entry" => Selling(k) /\ ~Buying(k)
      /\ \A j \in Ids : ~Waits(j, k)
  BY <1>3, SentIs
<1>5. held \in [Contracts -> Int]
  BY DEF Books, Typed, TypeOK, BrokerOK
<1>6. PICK f \in {"resting", "filled", "killed"} :
        /\ order' = [order EXCEPT ![i].fate = f]
        /\ order[i].entry => f # "filled" /\ held' = held
        /\ ~order[i].entry => f = "filled" /\ held' = [held EXCEPT ![k] = @ + Signed(order[i])]
  <2>1. ~May("exit_rejected")
    BY CalmIs DEF Books
  <2>2. CASE order[i].entry
    BY <2>2 DEF Land
  <2>3. CASE ~order[i].entry
    BY <2>1, <2>3 DEF Land
  <2> QED BY <2>2, <2>3
<1>7. Rewritten(i) /\ order'[i].status = "PENDING" /\ order'[i].fate = f
  BY <1>4, <1>6, FateIs DEF Books, Typed, TypeOK, Fates
<1>8. UNCHANGED <<pc, mode, snap, at, ord>>
  BY <1>1 DEF localVars
<1>9. RowPlain(i)'
  BY <1>2, <1>3, <1>6, <1>7, <1>8 DEF RowPlain, Rewritten
<1>10. \A c \in Contracts \ {k} : held'[c] = held[c] /\ (Waits(i, c)' <=> Waits(i, c))
  BY <1>5, <1>6, <1>7 DEF Waits, Rewritten
<1>11. /\ Plainly' /\ \A j \in Ids : RowPlain(j)'
       /\ \A c \in Contracts \ {k} : ContractOK(c)' /\ (Charged(c)' => Charged(c))
  BY <1>1, <1>4, <1>7, <1>9, <1>10, BooksRow DEF AtHand
<1>12. \A j \in Ids : ~Waits(j, k)'
  BY <1>4, <1>7 DEF Waits, Rewritten
<1>13. /\ Buying(k)' <=> Buying(k)
       /\ Selling(k)' <=> Selling(k)
       /\ ~Releasing(k)' /\ ~Journaling(k)' /\ Sent' = order'[i]
  BY <1>3, <1>4, <1>8 DEF Buying, Selling, Releasing, Journaling, Sent
<1>14. CASE order[i].entry
  <2>1. held[k] = 0 /\ held'[k] = 0
    BY <1>1, <1>4, <1>6, <1>14 DEF ContractOK
  <2>2. ContractOK(k)' /\ ~Charged(k)'
    BY <1>4, <1>6, <1>7, <1>12, <1>13, <1>14, <2>1 DEF ContractOK, Charged
  <2> QED
    <3>1. Covered'
      BY <1>1, <1>11, <2>2, NothingMore, BooksParts DEF Books
    <3> QED BY <1>11, <2>2, <3>1 DEF BooksInv, Covered
<1>15. CASE ~order[i].entry
  <2>1. held[k] = 1 /\ order[i].side = "SELL" /\ order[i].lots = 1 /\ snap[Cycle][k] = 1
    BY <1>1, <1>4, <1>15 DEF ContractOK
  <2>2. held'[k] = 0
    BY <1>4, <1>5, <1>6, <1>15, <2>1 DEF Signed
  <2>3. ContractOK(k)'
    BY <1>4, <1>6, <1>7, <1>8, <1>12, <1>13, <1>15, <2>1, <2>2 DEF ContractOK, Rewritten
  <2>4. Charged(k)
    BY <1>4, <1>15 DEF Charged
  <2> QED
    <3>1. Covered'
      BY <1>1, <1>11, <2>4, NothingMore, BooksParts DEF Books
    <3> QED BY <1>11, <2>3, <3>1 DEF BooksInv, Covered
<1> QED BY <1>14, <1>15

\* The close of the exchange: what rests is cancelled.
LEMMA BooksLate == ASSUME BooksCalm, Books, Typed', LateInTheDay PROVE BooksInv'
<1>1. UNCHANGED <<held, pending, journaled, deployed, others, pc, mode, snap, at, ord>>
  BY DEF LateInTheDay, memoryVars, localVars
<1>2. ASSUME NEW i \in Ids
      PROVE  /\ order'[i].contract = order[i].contract /\ order'[i].side = order[i].side
             /\ order'[i].lots = order[i].lots /\ order'[i].entry = order[i].entry
             /\ order'[i].status = order[i].status
             /\ \/ order'[i].fate = order[i].fate
                \/ order[i].fate = "resting" /\ order'[i].fate = "killed"
  BY DEF LateInTheDay, Books, Typed, TypeOK, BrokerOK, Rows
<1>3. Plainly'
  BY <1>1 DEF Books, BooksInv, Plainly
<1>4. ASSUME NEW i \in Ids PROVE RowPlain(i)'
  <2>1. RowPlain(i) /\ RowOK(order[i])
    BY DEF Books, BooksInv, RowInv, RowsOK
  <2> QED BY <1>1, <1>2, <2>1 DEF RowPlain, RowOK
<1>5. ASSUME NEW c \in Contracts PROVE ContractOK(c)' /\ (Charged(c)' => Charged(c))
  <2>1. \A i \in Ids : Waits(i, c)' <=> Waits(i, c)
    BY <1>2 DEF Waits
  <2>2. /\ Buying(c)' <=> Buying(c)
        /\ Selling(c)' <=> Selling(c)
        /\ Releasing(c)' <=> Releasing(c)
        /\ Journaling(c)' <=> Journaling(c)
    BY <1>1 DEF Buying, Selling, Releasing, Journaling
  <2>3. ASSUME Buying(c) \/ Selling(c)
        PROVE  /\ Sent'.side = Sent.side /\ Sent'.lots = Sent.lots
               /\ Sent'.fate = "filled" <=> Sent.fate = "filled"
               /\ Sent'.fate = "flying" <=> Sent.fate = "flying"
    <3>1. ord[Cycle] \in Ids
      BY <2>3, ClosersAre DEF Buying, Selling, Books, Typed, LabelsOK
    <3> QED BY <1>1, <1>2, <3>1 DEF Sent
  <2>4. ContractOK(c)
    BY DEF Books, BooksInv
  <2>5. Buying(c)' => held'[c] = IF Sent'.fate = "filled" THEN 1 ELSE 0
    BY <1>1, <2>2, <2>3, <2>4 DEF ContractOK
  <2>6. Selling(c)' => /\ held'[c] = IF Sent'.fate = "flying" THEN 1 ELSE 0
                       /\ Sent'.side = "SELL" /\ Sent'.lots = 1
    BY <1>1, <2>2, <2>3, <2>4 DEF ContractOK
  <2>7. ContractOK(c)'
    BY <1>1, <2>1, <2>2, <2>4, <2>5, <2>6 DEF ContractOK
  <2>8. Charged(c)' => Charged(c)
    BY <1>1, <2>1, <2>2 DEF Charged
  <2> QED BY <2>7, <2>8
<1>6. Covered'
  BY <1>1, <1>5, NothingMore, BooksParts DEF Books
<1> QED BY <1>3, <1>4, <1>5, <1>6 DEF BooksInv, Covered

\* A new day: no entry waits, and the capital is counted anew, by the journals.
LEMMA BooksNextDay == ASSUME BooksCalm, Books, Typed', NextDay PROVE BooksInv'
<1>1. /\ UNCHANGED <<held, pending, journaled, others, pc, mode, snap, at, ord>>
      /\ pc[Cycle] = "idle" /\ deployed' = Rebuilt /\ \A i \in Ids : order[i].status # "OPEN"
  BY ClosersAre DEF NextDay, localVars, Quiet
<1>2. ASSUME NEW i \in Ids PROVE order'[i] = order[i] /\ RowPlain(i)
  <2>1. RowPlain(i)
    BY DEF Books, BooksInv
  <2>2. order[i].fate # "flying"
    BY <1>1, <2>1 DEF RowPlain
  <2> QED BY <2>1, <2>2 DEF NextDay
<1>3. Plainly'
  BY <1>1 DEF Books, BooksInv, Plainly
<1>4. \A i \in Ids : RowPlain(i)'
  BY <1>1, <1>2 DEF RowPlain
<1>5. ASSUME NEW c \in Contracts
      PROVE  /\ ContractOK(c)' /\ held[c] \in {0, 1}
             /\ Charged(c)' => held[c] = 1 /\ c \in journaled
  <2>1. \A i \in Ids : ~Waits(i, c) /\ ~Waits(i, c)'
    BY <1>1, <1>2 DEF Waits
  <2>2. /\ ~Buying(c) /\ ~Selling(c) /\ ~Releasing(c) /\ ~Journaling(c)
        /\ ~Buying(c)' /\ ~Selling(c)' /\ ~Releasing(c)' /\ ~Journaling(c)'
    BY <1>1 DEF Buying, Selling, Releasing, Journaling
  <2>3. ContractOK(c)
    BY DEF Books, BooksInv
  <2>4. ContractOK(c)'
    BY <1>1, <2>1, <2>2, <2>3 DEF ContractOK
  <2>5. Charged(c)' => held[c] = 1
    BY <1>1, <2>1, <2>2 DEF Charged
  <2>6. held[c] = 1 => c \in journaled
    BY <2>2, <2>3 DEF ContractOK
  <2> QED BY <2>3, <2>4, <2>5, <2>6 DEF ContractOK
<1>6. Covered'
  <2>1. ChargedLots' \subseteq LotsIn(journaled)
    <3> SUFFICES ASSUME NEW c \in Contracts, Charged(c)' PROVE <<c, 1>> \in LotsIn(journaled)
      BY DEF ChargedLots
    <3>1. c \in journaled /\ Abs(held[c]) = 1
      BY <1>5 DEF Abs
    <3>2. <<c, 1>> \in {c} \X (1 .. Abs(held[c]))
      BY <3>1
    <3> QED BY <3>1, <3>2 DEF LotsIn
  <2>2. IsFiniteSet(LotsIn(journaled)) /\ Cardinality(LotsIn(journaled)) \in Nat
    BY LotsAreFinite, MemoryParts DEF Books, Typed, TypeOK
  <2>3. Cardinality(ChargedLots') <= Cardinality(LotsIn(journaled))
    BY <2>1, <2>2, FS_Subset
  <2>4. ChargedLots' \in SUBSET (Contracts \X {1})
    BY DEF ChargedLots
  <2>5. Cardinality(ChargedLots') \in Nat
    BY <2>4, LotsCounted
  <2> QED BY <1>1, <2>2, <2>3, <2>5 DEF Covered, Rebuilt
<1> QED BY <1>3, <1>4, <1>5, <1>6 DEF BooksInv, Covered

LEMMA BooksInit == Init => BooksInv
<1> SUFFICES ASSUME Init PROVE BooksInv
  OBVIOUS
<1>1. Plainly /\ \A i \in Ids : RowPlain(i)
  BY ClosersAre DEF Init, Plainly, RowPlain, Blank
<1>2. ASSUME NEW c \in Contracts PROVE ContractOK(c) /\ ~Charged(c)
  BY <1>2, ClosersAre DEF Init, ContractOK, Charged, Waits, Buying, Selling, Releasing,
     Journaling, Blank, Flat
<1>3. ChargedLots = {} /\ deployed = 0
  BY <1>2 DEF ChargedLots, Init
<1>4. Cardinality(ChargedLots) = 0
  BY <1>3, FS_EmptySet
<1> QED BY <1>1, <1>2, <1>3, <1>4 DEF BooksInv

LEMMA BooksStep == ASSUME BooksCalm, Books, Typed', [Next]_vars PROVE BooksInv'
<1>1. CASE UNCHANGED vars
  <2>1. UNCHANGED <<held, order, journaled, pending, deployed, pc, mode, snap, at, ord, others>>
    BY <1>1 DEF vars, brokerVars, memoryVars, localVars
  <2>2. Plainly' /\ \A i \in Ids : RowPlain(i)'
    BY <2>1 DEF Books, BooksInv, Plainly, RowPlain
  <2>3. ASSUME NEW c \in Contracts
        PROVE  (ContractOK(c)' <=> ContractOK(c)) /\ (Charged(c)' <=> Charged(c))
    BY <2>1 DEF ContractOK, Charged, Waits, Buying, Selling, Releasing, Journaling, Sent
  <2>4. Covered'
    BY <2>1, <2>3, NothingMore, BooksParts DEF Books
  <2> QED BY <2>2, <2>3, <2>4 DEF Books, BooksInv, Covered
<1>2. CASE CycleStep
  <2>1. ~RestoreDone
    BY DEF RestoreDone, ScanDone, Books, BooksInv, Plainly
  <2> QED BY <1>2, <2>1, BooksReading, BooksBuy, BooksEntryTaken, BooksEntryNotTaken,
             BooksJournal, BooksExpire DEF CycleStep, Reading
<1>3. CASE EnvStep
  <2>1. ~Crash
    BY CalmIs DEF Crash, Books
  <2> QED BY <1>3, <2>1, BooksLate, BooksNextDay, BooksLand, BooksFill, BooksSync DEF EnvStep
<1>4. ASSUME NEW p \in Closers, ExitStep(p) PROVE BooksInv'
  <2>1. p = Cycle
    BY CalmIs DEF Books
  <2>2. ~Resolve(Cycle) /\ ~ExitDoubtful(Cycle)
    BY CalmIs DEF Resolve, ExitDoubtful, Books, BooksInv, Plainly
  <2> QED BY <1>4, <2>1, <2>2, BooksExit, BooksPlace, BooksExitTaken, BooksExitFailed,
             BooksRelease DEF ExitStep
<1>5. ASSUME NEW p \in Admins, NEW c \in Contracts, ManualClose(p, c) PROVE BooksInv'
  BY <1>5 DEF BooksCalm
<1> QED BY <1>1, <1>2, <1>3, <1>4, <1>5 DEF Next

\* Between two cycles every option that is held has its journal, and the capital counted as
\* deployed covers it: through entries that rest, are rejected, expire or are filled late,
\* exits that fail and are tried again, reversals, square-offs and nights, for any number of
\* contracts and orders, as long as the broker answers (BooksCalm).
THEOREM BooksAreKept == ASSUME BooksCalm PROVE Spec => []BooksCoverHeld
<1>1. Init => Books
  BY TypedInit, RowInit, SaleInit, BooksInit DEF Books
<1>2. Books /\ [Next]_vars => Books'
  <2> SUFFICES ASSUME Books, [Next]_vars PROVE Books'
    OBVIOUS
  <2>1. Typed'
    BY TypedStep DEF Books
  <2>2. RowInv' /\ SaleInv'
    BY <2>1, RowStep, SaleStep DEF Books
  <2> QED BY <2>1, <2>2, BooksStep DEF Books
<1>3. Books => BooksCoverHeld
  <2> SUFFICES ASSUME Books, Quiet PROVE
        /\ \A c \in Contracts : held[c] > 0 => c \in journaled
        /\ deployed >= Cardinality(LotsIn({c \in journaled : held[c] > 0}))
    BY DEF BooksCoverHeld, HeldIsJournaled, DeployedCoversHeld
  <2> DEFINE L == LotsIn({c \in journaled : held[c] > 0})
  <2>1. ASSUME NEW c \in Contracts
        PROVE  /\ held[c] \in {0, 1}
               /\ held[c] = 1 => c \in journaled /\ Charged(c)
    <3>1. ~Buying(c) /\ ~Journaling(c) /\ ContractOK(c)
      BY ClosersAre DEF Quiet, Buying, Journaling, Books, BooksInv
    <3> QED BY <3>1 DEF ContractOK, Charged
  <2>2. L \subseteq ChargedLots
    <3> SUFFICES ASSUME NEW c \in journaled, held[c] > 0, NEW n \in 1 .. Abs(held[c])
                 PROVE  <<c, n>> \in ChargedLots
      BY DEF LotsIn
    <3>1. c \in Contracts
      BY MemoryParts DEF Books, Typed, TypeOK
    <3>2. held[c] = 1 /\ Charged(c) /\ n = 1
      BY <2>1, <3>1 DEF Abs
    <3> QED BY <3>1, <3>2 DEF ChargedLots
  <2>3. L \in SUBSET (Contracts \X {1})
    BY <2>2, ChargedAre
  <2>4. Cardinality(L) <= Cardinality(ChargedLots)
    BY <2>2, <2>3, ChargedAre, LotsCounted
  <2>5. Cardinality(L) \in Nat /\ Cardinality(ChargedLots) \in Nat /\ deployed \in Nat
    BY <2>3, ChargedAre, LotsCounted, MemoryParts DEF Books, Typed, TypeOK
  <2>6. deployed >= Cardinality(L)
    BY <2>4, <2>5 DEF Books, BooksInv
  <2>7. \A c \in Contracts : held[c] > 0 => c \in journaled
    BY <2>1
  <2> QED BY <2>6, <2>7
<1> QED BY <1>1, <1>2, <1>3, PTL DEF Spec
=============================================================================
