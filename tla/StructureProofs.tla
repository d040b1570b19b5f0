--------------------------- MODULE StructureProofs ----------------------------
(***************************************************************************)
(* Proofs about credit spreads and iron condors, for any scenes, orders    *)
(* and lots.  Some results are of scenes in which certain faults do not    *)
(* meet; each theorem says which.                                          *)
(***************************************************************************)
EXTENDS StructureLifecycle, FiniteSetTheorems, TLAPS

-----------------------------------------------------------------------------
(* Where a coroutine is.                                                   *)

\* Labels before or between the walks, where nothing of a walk is left.
Between == {"idle", "verify", "check", "entries", "restore", "rebuild", "restored"}

AtLeg == {"resolve", "place", "sent"}
OnWalk == {"scan"} \cup AtLeg \cup {"booked", "track", "drop"}

\* The parts of an exit, which the lock protects.
Inside(p) == run[p].mode = "exit" /\ run[p].pc \in {"check", "scan", "drop"} \cup AtLeg

Fresh(r) == r.mode = "exit" /\ r.todo = {} /\ r.ok = {} /\ r.id = NoOrder /\ ~r.due

LocalsTell(r, p) ==
    /\ r.pc \in Between => Fresh(r)
    /\ r.todo \subseteq Legs /\ r.ok \subseteq Legs /\ r.todo \cap r.ok = {}
    /\ r.pc \in AtLeg => r.at \in r.todo
    /\ r.pc = "resolve" => r.id \in Ids /\ r.mode \in {"exit", "squareoff"}
    /\ r.mode # "exit" => p = Cycle /\ r.pc \in OnWalk
    /\ r.pc \in {"booked", "track", "drop"} => r.todo = {}
    /\ r.pc \in {"booked", "track"} => r.mode = "entry"
    /\ r.mode = "entry" => r.pc \notin {"resolve", "place", "drop"}
    /\ r.pc = "drop" => r.mode \in {"exit", "squareoff"}
    /\ r.pc = "drop" /\ r.mode = "squareoff" => r.due
    /\ r.pc = "track" => r.ok \subseteq Shorts
    /\ p = Fast => r.pc \in {"idle", "check", "scan", "drop"} \cup AtLeg

LabelsOK ==
    /\ \A p \in Procs : LocalsTell(run[p], p)
    /\ \A p \in Procs : lock = p <=> Inside(p)

Typed == TypeOK /\ LabelsOK

-----------------------------------------------------------------------------
(* The accounts of capital.                                                *)

\* The ten-second job does not meet the structure's last day, on which the square-off,
\* which does not take the lock, closes it too.
FastIsApart(s) == "fast" \in s.may => s.nights < 2

Booked == run[Cycle].pc \in {"booked", "track"}
Dropping == At(Cycle, "drop") \/ At(Fast, "drop")

\* The exit of the cycle has found a structure.
Closing == In(Cycle, "exit") /\ run[Cycle].pc \in {"scan", "drop"} \cup AtLeg

DaysPass ==
    /\ dte = "near" => nights >= 1
    /\ dte = "last" => nights >= 2
    /\ run[Cycle].due => dte = "last"

CountInv ==
    /\ DaysPass
    /\ FastIsApart(scene)
    /\ ~At(Fast, "idle") => "fast" \in scene.may /\ struct.tracked
    /\ Restoring => At(Fast, "idle")
    /\ run[Cycle].mode \in {"entry", "unwind"} => ~struct.tracked
    /\ Closing \/ At(Cycle, "drop") => struct.tracked
    /\ ~Restoring =>
         deployed = Elsewhere
                    + (IF (struct.tracked /\ ~Dropping) \/ Booked THEN 1 ELSE 0)

-----------------------------------------------------------------------------
(* The stop orders.                                                        *)

\* Without a restart.  The job may be left without a structure by the square-off, which
\* does not wait for the lock; then no entry begins before the job has come to an end.
StopInv == restarts = 0 =>
    /\ ~Restoring
    /\ run[Cycle].mode = "squareoff" => clock # "open"
    /\ ~At(Fast, "idle") /\ ~struct.tracked =>
         clock # "open" /\ (At(Cycle, "idle") \/ In(Cycle, "squareoff"))
    /\ run[Cycle].mode = "entry" => ~struct.tracked
    /\ struct.tracked => gtt \subseteq struct.stops \ struct.done
    /\ ~struct.tracked => gtt \subseteq (IF At(Cycle, "track") THEN run[Cycle].ok ELSE {})
    /\ Dropping => gtt = {}

-----------------------------------------------------------------------------
(* The pieces of a step.                                                   *)

LEMMA ProcsAre == Cycle \in Procs /\ Fast \in Procs /\ Cycle # Fast /\ NoOne \notin Procs
BY StructureConstants DEF Procs

LEMMA LegsAre ==
    /\ Legs \subseteq AllLegs /\ Shorts \subseteq Legs
    /\ \A l \in AllLegs : Opening(l) \in {1, -1}
    /\ NoLeg \notin AllLegs
BY DEF Legs, SpreadLegs, CondorLegs, AllLegs, Shorts, Opening, NoLeg

LEMMA SceneIs ==
    ASSUME WorldOK PROVE scene.restarts \in Nat /\ scene.nights \in Nat /\ scene.kind \in Kinds
BY StructureConstants DEF WorldOK, IsScene

LEMMA MemoryParts ==
    MemoryOK <=> /\ struct \in [tracked : BOOLEAN, done : SUBSET AllLegs, pend : Pendings,
                                stops : SUBSET AllLegs]
                 /\ pending \in Pendings /\ exited \in BOOLEAN /\ count \in Nat
                 /\ saved \in Memory /\ deployed \in Nat
BY DEF MemoryOK, Memory

LEMMA KeepBroker == ASSUME BrokerOK, UNCHANGED <<brokerVars, scene>> PROVE BrokerOK'
BY DEF BrokerOK, brokerVars, Shorts, Legs

LEMMA KeepMemory == ASSUME MemoryOK, UNCHANGED engineVars PROVE MemoryOK'
BY DEF MemoryOK, engineVars, memoryVars

LEMMA KeepWorld == ASSUME WorldOK, UNCHANGED <<worldVars, alerted>> PROVE WorldOK'
BY DEF WorldOK, worldVars

\* One coroutine goes on, with these local variables.
LEMMA RunGoes ==
    ASSUME Typed, NEW p \in Procs, NEW r \in Locals, Become(p, r), LocalsTell(r, p),
           scene' = scene,
           lock' = IF r.mode = "exit" /\ r.pc \in {"check", "scan", "drop"} \cup AtLeg
                   THEN p ELSE IF lock = p THEN NoOne ELSE lock,
           lock' = p => lock \in {p, NoOne}
    PROVE  RunOK' /\ LabelsOK'
<1>1. /\ run' \in [Procs -> Locals] /\ run'[p] = r
      /\ \A q \in Procs \ {p} : run'[q] = run[q]
  BY DEF Become, Typed, TypeOK, RunOK
<1>2. \A q \in Procs : LocalsTell(run'[q], q)
  BY <1>1 DEF Typed, LabelsOK
<1>3. \A q \in Procs : LocalsTell(run[q], q)'
  BY <1>2 DEF LocalsTell, Legs, Shorts
<1>4. \A q \in Procs : lock' = q <=> Inside(q)'
  <2>1. Inside(p)' <=> lock' = p
    BY <1>1, ProcsAre DEF Inside
  <2>2. \A q \in Procs \ {p} : Inside(q)' <=> lock = q
    BY <1>1 DEF Inside, Typed, LabelsOK
  <2>3. \A q \in Procs \ {p} : lock = q <=> lock' = q
    BY ProcsAre
  <2> QED BY <2>1, <2>2, <2>3
<1>5. lock' \in Procs \cup {NoOne}
  BY DEF Typed, TypeOK, RunOK
<1> QED BY <1>1, <1>5, <1>3, <1>4 DEF RunOK, LabelsOK, Typed, TypeOK

\* The same, where the lock is not touched.
LEMMA RunStays ==
    ASSUME Typed, NEW p \in Procs, NEW r \in Locals, Become(p, r), LocalsTell(r, p),
           UNCHANGED <<scene, lock>>,
           (r.mode = "exit" /\ r.pc \in {"check", "scan", "drop"} \cup AtLeg) <=> Inside(p)
    PROVE  RunOK' /\ LabelsOK'
<1>1. lock = p <=> Inside(p)
  BY DEF Typed, LabelsOK
<1> QED BY <1>1, RunGoes

LEMMA OnwardTyped ==
    ASSUME Typed, NEW p \in Procs, NEW l \in run[p].todo, NEW closed \in BOOLEAN,
           run[p].pc \in {"scan"} \cup AtLeg,
           Onward(p, l, closed), UNCHANGED <<scene, lock>>
    PROVE  RunOK' /\ LabelsOK'
<1> DEFINE r == [run[p] EXCEPT !.pc = "scan", !.todo = @ \ {l}, !.at = NoLeg,
                               !.id = NoOrder, !.qty[l] = 0,
                               !.ok = IF closed THEN @ \cup {l} ELSE @]
<1>1. run[p] \in Locals /\ LocalsTell(run[p], p)
  BY DEF Typed, TypeOK, RunOK, LabelsOK
<1>2. l \in AllLegs
  BY <1>1, LegsAre DEF LocalsTell
<1>3. /\ r \in Locals
      /\ r.pc = "scan" /\ r.todo = run[p].todo \ {l} /\ r.mode = run[p].mode
      /\ r.ok = IF closed THEN run[p].ok \cup {l} ELSE run[p].ok
  <2>1. [run[p].qty EXCEPT ![l] = 0] \in [AllLegs -> Int]
    BY <1>1 DEF Locals
  <2>2. (IF closed THEN run[p].ok \cup {l} ELSE run[p].ok) \in SUBSET AllLegs
    BY <1>1, <1>2 DEF Locals
  <2> QED BY <1>1, <2>1, <2>2 DEF Locals, Labels
<1>4. Become(p, r)
  BY DEF Onward
<1> HIDE DEF r
<1>5. LocalsTell(r, p)
  BY <1>1, <1>3 DEF LocalsTell, Between, AtLeg, OnWalk
<1> QED BY <1>1, <1>3, <1>4, <1>5, RunStays DEF Inside, AtLeg

LEMMA IdleIs == Idle \in Locals /\ Idle.pc = "idle" /\ Fresh(Idle)
<1>1. Flat \in [AllLegs -> Int]
  BY DEF Flat
<1> QED BY <1>1 DEF Idle, Locals, Labels, Modes, Fresh

\* A coroutine whose walk is over, or has not begun.
LEMMA FreshTells ==
    ASSUME NEW p \in Procs, NEW r, r.pc \in Between, Fresh(r),
           p = Fast => r.pc \in {"idle", "check"}
    PROVE  LocalsTell(r, p)
<1>1. r.pc \notin AtLeg /\ r.pc \notin {"resolve", "booked", "track", "drop"}
  BY DEF Between, AtLeg
<1> QED BY <1>1 DEF LocalsTell, Fresh

LEMMA BetweenTyped ==
    ASSUME NEW label \in Between
    PROVE  /\ [Idle EXCEPT !.pc = label] \in Locals
           /\ Fresh([Idle EXCEPT !.pc = label])
           /\ [Idle EXCEPT !.pc = label].pc = label
<1>1. label \in Labels
  BY DEF Between, Labels
<1> QED BY <1>1, IdleIs DEF Locals, Fresh

\* The same, where the lock is held only during an exit.
LEMMA FreshGoes ==
    ASSUME Typed, NEW p \in Procs, NEW r \in Locals, Become(p, r), Fresh(r),
           r.pc \in Between \ {"check"}, p = Fast => r.pc = "idle",
           scene' = scene, lock' = IF lock = p THEN NoOne ELSE lock
    PROVE  RunOK' /\ LabelsOK'
<1>1. r.pc \notin {"check", "scan", "drop"} \cup AtLeg
  BY DEF Between, AtLeg
<1>2. LocalsTell(r, p)
  BY FreshTells
<1> QED BY <1>1, <1>2, RunGoes

LEMMA LeaveTyped ==
    ASSUME Typed, NEW p \in Procs, Leave(p), UNCHANGED scene
    PROVE  RunOK' /\ LabelsOK'
<1> DEFINE label == IF p = Cycle /\ In(p, "exit") THEN "entries" ELSE "idle"
           r == [Idle EXCEPT !.pc = label]
<1>1. label \in Between \ {"check"} /\ (p = Fast => label = "idle")
  BY ProcsAre DEF Between
<1>2. Become(p, r) /\ lock' = IF lock = p THEN NoOne ELSE lock
  BY DEF Leave
<1> HIDE DEF label
<1>3. r \in Locals /\ Fresh(r) /\ r.pc = label
  BY <1>1, BetweenTyped
<1> HIDE DEF r
<1> QED BY <1>1, <1>2, <1>3, FreshGoes

LEMMA IdleTyped ==
    ASSUME Typed, NEW label \in Between \ {"check"}, Become(Cycle, [Idle EXCEPT !.pc = label]),
           ~Inside(Cycle), UNCHANGED <<scene, lock>>
    PROVE  RunOK' /\ LabelsOK'
<1> DEFINE r == [Idle EXCEPT !.pc = label]
<1>1. r \in Locals /\ Fresh(r) /\ r.pc = label
  BY BetweenTyped
<1>2. lock' = IF lock = Cycle THEN NoOne ELSE lock
  BY ProcsAre DEF Typed, LabelsOK
<1>3. Become(Cycle, r)
  OBVIOUS
<1> HIDE DEF r
<1> QED BY <1>1, <1>2, <1>3, ProcsAre, FreshGoes

LEMMA EndTyped ==
    ASSUME Typed, Become(Cycle, Idle), ~Inside(Cycle), UNCHANGED <<scene, lock>>
    PROVE  RunOK' /\ LabelsOK'
<1>1. lock' = IF lock = Cycle THEN NoOne ELSE lock
  BY ProcsAre DEF Typed, LabelsOK
<1> QED BY <1>1, IdleIs, ProcsAre, FreshGoes DEF Between

\* Between the walks only the label changes.
LEMMA GotoTyped ==
    ASSUME Typed, NEW p \in Procs, NEW label \in Between, run[p].pc \in Between,
           Goto(p, label), p = Fast => label \in {"idle", "check"}, scene' = scene,
           lock' = IF label = "check" THEN p ELSE IF lock = p THEN NoOne ELSE lock,
           lock' = p => lock \in {p, NoOne}
    PROVE  RunOK' /\ LabelsOK'
<1> DEFINE r == [run[p] EXCEPT !.pc = label]
<1>1. run[p] \in Locals /\ Fresh(run[p])
  BY DEF Typed, TypeOK, RunOK, LabelsOK, LocalsTell
<1>2. label \in Labels
  BY DEF Between, Labels
<1>3. r \in Locals /\ r.pc = label /\ Fresh(r)
  BY <1>1, <1>2 DEF Locals, Fresh
<1>4. Become(p, r)
  BY DEF Become, Goto
<1> HIDE DEF r
<1>5. LocalsTell(r, p)
  BY <1>3, FreshTells
<1>6. r.mode = "exit" /\ r.pc \in {"check", "scan", "drop"} \cup AtLeg <=> label = "check"
  BY <1>3 DEF Between, AtLeg, Fresh
<1> QED BY <1>3, <1>4, <1>5, <1>6, RunGoes

LEMMA WalkTyped ==
    ASSUME Typed, NEW p \in Procs, NEW m \in Modes, NEW legs \in SUBSET Legs,
           NEW known \in BOOLEAN, NEW qty \in [AllLegs -> Int],
           Walk(p, m, legs, [known |-> known, qty |-> qty]),
           m # "exit" => p = Cycle, m = "exit" <=> Inside(p), UNCHANGED <<scene, lock>>
    PROVE  RunOK' /\ LabelsOK'
<1> DEFINE r == [Idle EXCEPT !.pc = "scan", !.mode = m, !.todo = legs,
                             !.known = known, !.qty = qty]
<1>1. /\ r \in Locals /\ r.pc = "scan" /\ r.mode = m /\ r.todo = legs /\ r.ok = {}
  BY LegsAre, IdleIs DEF Locals, Labels, Fresh
<1>2. Become(p, r)
  BY DEF Walk
<1> HIDE DEF r
<1>3. LocalsTell(r, p)
  BY <1>1 DEF LocalsTell, Between, AtLeg, OnWalk
<1> QED BY <1>1, <1>2, <1>3, RunStays DEF Inside

-----------------------------------------------------------------------------
(* Types.                                                                  *)

Structs == [tracked : BOOLEAN, done : SUBSET AllLegs, pend : Pendings,
            stops : SUBSET AllLegs]
Rows == [leg : AllLegs, lots : Int, status : Statuses, fate : Fates]

LEMMA IdsAre == NoOrder \notin Ids /\ Ids \subseteq Nat
BY StructureConstants DEF NoOrder, Ids

LEMMA BlanksAre == Blank \in Rows /\ Flat \in [AllLegs -> Int]
    /\ NoPending \in Pendings /\ NoStruct \in Structs /\ ~NoStruct.tracked
<1>1. Blank \in Rows
  BY DEF Blank, Rows, AllLegs, Statuses, Fates
<1>2. Flat \in [AllLegs -> Int] /\ NoPending \in Pendings
  BY DEF Flat, NoPending, Pendings
<1> QED BY <1>1, <1>2 DEF NoStruct, Structs

LEMMA LocalsAre ==
    ASSUME Typed, NEW p \in Procs
    PROVE  run[p] \in Locals /\ LocalsTell(run[p], p)
BY DEF Typed, TypeOK, RunOK, LabelsOK

LEMMA PositionsAre ==
    ASSUME BrokerOK, NEW positions \in Positions
    PROVE  /\ positions.known \in BOOLEAN /\ positions.qty \in [AllLegs -> Int]
           /\ positions = [known |-> positions.known, qty |-> positions.qty]
<1>1. positions = [known |-> TRUE, qty |-> held] \/ positions = [known |-> FALSE, qty |-> Flat]
  BY DEF Positions
<1>2. CASE positions = [known |-> TRUE, qty |-> held]
  BY <1>2 DEF BrokerOK
<1>3. CASE positions = [known |-> FALSE, qty |-> Flat]
  BY <1>3, BlanksAre
<1> QED BY <1>1, <1>2, <1>3

LEMMA WithOrderTyped ==
    ASSUME BrokerOK, NEW row \in Rows PROVE WithOrder(row) \in [Ids -> Rows]
BY BlanksAre DEF WithOrder, BrokerOK, Rows

LEMMA SlotIs == ASSUME CanRecord PROVE Slot \in Ids /\ Settled(Slot)
BY DEF CanRecord, Slot

LEMMA LotsTyped ==
    ASSUME Typed, NEW p \in Procs, run[p].pc \in AtLeg
    PROVE  run[p].at \in AllLegs /\ Lots(p) \in Int
<1>1. run[p].at \in AllLegs
  BY LocalsAre, LegsAre DEF LocalsTell
<1>2. run[p].qty[run[p].at] \in Int
  BY <1>1, LocalsAre DEF Locals
<1>3. Opening(run[p].at) \in Int
  BY <1>1, LegsAre
<1> QED BY <1>1, <1>2, <1>3 DEF Lots

LEMMA PersistTyped ==
    ASSUME MemoryOK, Persist, struct' \in Structs, pending' \in Pendings,
           exited' \in BOOLEAN, count' \in Nat, deployed' \in Nat
    PROVE  MemoryOK'
<1>1. saved' \in Memory
  BY DEF Persist, MemoryOK, Memory, Structs
<1> QED BY <1>1 DEF MemoryOK, Memory, Structs

LEMMA MemoryIs ==
    ASSUME MemoryOK
    PROVE  /\ struct \in Structs /\ pending \in Pendings /\ exited \in BOOLEAN
           /\ count \in Nat /\ saved \in Memory /\ deployed \in Nat
BY DEF MemoryOK, Memory, Structs

LEMMA MemoryGoes ==
    ASSUME struct' \in Structs, pending' \in Pendings, exited' \in BOOLEAN,
           count' \in Nat, saved' \in Memory, deployed' \in Nat
    PROVE  MemoryOK'
BY DEF MemoryOK, Memory, Structs

LEMMA ReleasedTyped == ASSUME deployed \in Nat PROVE Released \in Nat
BY DEF Released

LEMMA BrokerGoes ==
    ASSUME scene' = scene, held' \in [AllLegs -> Int], order' \in [Ids -> Rows], gtt' \subseteq Shorts
    PROVE  BrokerOK'
BY DEF BrokerOK, Rows, Shorts, Legs

LEMMA BrokerIs ==
    ASSUME BrokerOK
    PROVE  held \in [AllLegs -> Int] /\ order \in [Ids -> Rows] /\ gtt \subseteq Shorts
BY DEF BrokerOK, Rows

LEMMA KeepRun ==
    ASSUME Typed, UNCHANGED <<run, lock, scene>> PROVE RunOK' /\ LabelsOK'
<1>1. RunOK'
  BY DEF Typed, TypeOK, RunOK
<1>2. ASSUME NEW p \in Procs PROVE LocalsTell(run[p], p)'
  BY LocalsAre DEF LocalsTell, Legs, Shorts
<1>3. \A p \in Procs : lock' = p <=> Inside(p)'
  BY DEF Typed, LabelsOK, Inside
<1> QED BY <1>1, <1>2, <1>3 DEF LabelsOK

\* What the request at leg l does at the broker.
LEMMA RowTyped ==
    ASSUME Typed, NEW p \in Procs, run[p].pc \in AtLeg, DoubtfulRow(p), scene' = scene, gtt' = gtt
    PROVE  BrokerOK'
<1>1. BrokerOK /\ run[p].at \in AllLegs /\ Lots(p) \in Int
  BY LotsTyped DEF Typed, TypeOK
<1>2. PICK fate \in {"filled", "flying", "lost"} :
        /\ order' = WithOrder([leg |-> run[p].at, lots |-> Lots(p),
                               status |-> "PENDING_VERIFICATION", fate |-> fate])
        /\ held' = IF fate = "filled" THEN [held EXCEPT ![run[p].at] = @ + Lots(p)]
                   ELSE held
  BY DEF DoubtfulRow
<1>3. [leg |-> run[p].at, lots |-> Lots(p), status |-> "PENDING_VERIFICATION", fate |-> fate] \in Rows
  BY <1>1 DEF Rows, Statuses, Fates
<1>4. order' \in [Ids -> Rows]
  BY <1>1, <1>2, <1>3, WithOrderTyped
<1>5. held' \in [AllLegs -> Int]
  BY <1>1, <1>2, BrokerIs
<1> QED BY <1>1, <1>4, <1>5, BrokerIs, BrokerGoes

\* The steps at one leg.
LEMMA LegStepTyped ==
    ASSUME Typed, NEW p \in Procs, LegStep(p) PROVE Typed'
<1> USE DEF Typed
<1> SUFFICES TypeOK' /\ LabelsOK'
  OBVIOUS
<1>0. BrokerOK /\ MemoryOK /\ RunOK /\ WorldOK /\ LabelsOK
  BY DEF TypeOK
<1>1. ASSUME NEW l \in Legs, LegIsClosed(p, l) PROVE TypeOK' /\ LabelsOK'
  <2>1. l \in run[p].todo /\ run[p].pc = "scan" /\ Onward(p, l, TRUE)
    BY <1>1 DEF LegIsClosed, IsNext, At
  <2>2. UNCHANGED <<brokerVars, engineVars, lock, worldVars, alerted, scene>>
    BY <1>1 DEF LegIsClosed, worldVars
  <2>3. RunOK' /\ LabelsOK'
    BY <2>1, <2>2, OnwardTyped
  <2> QED BY <1>0, <2>2, <2>3, KeepBroker, KeepMemory, KeepWorld DEF TypeOK
<1>2. ASSUME NEW l \in Legs, CloseLeg(p, l) PROVE TypeOK' /\ LabelsOK'
  <2> DEFINE r == [run[p] EXCEPT !.at = l, !.id = InDoubt(p, l),
                                 !.pc = IF InDoubt(p, l) = NoOrder THEN "place" ELSE "resolve"]
  <2>1. run[p].pc = "scan" /\ l \in run[p].todo /\ run[p].mode # "entry" /\ Become(p, r)
    BY <1>2 DEF CloseLeg, IsNext, At, In
  <2>2. UNCHANGED <<brokerVars, engineVars, lock, worldVars, alerted, scene>>
    BY <1>2 DEF CloseLeg, worldVars
  <2>3. InDoubt(p, l) \in Ids \cup {NoOrder}
    BY <1>0, MemoryIs, LegsAre DEF InDoubt, Structs, Pendings
  <2>4. InDoubt(p, l) # NoOrder => run[p].mode \in {"exit", "squareoff"}
    BY DEF InDoubt, In
  <2>5. run[p] \in Locals /\ LocalsTell(run[p], p) /\ l \in AllLegs
    BY LocalsAre, LegsAre
  <2>6. /\ r \in Locals /\ r.pc \in {"place", "resolve"} /\ r.mode = run[p].mode
        /\ r.todo = run[p].todo /\ r.ok = run[p].ok /\ r.at = l /\ r.id = InDoubt(p, l)
        /\ r.pc = "resolve" => InDoubt(p, l) # NoOrder
    BY <2>3, <2>5 DEF Locals, Labels
  <2> HIDE DEF r
  <2>7. LocalsTell(r, p)
    BY <2>1, <2>3, <2>4, <2>5, <2>6 DEF LocalsTell, Between, AtLeg, OnWalk
  <2>8. RunOK' /\ LabelsOK'
    BY <2>1, <2>2, <2>6, <2>7, RunStays DEF Inside, AtLeg
  <2> QED BY <1>0, <2>2, <2>8, KeepBroker, KeepMemory, KeepWorld DEF TypeOK
<1>3. ASSUME Resolve(p) PROVE TypeOK' /\ LabelsOK'
  <2> DEFINE l == run[p].at
             r == [run[p] EXCEPT !.pc = "place", !.id = NoOrder]
  <2>1. run[p] \in Locals /\ LocalsTell(run[p], p) /\ run[p].pc = "resolve" /\ "resolve" \in AtLeg
    BY <1>3, LocalsAre DEF Resolve, At, AtLeg
  <2>2. l \in run[p].todo /\ l \in AllLegs /\ run[p].mode \in {"exit", "squareoff"}
    BY <2>1, LegsAre DEF LocalsTell
  <2>3. UNCHANGED <<brokerVars, deployed, lock, worldVars, alerted, scene>>
    BY <1>3 DEF Resolve, worldVars
  <2>4. Forget(p, l) \/ UNCHANGED <<memoryVars, saved>>
    BY <1>3 DEF Resolve
  <2>5. MemoryOK'
    <3>1. CASE UNCHANGED <<memoryVars, saved>>
      BY <1>0, <2>3, <3>1, KeepMemory DEF engineVars
    <3>2. CASE Forget(p, l) /\ In(p, "exit")
      <4>1. struct' = [struct EXCEPT !.pend[l] = NoOrder] /\ UNCHANGED <<pending, exited, count, saved>>
        BY <3>2 DEF Forget
      <4>2. struct' \in Structs
        BY <1>0, <2>2, <4>1, MemoryIs DEF Structs, Pendings
      <4> QED BY <1>0, <2>3, <4>1, <4>2, MemoryIs, MemoryGoes
    <3>3. CASE Forget(p, l) /\ ~In(p, "exit")
      <4>1. pending' = [pending EXCEPT ![l] = NoOrder] /\ UNCHANGED <<struct, exited, count>> /\ Persist
        BY <3>3 DEF Forget
      <4>2. pending' \in Pendings
        BY <1>0, <2>2, <4>1, MemoryIs DEF Pendings
      <4> QED BY <1>0, <2>3, <4>1, <4>2, MemoryIs, PersistTyped
    <3> QED BY <2>4, <3>1, <3>2, <3>3
  <2>6. RunOK' /\ LabelsOK'
    <3>1. Onward(p, l, TRUE) \/ Onward(p, l, FALSE) \/ Become(p, r)
      BY <1>3 DEF Resolve
    <3>2. CASE Onward(p, l, TRUE) \/ Onward(p, l, FALSE)
      BY <2>1, <2>2, <2>3, <3>2, OnwardTyped
    <3>3. CASE Become(p, r)
      <4>1. /\ r \in Locals /\ r.pc = "place" /\ r.mode = run[p].mode /\ r.at = l
            /\ r.todo = run[p].todo /\ r.ok = run[p].ok
        BY <2>1 DEF Locals, Labels
      <4> HIDE DEF r
      <4>2. LocalsTell(r, p)
        BY <2>1, <2>2, <4>1 DEF LocalsTell, Between, AtLeg, OnWalk
      <4> QED BY <2>1, <2>3, <3>3, <4>1, <4>2, RunStays DEF Inside, AtLeg
    <3> QED BY <3>1, <3>2, <3>3
  <2> QED BY <1>0, <2>3, <2>5, <2>6, KeepBroker, KeepWorld DEF TypeOK
<1>4. ASSUME Place(p) PROVE TypeOK' /\ LabelsOK'
  <2> DEFINE r == [run[p] EXCEPT !.pc = "sent"]
  <2>1. run[p] \in Locals /\ LocalsTell(run[p], p) /\ run[p].pc = "place" /\ Become(p, r)
    BY <1>4, LocalsAre DEF Place, At, Goto, Become
  <2>2. UNCHANGED <<brokerVars, engineVars, lock, worldVars, alerted, scene>>
    BY <1>4 DEF Place, worldVars
  <2>3. /\ r \in Locals /\ r.pc = "sent" /\ r.mode = run[p].mode /\ r.at = run[p].at
        /\ r.todo = run[p].todo /\ r.ok = run[p].ok
    BY <2>1 DEF Locals, Labels
  <2> HIDE DEF r
  <2>4. LocalsTell(r, p)
    BY <2>1, <2>3 DEF LocalsTell, Between, AtLeg, OnWalk
  <2>5. RunOK' /\ LabelsOK'
    BY <2>1, <2>2, <2>3, <2>4, RunStays DEF Inside, AtLeg
  <2> QED BY <1>0, <2>2, <2>5, KeepBroker, KeepMemory, KeepWorld DEF TypeOK
<1>5. ASSUME Sent(p) PROVE /\ run[p].pc = "sent" /\ run[p].pc \in AtLeg /\ run[p].mode # "entry"
                           /\ run[p].at \in run[p].todo /\ run[p].at \in AllLegs
  BY <1>5, LocalsAre, LegsAre DEF Sent, At, In, AtLeg, LocalsTell
<1>6. ASSUME CloseTaken(p) PROVE TypeOK' /\ LabelsOK'
  <2>1. Sent(p) /\ Onward(p, run[p].at, TRUE) /\ held' = [held EXCEPT ![run[p].at] = @ + Lots(p)]
    BY <1>6 DEF CloseTaken
  <2>2. UNCHANGED <<order, gtt, engineVars, lock, worldVars, alerted, scene>>
    BY <1>6 DEF CloseTaken, worldVars
  <2>3. RunOK' /\ LabelsOK'
    BY <1>5, <2>1, <2>2, OnwardTyped
  <2>4. held' \in [AllLegs -> Int]
    BY <1>0, <1>5, <2>1, LotsTyped, BrokerIs
  <2>5. BrokerOK'
    BY <1>0, <2>2, <2>4, BrokerIs, BrokerGoes
  <2> QED BY <1>0, <2>2, <2>3, <2>5, KeepMemory, KeepWorld DEF TypeOK
<1>7. ASSUME CloseFailed(p) PROVE TypeOK' /\ LabelsOK'
  <2>1. Sent(p) /\ Onward(p, run[p].at, FALSE) /\ alerted' = (alerted \/ In(p, "unwind"))
    BY <1>7 DEF CloseFailed
  <2>2. UNCHANGED <<brokerVars, engineVars, lock, worldVars, scene>>
    BY <1>7 DEF CloseFailed, worldVars
  <2>3. RunOK' /\ LabelsOK'
    BY <1>5, <2>1, <2>2, OnwardTyped
  <2>4. WorldOK'
    BY <1>0, <2>1, <2>2 DEF WorldOK, worldVars
  <2> QED BY <1>0, <2>2, <2>3, <2>4, KeepBroker, KeepMemory DEF TypeOK
<1>8. ASSUME CloseDoubtful(p) PROVE TypeOK' /\ LabelsOK'
  <2> DEFINE l == run[p].at
  <2>1. Sent(p) /\ CanRecord /\ DoubtfulRow(p)
    BY <1>8 DEF CloseDoubtful
  <2>2. Onward(p, l, In(p, "unwind") /\ scene.kind = "spread")
    BY <1>8 DEF CloseDoubtful
  <2>3. alerted' = (alerted \/ (In(p, "unwind") /\ scene.kind = "condor"))
    BY <1>8 DEF CloseDoubtful
  <2>4. UNCHANGED <<gtt, deployed, lock, worldVars, scene>>
    BY <1>8 DEF CloseDoubtful, worldVars
  <2>5. RunOK' /\ LabelsOK'
    BY <1>5, <2>1, <2>2, <2>4, OnwardTyped
  <2>6. WorldOK'
    BY <1>0, <2>3, <2>4 DEF WorldOK, worldVars
  <2>7. BrokerOK'
    BY <1>5, <2>1, <2>4, RowTyped
  <2>8. MemoryOK'
    <3>1. Slot \in Ids /\ l \in AllLegs
      BY <1>5, <2>1, SlotIs
    <3>2. CASE In(p, "exit")
      <4>1. struct' = [struct EXCEPT !.pend[l] = Slot] /\ UNCHANGED <<pending, exited, count, saved>>
        BY <1>8, <3>2 DEF CloseDoubtful, In
      <4>2. struct' \in Structs
        BY <1>0, <3>1, <4>1, MemoryIs DEF Structs, Pendings
      <4> QED BY <1>0, <2>4, <4>1, <4>2, MemoryIs, MemoryGoes
    <3>3. CASE In(p, "squareoff")
      <4>1. pending' = [pending EXCEPT ![l] = Slot] /\ UNCHANGED <<struct, exited, count>> /\ Persist
        BY <1>8, <3>3 DEF CloseDoubtful, In
      <4>2. pending' \in Pendings
        BY <1>0, <3>1, <4>1, MemoryIs DEF Pendings
      <4> QED BY <1>0, <2>4, <4>1, <4>2, MemoryIs, PersistTyped
    <3>4. CASE ~In(p, "exit") /\ ~In(p, "squareoff")
      <4>1. UNCHANGED <<memoryVars, saved>>
        BY <1>8, <3>4 DEF CloseDoubtful
      <4> QED BY <1>0, <2>4, <4>1, KeepMemory DEF engineVars
    <3> QED BY <3>2, <3>3, <3>4
  <2> QED BY <2>5, <2>6, <2>7, <2>8 DEF TypeOK
<1> QED BY <1>1, <1>2, <1>3, <1>4, <1>6, <1>7, <1>8 DEF LegStep

\* One row of the table, one contract, is changed.
LEMMA RowGoes ==
    ASSUME BrokerOK, NEW i \in Ids, NEW row \in Rows,
           order' = [order EXCEPT ![i] = row], UNCHANGED <<held, gtt, scene>>
    PROVE  BrokerOK'
<1>1. order' \in [Ids -> Rows]
  BY BrokerIs
<1> QED BY <1>1, BrokerIs, BrokerGoes

LEMMA VerifyTyped ==
    ASSUME Typed, NEW i \in Ids, Verify(i) \/ ExpireStale(i) \/ Land(i) \/ Fill(i) PROVE Typed'
<1>0. BrokerOK /\ MemoryOK /\ WorldOK /\ order[i] \in Rows /\ order \in [Ids -> Rows]
  BY BrokerIs DEF Typed, TypeOK
<1>1. UNCHANGED <<gtt, engineVars, lock, run, worldVars, alerted, scene>>
  BY DEF Verify, ExpireStale, Land, Fill, Arrives, worldVars
<1>2. CASE Verify(i)
  <2>1. held' = held
    BY <1>2 DEF Verify
  <2>2. PICK row \in Rows : order' = [order EXCEPT ![i] = row]
    <3> DEFINE open == [order[i] EXCEPT !.status = "OPEN"]
               failed == [order[i] EXCEPT !.status = "FAILED", !.fate = "lost"]
    <3>1. open \in Rows /\ failed \in Rows
      BY <1>0 DEF Rows, Statuses, Fates
    <3>2. order' = [order EXCEPT ![i] = open] \/ order' = [order EXCEPT ![i] = failed]
      BY <1>0, <1>2 DEF Verify
    <3> QED BY <3>1, <3>2
  <2> QED BY <1>0, <1>1, <2>1, <2>2, RowGoes, KeepMemory, KeepWorld, KeepRun DEF Typed, TypeOK
<1>3. CASE ExpireStale(i)
  <2>1. held' = held /\ order' = [order EXCEPT ![i] = Blank]
    BY <1>3 DEF ExpireStale
  <2> QED BY <1>0, <1>1, <2>1, BlanksAre, RowGoes, KeepMemory, KeepWorld, KeepRun DEF Typed, TypeOK
<1>4. CASE Arrives(i)
  <2> DEFINE row == [order[i] EXCEPT !.fate = "filled"]
  <2>1. order' = [order EXCEPT ![i] = row] /\ row \in Rows
    BY <1>0, <1>4 DEF Arrives, Rows, Fates
  <2>2. order[i].leg \in AllLegs /\ order[i].lots \in Int
    BY <1>0 DEF Rows
  <2>3. held' \in [AllLegs -> Int]
    BY <1>0, <1>4, <2>2, BrokerIs DEF Arrives
  <2> HIDE DEF row
  <2>4. order' \in [Ids -> Rows]
    BY <1>0, <2>1
  <2>5. BrokerOK'
    BY <1>0, <1>1, <2>3, <2>4, BrokerIs, BrokerGoes
  <2> QED BY <1>0, <1>1, <2>5, KeepMemory, KeepWorld, KeepRun DEF Typed, TypeOK
<1> QED BY <1>2, <1>3, <1>4 DEF Land, Fill

LEMMA ExitStepTyped ==
    ASSUME Typed, NEW p \in Procs, ExitStep(p) PROVE Typed'
<1>0. BrokerOK /\ MemoryOK /\ RunOK /\ WorldOK /\ LabelsOK
  BY DEF Typed, TypeOK
<1>1. CASE NoExitReason(p)
  <2>1. Leave(p) /\ UNCHANGED <<brokerVars, engineVars, worldVars, alerted, scene>>
    BY <1>1 DEF NoExitReason, worldVars
  <2> QED BY <1>0, <2>1, LeaveTyped, KeepBroker, KeepMemory, KeepWorld DEF Typed, TypeOK
<1>2. CASE ExitReason(p)
  <2>1. UNCHANGED <<brokerVars, engineVars, lock, worldVars, alerted, scene>>
    BY <1>2 DEF ExitReason, worldVars
  <2>2. PICK positions \in Positions : Walk(p, "exit", Legs, positions)
    BY <1>2 DEF ExitReason
  <2>3. Inside(p)
    <3>1. run[p].pc = "check"
      BY <1>2 DEF ExitReason, At
    <3>2. run[p].mode = "exit"
      BY <3>1, LocalsAre DEF LocalsTell, Between, Fresh
    <3> QED BY <3>1, <3>2 DEF Inside
  <2>4. RunOK' /\ LabelsOK'
    BY <1>0, <2>1, <2>2, <2>3, PositionsAre, WalkTyped DEF Modes
  <2> QED BY <1>0, <2>1, <2>4, KeepBroker, KeepMemory, KeepWorld DEF Typed, TypeOK
<1>3. CASE Drop(p)
  <2>1. Leave(p) /\ UNCHANGED <<brokerVars, deployed, worldVars, alerted, scene>>
    BY <1>3 DEF Drop, worldVars
  <2>2. MemoryOK'
    <3>1. CASE struct.tracked
      <4>1. /\ struct' = NoStruct /\ exited' \in {exited, exited \/ In(p, "exit")}
            /\ UNCHANGED <<pending, count>> /\ Persist
        BY <1>3, <3>1 DEF Drop
      <4>2. exited' \in BOOLEAN
        BY <1>0, <4>1, MemoryIs
      <4> QED BY <1>0, <2>1, <4>1, <4>2, BlanksAre, MemoryIs, PersistTyped
    <3>2. CASE ~struct.tracked
      <4>1. UNCHANGED <<memoryVars, saved>>
        BY <1>3, <3>2 DEF Drop
      <4> QED BY <1>0, <2>1, <4>1, KeepMemory DEF engineVars
    <3> QED BY <3>1, <3>2
  <2> QED BY <1>0, <2>1, <2>2, LeaveTyped, KeepBroker, KeepWorld DEF Typed, TypeOK
<1>4. ASSUME NEW kind, ExitPartly(kind, p) PROVE Typed'
  <2> DEFINE next == [struct EXCEPT !.done = @ \cup run[p].ok, !.stops = @ \ run[p].ok]
  <2>1. Leave(p) /\ UNCHANGED <<held, order, deployed, worldVars, alerted, scene>>
    BY <1>4 DEF ExitPartly, worldVars
  <2>2. /\ struct' = next /\ UNCHANGED <<pending, exited, count>> /\ Persist
        /\ gtt' = gtt \ (run[p].ok \cap struct.stops)
    BY <1>4 DEF ExitPartly, CancelStops
  <2>3. run[p].ok \in SUBSET AllLegs /\ struct \in Structs
    BY <1>0, LocalsAre, MemoryIs DEF Locals
  <2>4. next \in Structs
    BY <2>3 DEF Structs
  <2> HIDE DEF next
  <2>5. MemoryOK'
    BY <1>0, <2>1, <2>2, <2>4, MemoryIs, PersistTyped
  <2>6. BrokerOK'
    <3>1. gtt' \subseteq Shorts
      BY <1>0, <2>2, BrokerIs
    <3> QED BY <1>0, <2>1, <3>1, BrokerIs, BrokerGoes
  <2> QED BY <1>0, <2>1, <2>5, <2>6, LeaveTyped, KeepWorld DEF Typed, TypeOK
<1>5. ASSUME NEW kind, ExitFully(kind, p) PROVE Typed'
  <2> DEFINE r == [run[p] EXCEPT !.pc = "drop"]
  <2>1. /\ run[p].pc = "scan" /\ run[p].mode = "exit" /\ run[p].todo = {} /\ Become(p, r)
        /\ run[p] \in Locals /\ LocalsTell(run[p], p)
    BY <1>5, LocalsAre DEF ExitFully, WalkDone, At, In, Goto, Become
  <2>2. deployed' = Released /\ UNCHANGED <<held, order, memoryVars, saved, lock, worldVars, alerted, scene>>
    BY <1>5 DEF ExitFully, worldVars
  <2>3. /\ r \in Locals /\ r.pc = "drop" /\ r.mode = "exit" /\ r.todo = {} /\ r.ok = run[p].ok
    BY <2>1 DEF Locals, Labels
  <2> HIDE DEF r
  <2>4. LocalsTell(r, p)
    BY <2>1, <2>3 DEF LocalsTell, Between, AtLeg, OnWalk
  <2>5. RunOK' /\ LabelsOK'
    BY <2>1, <2>2, <2>3, <2>4, RunStays DEF Inside, AtLeg
  <2>6. MemoryOK'
    BY <1>0, <2>2, ReleasedTyped, MemoryIs, MemoryGoes DEF memoryVars
  <2>7. BrokerOK'
    <3>1. gtt' \subseteq Shorts
      BY <1>0, <1>5, BrokerIs DEF ExitFully, CancelStops
    <3> QED BY <1>0, <2>2, <3>1, BrokerIs, BrokerGoes
  <2> QED BY <1>0, <2>2, <2>5, <2>6, <2>7, KeepWorld DEF Typed, TypeOK
<1> QED BY <1>1, <1>2, <1>3, <1>4, <1>5
        DEF ExitStep, SpreadExitPartly, CondorExitPartly, SpreadExitFully, CondorExitFully

LEMMA SquareOffTyped ==
    ASSUME Typed, SquareOffStep PROVE Typed'
<1>0. BrokerOK /\ MemoryOK /\ RunOK /\ WorldOK /\ LabelsOK /\ Cycle \in Procs
  BY ProcsAre DEF Typed, TypeOK
<1>1. CASE SquareOff
  <2>1. UNCHANGED <<brokerVars, engineVars, lock, worldVars, alerted, scene>>
    BY <1>1 DEF SquareOff, worldVars
  <2>2. PICK positions \in Positions :
          Become(Cycle, [Idle EXCEPT
              !.pc = "scan", !.mode = "squareoff", !.due = EndsToday,
              !.known = positions.known, !.qty = positions.qty,
              !.todo = IF struct.tracked /\ ~EndsToday THEN {}
                       ELSE {l \in Legs : positions.qty[l] # 0}])
    BY <1>1 DEF SquareOff
  <2> DEFINE legs == IF struct.tracked /\ ~EndsToday THEN {}
                     ELSE {l \in Legs : positions.qty[l] # 0}
             r == [Idle EXCEPT !.pc = "scan", !.mode = "squareoff", !.due = EndsToday,
                               !.known = positions.known, !.qty = positions.qty, !.todo = legs]
  <2>3. legs \subseteq Legs /\ Legs \subseteq AllLegs /\ EndsToday \in BOOLEAN
    BY LegsAre, <1>0, MemoryIs DEF EndsToday, Structs
  <2> HIDE DEF legs
  <2>4. positions.known \in BOOLEAN /\ positions.qty \in [AllLegs -> Int]
    BY <1>0, PositionsAre
  <2>5. /\ r \in Locals /\ r.pc = "scan" /\ r.mode = "squareoff" /\ r.todo = legs /\ r.ok = {}
    BY <2>3, <2>4, IdleIs DEF Locals, Labels, Modes, Fresh
  <2>6. Become(Cycle, r)
    BY <2>2 DEF legs
  <2> HIDE DEF r
  <2>7. LocalsTell(r, Cycle)
    BY <2>3, <2>5, ProcsAre DEF LocalsTell, Between, AtLeg, OnWalk
  <2>8. run[Cycle].pc = "idle"
    BY <1>1 DEF SquareOff, At
  <2>9. RunOK' /\ LabelsOK'
    BY <1>0, <2>1, <2>5, <2>6, <2>7, <2>8, RunStays DEF Inside, AtLeg
  <2> QED BY <1>0, <2>1, <2>9, KeepBroker, KeepMemory, KeepWorld DEF Typed, TypeOK
<1>2. ASSUME NEW kind, SquareOffStructure(kind) PROVE Typed'
  <2> DEFINE r == [run[Cycle] EXCEPT !.pc = "drop"]
  <2>1. /\ run[Cycle].pc = "scan" /\ run[Cycle].mode = "squareoff" /\ run[Cycle].todo = {}
        /\ run[Cycle].due /\ Become(Cycle, r)
        /\ run[Cycle] \in Locals /\ LocalsTell(run[Cycle], Cycle)
    BY <1>0, <1>2, LocalsAre DEF SquareOffStructure, WalkDone, At, In, Goto, Become
  <2>2. deployed' = Released /\ UNCHANGED <<held, order, memoryVars, saved, lock, worldVars, alerted, scene>>
    BY <1>2 DEF SquareOffStructure, worldVars
  <2>3. /\ r \in Locals /\ r.pc = "drop" /\ r.mode = "squareoff" /\ r.todo = {}
        /\ r.ok = run[Cycle].ok /\ r.due
    BY <2>1 DEF Locals, Labels
  <2> HIDE DEF r
  <2>4. LocalsTell(r, Cycle)
    BY <2>1, <2>3, ProcsAre DEF LocalsTell, Between, AtLeg, OnWalk
  <2>5. RunOK' /\ LabelsOK'
    BY <1>0, <2>1, <2>2, <2>3, <2>4, RunStays DEF Inside, AtLeg
  <2>6. MemoryOK'
    BY <1>0, <2>2, ReleasedTyped, MemoryIs, MemoryGoes DEF memoryVars
  <2>7. BrokerOK'
    <3>1. gtt' \subseteq Shorts
      BY <1>0, <1>2, BrokerIs DEF SquareOffStructure, CancelStops
    <3> QED BY <1>0, <2>2, <3>1, BrokerIs, BrokerGoes
  <2> QED BY <1>0, <2>2, <2>5, <2>6, <2>7, KeepWorld DEF Typed, TypeOK
<1>3. CASE SquareOffDone
  <2>1. /\ UNCHANGED memoryVars /\ Persist /\ Become(Cycle, Idle)
        /\ UNCHANGED <<brokerVars, deployed, lock, worldVars, scene>>
        /\ alerted' = (alerted \/ (run[Cycle].due /\ struct.tracked))
    BY <1>3 DEF SquareOffDone, worldVars
  <2>2. ~Inside(Cycle)
    BY <1>3 DEF SquareOffDone, WalkDone, In, Inside
  <2>3. RunOK' /\ LabelsOK'
    BY <1>0, <2>1, <2>2, EndTyped DEF Typed
  <2>4. MemoryOK'
    BY <1>0, <2>1, MemoryIs, PersistTyped DEF memoryVars
  <2>5. WorldOK'
    BY <1>0, <2>1 DEF WorldOK, worldVars
  <2> QED BY <1>0, <2>1, <2>3, <2>4, <2>5, KeepBroker DEF Typed, TypeOK
<1> QED BY <1>1, <1>2, <1>3 DEF SquareOffStep, SquareOffSpread, SquareOffCondor

LEMMA LegsFinite == IsFiniteSet(Legs) /\ Cardinality(Legs) \in Nat
<1>1. IsFiniteSet(AllLegs)
  <2>1. \A a, b \in Int : IsFiniteSet(a .. b)
    BY FS_Interval
  <2>2. 1 \in Int /\ 4 \in Int
    OBVIOUS
  <2> QED BY <2>1, <2>2, Zenon DEF AllLegs
<1>2. IsFiniteSet(Legs)
  BY <1>1, LegsAre, FS_Subset
<1> QED BY <1>2, FS_CardinalityType

LEMMA UnwindTyped ==
    ASSUME Typed, run[Cycle].mode # "exit", Unwind, UNCHANGED <<scene, lock>>
    PROVE  RunOK' /\ LabelsOK'
<1>1. run[Cycle].ok \in SUBSET Legs /\ Cycle \in Procs
  BY LocalsAre, ProcsAre DEF LocalsTell
<1>2. Walk(Cycle, "unwind", run[Cycle].ok, [known |-> TRUE, qty |-> Flat])
  BY DEF Unwind, NoPositions
<1>3. ~Inside(Cycle) /\ "unwind" \in Modes
  BY DEF Inside, Modes
<1> QED BY <1>1, <1>2, <1>3, BlanksAre, WalkTyped

LEMMA EntryTyped ==
    ASSUME Typed, EntryStep PROVE Typed'
<1>0. BrokerOK /\ MemoryOK /\ RunOK /\ WorldOK /\ LabelsOK /\ Cycle \in Procs
      /\ run[Cycle] \in Locals /\ LocalsTell(run[Cycle], Cycle)
  BY ProcsAre, LocalsAre DEF Typed, TypeOK
<1>1. CASE NoEntry
  <2>1. Become(Cycle, Idle) /\ UNCHANGED <<brokerVars, engineVars, lock, worldVars, alerted, scene>>
    BY <1>1 DEF NoEntry, worldVars
  <2>2. ~Inside(Cycle)
    BY <1>1 DEF NoEntry, At, Inside, AtLeg
  <2> QED BY <1>0, <2>1, <2>2, EndTyped, KeepBroker, KeepMemory, KeepWorld DEF Typed, TypeOK
<1>2. CASE Enter
  <2>1. UNCHANGED <<brokerVars, engineVars, lock, scene, clock, restarts, nights, alerted>>
        /\ dte' = "far" /\ Walk(Cycle, "entry", Legs, [known |-> TRUE, qty |-> Flat])
    BY <1>2 DEF Enter, NoPositions
  <2>2. ~Inside(Cycle)
    BY <1>2 DEF Enter, At, Inside, AtLeg
  <2>3. RunOK' /\ LabelsOK'
    BY <1>0, <2>1, <2>2, BlanksAre, WalkTyped DEF Modes
  <2>4. WorldOK'
    BY <1>0, <2>1 DEF WorldOK
  <2> QED BY <1>0, <2>1, <2>3, <2>4, KeepBroker, KeepMemory DEF Typed, TypeOK
<1>3. ASSUME NEW l \in Legs, PlaceLeg(l) PROVE Typed'
  <2> DEFINE r == [run[Cycle] EXCEPT !.at = l, !.pc = "sent"]
  <2>1. /\ run[Cycle].pc = "scan" /\ run[Cycle].mode = "entry" /\ l \in run[Cycle].todo
        /\ Become(Cycle, r)
    BY <1>3 DEF PlaceLeg, IsNext, At, In
  <2>2. UNCHANGED <<brokerVars, engineVars, lock, worldVars, alerted, scene>>
    BY <1>3 DEF PlaceLeg, worldVars
  <2>3. /\ r \in Locals /\ r.pc = "sent" /\ r.mode = "entry" /\ r.at = l
        /\ r.todo = run[Cycle].todo /\ r.ok = run[Cycle].ok
    BY <1>0, <2>1, LegsAre DEF Locals, Labels
  <2> HIDE DEF r
  <2>4. LocalsTell(r, Cycle)
    BY <1>0, <2>1, <2>3, ProcsAre DEF LocalsTell, Between, AtLeg, OnWalk
  <2>5. RunOK' /\ LabelsOK'
    BY <1>0, <2>1, <2>2, <2>3, <2>4, RunStays DEF Inside
  <2> QED BY <1>0, <2>2, <2>5, KeepBroker, KeepMemory, KeepWorld DEF Typed, TypeOK
<1>4. ASSUME NEW l \in Legs, LegRefused(l) PROVE Typed'
  <2>1. Unwind /\ run[Cycle].mode = "entry"
        /\ exited' = (exited \/ l = 1 \/ scene.kind = "condor")
        /\ UNCHANGED <<brokerVars, struct, pending, count, saved, deployed, lock, worldVars,
                       alerted, scene>>
    BY <1>4 DEF LegRefused, In, worldVars
  <2>2. MemoryOK'
    BY <1>0, <2>1, MemoryIs, MemoryGoes
  <2> QED BY <1>0, <2>1, <2>2, UnwindTyped, KeepBroker, KeepWorld DEF Typed, TypeOK
<1>5. ASSUME NEW kind, LegTaken(kind) PROVE Typed'
  <2> DEFINE row == [leg |-> run[Cycle].at, lots |-> Lots(Cycle),
                     status |-> "OPEN", fate |-> "resting"]
  <2>1. run[Cycle].pc = "sent" /\ "sent" \in AtLeg
    BY <1>5 DEF LegTaken, EntrySent, At, AtLeg
  <2>2. run[Cycle].at \in AllLegs /\ Lots(Cycle) \in Int /\ run[Cycle].at \in run[Cycle].todo
    BY <1>0, <2>1, LotsTyped DEF LocalsTell
  <2>3. Onward(Cycle, run[Cycle].at, TRUE) /\ UNCHANGED <<gtt, engineVars, lock, worldVars, alerted, scene>>
    BY <1>5 DEF LegTaken, worldVars
  <2>4. RunOK' /\ LabelsOK'
    BY <1>0, <2>1, <2>2, <2>3, OnwardTyped
  <2>5. BrokerOK'
    <3>1. CASE held' = [held EXCEPT ![run[Cycle].at] = @ + Lots(Cycle)] /\ order' = order
      <4>1. held' \in [AllLegs -> Int]
        BY <1>0, <2>2, <3>1, BrokerIs
      <4> QED BY <1>0, <2>3, <3>1, <4>1, BrokerIs, BrokerGoes
    <3>2. CASE order' = WithOrder(row) /\ held' = held
      <4>1. row \in Rows
        BY <2>2 DEF Rows, Statuses, Fates
      <4> HIDE DEF row
      <4>2. order' \in [Ids -> Rows]
        BY <1>0, <3>2, <4>1, WithOrderTyped
      <4> QED BY <1>0, <2>3, <3>2, <4>2, BrokerIs, BrokerGoes
    <3> QED BY <1>5, <3>1, <3>2 DEF LegTaken
  <2> QED BY <1>0, <2>3, <2>4, <2>5, KeepMemory, KeepWorld DEF Typed, TypeOK
<1>6. ASSUME NEW kind, LegNotTaken(kind) PROVE Typed'
  <2>1. run[Cycle].pc \in AtLeg /\ run[Cycle].mode = "entry"
    BY <1>6 DEF LegNotTaken, EntrySent, At, In, AtLeg
  <2>2. Unwind /\ UNCHANGED <<gtt, engineVars, lock, worldVars, alerted, scene>>
    BY <1>6 DEF LegNotTaken, worldVars
  <2>3. UNCHANGED <<order, held>> \/ DoubtfulRow(Cycle)
    BY <1>6 DEF LegNotTaken
  <2>4. BrokerOK'
    BY <1>0, <2>1, <2>2, <2>3, RowTyped, KeepBroker DEF brokerVars
  <2> QED BY <1>0, <2>1, <2>2, <2>4, UnwindTyped, KeepMemory, KeepWorld DEF Typed, TypeOK
<1>7. CASE UnwindDone
  <2>1. /\ exited' = (exited \/ (scene.kind = "spread" /\ run[Cycle].ok = {1}))
        /\ Become(Cycle, Idle)
        /\ UNCHANGED <<brokerVars, struct, pending, count, saved, deployed, lock,
                       worldVars, alerted, scene>>
    BY <1>7 DEF UnwindDone, worldVars
  <2>2. ~Inside(Cycle)
    BY <1>7 DEF UnwindDone, WalkDone, In, Inside
  <2>3. MemoryOK'
    BY <1>0, <2>1, MemoryIs, MemoryGoes
  <2> QED BY <1>0, <2>1, <2>2, <2>3, EndTyped, KeepBroker, KeepWorld DEF Typed, TypeOK
<1>8. ASSUME NEW kind, Book(kind) PROVE Typed'
  <2> DEFINE r == [run[Cycle] EXCEPT !.pc = "booked"]
  <2>1. /\ run[Cycle].pc = "scan" /\ run[Cycle].mode = "entry" /\ run[Cycle].todo = {}
        /\ Become(Cycle, r)
    BY <1>8 DEF Book, WalkDone, At, In, Goto, Become
  <2>2. /\ count' = count + Cardinality(Legs) /\ deployed' = deployed + 1
        /\ UNCHANGED <<brokerVars, struct, pending, exited, saved, lock, worldVars, alerted, scene>>
    BY <1>8 DEF Book, worldVars
  <2>3. r \in Locals /\ r.pc = "booked" /\ r.mode = "entry" /\ r.todo = {} /\ r.ok = run[Cycle].ok
    BY <1>0, <2>1 DEF Locals, Labels
  <2> HIDE DEF r
  <2>4. LocalsTell(r, Cycle)
    BY <1>0, <2>1, <2>3, ProcsAre DEF LocalsTell, Between, AtLeg, OnWalk
  <2>5. RunOK' /\ LabelsOK'
    BY <1>0, <2>1, <2>2, <2>3, <2>4, RunStays DEF Inside
  <2>6. count' \in Nat /\ deployed' \in Nat
    BY <1>0, <2>2, LegsFinite, MemoryIs
  <2>7. MemoryOK'
    BY <1>0, <2>2, <2>6, MemoryIs, MemoryGoes
  <2> QED BY <1>0, <2>2, <2>5, <2>7, KeepBroker, KeepWorld DEF Typed, TypeOK
<1>9. CASE PlaceStops
  <2>1. PICK stops \in {{}, Shorts} :
            gtt' = gtt \cup stops /\ Become(Cycle, [run[Cycle] EXCEPT !.pc = "track", !.ok = stops])
    BY <1>9 DEF PlaceStops
  <2> DEFINE r == [run[Cycle] EXCEPT !.pc = "track", !.ok = stops]
  <2>2. run[Cycle].pc = "booked" /\ UNCHANGED <<held, order, engineVars, lock, worldVars, alerted, scene>>
    BY <1>9 DEF PlaceStops, At, worldVars
  <2>3. run[Cycle].mode = "entry" /\ run[Cycle].todo = {}
    BY <1>0, <2>2 DEF LocalsTell
  <2>4. stops \subseteq Shorts /\ Shorts \subseteq Legs /\ Legs \subseteq AllLegs
    BY LegsAre
  <2>5. r \in Locals /\ r.pc = "track" /\ r.mode = "entry" /\ r.todo = {} /\ r.ok = stops
    BY <1>0, <2>3, <2>4 DEF Locals, Labels
  <2>6. Become(Cycle, r)
    BY <2>1
  <2> HIDE DEF r
  <2>7. LocalsTell(r, Cycle)
    BY <2>4, <2>5, ProcsAre DEF LocalsTell, Between, AtLeg, OnWalk
  <2>8. RunOK' /\ LabelsOK'
    BY <1>0, <2>2, <2>3, <2>5, <2>6, <2>7, RunStays DEF Inside
  <2>9. gtt' \subseteq Shorts
    BY <1>0, <2>1, <2>4, BrokerIs
  <2>10. BrokerOK'
    BY <1>0, <2>2, <2>9, BrokerIs, BrokerGoes
  <2> QED BY <1>0, <2>2, <2>8, <2>10, KeepMemory, KeepWorld DEF Typed, TypeOK
<1>10. ASSUME NEW kind, Track(kind) PROVE Typed'
  <2>1. /\ struct' = [NoStruct EXCEPT !.tracked = TRUE, !.stops = run[Cycle].ok]
        /\ run[Cycle].pc = "track" /\ Persist /\ Become(Cycle, Idle)
        /\ UNCHANGED <<pending, exited, count, brokerVars, deployed, lock, worldVars, alerted, scene>>
    BY <1>10 DEF Track, At, worldVars
  <2>2. run[Cycle].mode = "entry" /\ run[Cycle].ok \in SUBSET AllLegs
    BY <1>0, <2>1 DEF LocalsTell, Locals
  <2>3. struct' \in Structs
    BY <2>1, <2>2, BlanksAre DEF Structs
  <2>4. MemoryOK'
    BY <1>0, <2>1, <2>3, MemoryIs, PersistTyped
  <2> QED BY <1>0, <2>1, <2>2, <2>4, EndTyped, KeepBroker, KeepWorld DEF Typed, TypeOK, Inside
<1> QED BY <1>1, <1>2, <1>3, <1>4, <1>5, <1>6, <1>7, <1>8, <1>9, <1>10
        DEF EntryStep, SpreadLegTaken, CondorLegTaken, SpreadLegNotTaken, CondorLegNotTaken,
            BookSpread, BookCondor, TrackSpread, TrackCondor

LEMMA RestoreTyped ==
    ASSUME Typed, RestoreStep PROVE Typed'
<1>0. BrokerOK /\ MemoryOK /\ RunOK /\ WorldOK /\ LabelsOK /\ Cycle \in Procs
      /\ run[Cycle] \in Locals /\ LocalsTell(run[Cycle], Cycle)
  BY ProcsAre, LocalsAre DEF Typed, TypeOK
<1>1. CASE FindOrphans
  <2>1. UNCHANGED <<brokerVars, engineVars, lock, worldVars, alerted, scene>> /\ run[Cycle].pc = "restore"
    BY <1>1 DEF FindOrphans, At, worldVars
  <2>2. PICK positions \in Positions :
          Walk(Cycle, "orphan", IF struct.tracked THEN {}
                                ELSE {l \in Legs : positions.qty[l] # 0}, positions)
    BY <1>1 DEF FindOrphans
  <2> DEFINE legs == IF struct.tracked THEN {} ELSE {l \in Legs : positions.qty[l] # 0}
  <2>3. legs \in SUBSET Legs /\ Walk(Cycle, "orphan", legs, positions)
    BY <2>2
  <2> HIDE DEF legs
  <2>4. ~Inside(Cycle) /\ "orphan" \in Modes
    BY <2>1 DEF Inside, AtLeg, Modes
  <2>5. RunOK' /\ LabelsOK'
    BY <1>0, <2>1, <2>3, <2>4, PositionsAre, WalkTyped
  <2> QED BY <1>0, <2>1, <2>5, KeepBroker, KeepMemory, KeepWorld DEF Typed, TypeOK
<1>2. CASE OrphansDone
  <2>1. /\ Become(Cycle, [Idle EXCEPT !.pc = "rebuild"])
        /\ UNCHANGED <<brokerVars, engineVars, lock, worldVars, alerted, scene>>
    BY <1>2 DEF OrphansDone, worldVars
  <2>2. ~Inside(Cycle) /\ "rebuild" \in Between \ {"check"}
    BY <1>2 DEF OrphansDone, WalkDone, In, Inside, Between
  <2> QED BY <1>0, <2>1, <2>2, IdleTyped, KeepBroker, KeepMemory, KeepWorld DEF Typed, TypeOK
<1>3. CASE FindHalfClosed
  <2>1. UNCHANGED <<brokerVars, engineVars, lock, worldVars, alerted, scene>> /\ run[Cycle].pc = "rebuild"
    BY <1>3 DEF FindHalfClosed, At, worldVars
  <2>2. ~Inside(Cycle) /\ run[Cycle].pc \in Between
    BY <2>1 DEF Inside, AtLeg, Between
  <2>3. RunOK' /\ LabelsOK'
    <3>1. CASE Goto(Cycle, "restored")
      <4>1. "restored" \in Between /\ lock # Cycle
        BY <1>0, <2>2, ProcsAre DEF Between, LabelsOK
      <4> QED BY <1>0, <2>1, <2>2, <3>1, <4>1, ProcsAre, GotoTyped
    <3>2. CASE ~Goto(Cycle, "restored")
      <4>1. PICK positions \in Positions :
              Walk(Cycle, "flatten", {l \in Legs : positions.qty[l] # 0}, positions)
        BY <1>3, <3>2 DEF FindHalfClosed
      <4> DEFINE legs == {l \in Legs : positions.qty[l] # 0}
      <4>2. legs \in SUBSET Legs /\ Walk(Cycle, "flatten", legs, positions)
        BY <4>1
      <4> HIDE DEF legs
      <4>3. "flatten" \in Modes
        BY DEF Modes
      <4> QED BY <1>0, <2>1, <2>2, <4>2, <4>3, PositionsAre, WalkTyped
    <3> QED BY <3>1, <3>2
  <2> QED BY <1>0, <2>1, <2>3, KeepBroker, KeepMemory, KeepWorld DEF Typed, TypeOK
<1>4. ASSUME NEW kind, HalfClosedDone(kind) PROVE Typed'
  <2>1. /\ struct' = NoStruct /\ Become(Cycle, [Idle EXCEPT !.pc = "restored"])
        /\ gtt' = gtt \ (Legs \cap struct.stops)
        /\ UNCHANGED <<held, order, pending, exited, count, saved, deployed, lock,
                       worldVars, alerted, scene>>
    BY <1>4 DEF HalfClosedDone, CancelStops, worldVars
  <2>2. ~Inside(Cycle) /\ "restored" \in Between \ {"check"}
    BY <1>4 DEF HalfClosedDone, WalkDone, In, Inside, Between
  <2>3. MemoryOK'
    BY <1>0, <2>1, BlanksAre, MemoryIs, MemoryGoes
  <2>4. gtt' \subseteq Shorts
    BY <1>0, <2>1, BrokerIs
  <2>5. BrokerOK'
    BY <1>0, <2>1, <2>4, BrokerIs, BrokerGoes
  <2> QED BY <1>0, <2>1, <2>2, <2>3, <2>5, IdleTyped, KeepWorld DEF Typed, TypeOK
<1>5. CASE Restored
  <2>1. /\ deployed' = Elsewhere + (IF struct.tracked THEN 1 ELSE 0) /\ Become(Cycle, Idle)
        /\ UNCHANGED <<brokerVars, memoryVars, saved, lock, worldVars, alerted, scene>>
    BY <1>5 DEF Restored, worldVars
  <2>2. ~Inside(Cycle)
    BY <1>5 DEF Restored, At, Inside, AtLeg
  <2>3. MemoryOK'
    BY <1>0, <2>1, MemoryIs, MemoryGoes DEF memoryVars, Elsewhere
  <2> QED BY <1>0, <2>1, <2>2, <2>3, EndTyped, KeepBroker, KeepWorld DEF Typed, TypeOK
<1> QED BY <1>1, <1>2, <1>3, <1>4, <1>5 DEF RestoreStep, HalfSpreadDone, HalfCondorDone

\* The clock, the stop orders at the exchange, a crash, and the starts of the two jobs.
LEMMA OutsideTyped ==
    ASSUME Typed,
           \/ StartCycle \/ TakeLock \/ FastJob \/ LateInTheDay \/ NextDay \/ Crash
           \/ \E l \in Shorts : StopFires(l)
    PROVE  Typed'
<1>0. BrokerOK /\ MemoryOK /\ RunOK /\ WorldOK /\ LabelsOK /\ Cycle \in Procs /\ Fast \in Procs
      /\ Cycle # Fast /\ NoOne \notin Procs
  BY ProcsAre DEF Typed, TypeOK
<1>1. CASE StartCycle
  <2>1. /\ Goto(Cycle, "verify") /\ run[Cycle].pc = "idle"
        /\ UNCHANGED <<brokerVars, engineVars, lock, worldVars, alerted, scene>>
    BY <1>1 DEF StartCycle, At, worldVars
  <2>2. lock # Cycle
    BY <1>0, <2>1 DEF LabelsOK, Inside, AtLeg
  <2>3. RunOK' /\ LabelsOK'
    BY <1>0, <2>1, <2>2, GotoTyped DEF Between
  <2> QED BY <1>0, <2>1, <2>3, KeepBroker, KeepMemory, KeepWorld DEF Typed, TypeOK
<1>2. CASE TakeLock
  <2>1. /\ Goto(Cycle, "check") /\ run[Cycle].pc = "verify" /\ lock = NoOne /\ lock' = Cycle
        /\ UNCHANGED <<brokerVars, engineVars, worldVars, alerted, scene>>
    BY <1>2 DEF TakeLock, At, worldVars
  <2>2. RunOK' /\ LabelsOK'
    BY <1>0, <2>1, GotoTyped DEF Between
  <2> QED BY <1>0, <2>1, <2>2, KeepBroker, KeepMemory, KeepWorld DEF Typed, TypeOK
<1>3. CASE FastJob
  <2>1. /\ Goto(Fast, "check") /\ run[Fast].pc = "idle" /\ lock = NoOne /\ lock' = Fast
        /\ UNCHANGED <<brokerVars, engineVars, worldVars, alerted, scene>>
    BY <1>3 DEF FastJob, At, worldVars
  <2>2. RunOK' /\ LabelsOK'
    BY <1>0, <2>1, GotoTyped DEF Between
  <2> QED BY <1>0, <2>1, <2>2, KeepBroker, KeepMemory, KeepWorld DEF Typed, TypeOK
<1>4. CASE LateInTheDay
  <2>1. /\ clock' \in {"squareoff", "closed"}
        /\ UNCHANGED <<brokerVars, engineVars, lock, run, scene, dte, restarts, nights, alerted>>
    BY <1>4 DEF LateInTheDay
  <2>2. WorldOK'
    BY <1>0, <2>1 DEF WorldOK
  <2> QED BY <1>0, <2>1, <2>2, KeepBroker, KeepMemory, KeepRun DEF Typed, TypeOK
<1>5. CASE NextDay
  <2>1. /\ clock' = "open" /\ nights < scene.nights /\ nights' = nights + 1
        /\ exited' = FALSE /\ count' = 0 /\ saved' = [saved EXCEPT !.exited = FALSE, !.count = 0]
        /\ deployed' = Elsewhere + (IF struct.tracked THEN 1 ELSE 0)
        /\ order' = AtExchange("lost")
        /\ UNCHANGED <<struct, pending, lock, run, scene, restarts, alerted>>
    BY <1>5 DEF NextDay
  <2>2. dte' \in {"far", "near", "last"}
    BY <1>0, <1>5 DEF NextDay, WorldOK
  <2>3. WorldOK'
    BY <1>0, <2>1, <2>2, SceneIs DEF WorldOK
  <2>4. saved' \in Memory /\ deployed' \in Nat
    <3>1. deployed' \in Nat
      BY <2>1 DEF Elsewhere
    <3>2. saved \in Memory /\ saved' = [saved EXCEPT !.exited = FALSE, !.count = 0]
      BY <1>0, <2>1, MemoryIs
    <3>3. saved' \in Memory
      BY <3>2 DEF Memory
    <3> QED BY <3>1, <3>3
  <2>5. MemoryOK'
    BY <1>0, <2>1, <2>4, MemoryIs, MemoryGoes
  <2>6. (held' = Flat /\ gtt' = {}) \/ UNCHANGED <<held, gtt>>
    BY <1>5 DEF NextDay
  <2>7. order' \in [Ids -> Rows]
    <3> DEFINE late(i) == [order[i] EXCEPT !.fate = "lost"]
    <3>1. \A i \in Ids : order[i] \in Rows
      BY <1>0, BrokerIs
    <3>2. \A i \in Ids : late(i) \in Rows
      BY <3>1 DEF Rows, Fates
    <3>3. order' = [i \in Ids |-> IF order[i].fate \in {"resting", "flying"} THEN late(i) ELSE order[i]]
      BY <2>1 DEF AtExchange
    <3> HIDE DEF late
    <3> QED BY <3>1, <3>2, <3>3
  <2>8. held' \in [AllLegs -> Int] /\ gtt' \subseteq Shorts
    BY <1>0, <2>6, BlanksAre, BrokerIs
  <2>9. BrokerOK'
    BY <2>1, <2>7, <2>8, BrokerGoes
  <2> QED BY <1>0, <2>1, <2>3, <2>5, <2>9, KeepRun DEF Typed, TypeOK
<1>6. CASE Crash
  <2>1. /\ restarts < scene.restarts /\ restarts' = restarts + 1
        /\ struct' = saved.struct /\ pending' = saved.pending
        /\ exited' = saved.exited /\ count' = saved.count /\ deployed' = 0 /\ lock' = NoOne
        /\ run' = [p \in Procs |-> IF p = Cycle THEN [Idle EXCEPT !.pc = "restore"] ELSE Idle]
        /\ UNCHANGED <<order, gtt, saved, scene, dte, clock, nights, alerted>>
    BY <1>6 DEF Crash
  <2>2. WorldOK'
    BY <1>0, <2>1, SceneIs DEF WorldOK
  <2>3. MemoryOK'
    BY <1>0, <2>1, MemoryIs, MemoryGoes DEF Memory, Structs
  <2>4. held' \in [AllLegs -> Int]
    <3>1. CASE held' = held
      BY <1>0, <3>1, BrokerIs
    <3>2. CASE \E p \in Procs : At(p, "sent") /\ held' = [held EXCEPT ![run[p].at] = @ + Lots(p)]
      <4>1. PICK p \in Procs : At(p, "sent") /\ held' = [held EXCEPT ![run[p].at] = @ + Lots(p)]
        BY <3>2
      <4>2. run[p].at \in AllLegs /\ Lots(p) \in Int
        BY <4>1, LotsTyped DEF At, AtLeg
      <4> QED BY <1>0, <4>1, <4>2, BrokerIs
    <3> QED BY <1>6, <3>1, <3>2 DEF Crash
  <2>5. BrokerOK'
    BY <1>0, <2>1, <2>4, BrokerIs, BrokerGoes
  <2> DEFINE r == [Idle EXCEPT !.pc = "restore"]
  <2>6. r \in Locals /\ Fresh(r) /\ r.pc = "restore" /\ "restore" \in Between /\ "idle" \in Between
    BY BetweenTyped DEF Between
  <2>7. run' = [p \in Procs |-> IF p = Cycle THEN r ELSE Idle]
    BY <2>1
  <2> HIDE DEF r
  <2>8. run' \in [Procs -> Locals] /\ run'[Cycle] = r /\ \A p \in Procs \ {Cycle} : run'[p] = Idle
    BY <1>0, <2>6, <2>7, IdleIs
  <2>9. \A p \in Procs : LocalsTell(run'[p], p)
    BY <1>0, <2>6, <2>8, IdleIs, FreshTells
  <2>10. \A p \in Procs : LocalsTell(run[p], p)'
    BY <2>1, <2>9 DEF LocalsTell, Legs, Shorts
  <2>11. \A p \in Procs : ~Inside(p)'
    BY <1>0, <2>6, <2>8, IdleIs DEF Inside, AtLeg
  <2> QED BY <1>0, <2>1, <2>2, <2>3, <2>5, <2>8, <2>10, <2>11 DEF Typed, TypeOK, RunOK, LabelsOK
<1>7. ASSUME NEW l \in Shorts, StopFires(l) PROVE Typed'
  <2>1. /\ gtt' = gtt \ {l} /\ held' = [held EXCEPT ![l] = @ + 1]
        /\ UNCHANGED <<order, engineVars, lock, run, worldVars, alerted, scene>>
    BY <1>7 DEF StopFires, worldVars
  <2>2. l \in AllLegs
    BY LegsAre
  <2>3. held' \in [AllLegs -> Int] /\ gtt' \subseteq Shorts
    BY <1>0, <2>1, <2>2, BrokerIs
  <2>4. BrokerOK'
    BY <1>0, <2>1, <2>3, BrokerIs, BrokerGoes
  <2> QED BY <1>0, <2>1, <2>4, KeepMemory, KeepWorld, KeepRun DEF Typed, TypeOK
<1> QED BY <1>1, <1>2, <1>3, <1>4, <1>5, <1>6, <1>7

\* All that can happen.
LEMMA StepIs ==
    ASSUME Next
    PROVE  \/ StartCycle \/ TakeLock \/ FastJob \/ LateInTheDay \/ NextDay \/ Crash
           \/ \E l \in Shorts : StopFires(l)
           \/ SquareOffStep \/ EntryStep \/ RestoreStep
           \/ \E p \in Procs : LegStep(p) \/ ExitStep(p)
           \/ \E i \in Ids : Verify(i) \/ ExpireStale(i) \/ Land(i) \/ Fill(i)
BY ProcsAre DEF Next, CycleStep

LEMMA TypedInit == Init => Typed
<1> SUFFICES ASSUME Init PROVE Typed
  OBVIOUS
<1>1. order \in [Ids -> Rows] /\ held \in [AllLegs -> Int]
  BY BlanksAre DEF Init
<1>2. BrokerOK
  BY <1>1 DEF Init, BrokerOK, Rows
<1>3. MemoryOK
  BY BlanksAre DEF Init, MemoryOK, Memory, Structs, Elsewhere
<1>4. WorldOK
  <2>1. scene \in Scenes /\ scene.restarts \in Nat /\ scene.nights \in Nat
    BY StructureConstants DEF Init, IsScene
  <2>2. 0 \in 0 .. scene.restarts /\ 0 \in 0 .. scene.nights
    BY <2>1
  <2> QED BY <2>1, <2>2 DEF Init, WorldOK
<1>5. \A p \in Procs : run[p] = Idle
  BY DEF Init
<1>6. run \in [Procs -> Locals] /\ lock = NoOne
  BY IdleIs DEF Init
<1>7. \A p \in Procs : LocalsTell(run[p], p) /\ ~Inside(p)
  BY <1>5, IdleIs, FreshTells DEF Inside, AtLeg, Between
<1> QED BY <1>2, <1>3, <1>4, <1>6, <1>7, ProcsAre DEF Typed, TypeOK, RunOK, LabelsOK

LEMMA TypedNext == Typed /\ [Next]_vars => Typed'
<1> SUFFICES ASSUME Typed, [Next]_vars PROVE Typed'
  OBVIOUS
<1>1. CASE UNCHANGED vars
  <2>1. UNCHANGED <<brokerVars, engineVars, lock, run, worldVars, alerted, scene>>
    BY <1>1 DEF vars, worldVars
  <2> QED BY <2>1, KeepBroker, KeepMemory, KeepWorld, KeepRun DEF Typed, TypeOK
<1>2. CASE Next
  BY <1>2, StepIs, OutsideTyped, SquareOffTyped, EntryTyped, RestoreTyped, LegStepTyped,
     ExitStepTyped, VerifyTyped
<1> QED BY <1>1, <1>2

\* Whatever fails, the structure and the two coroutines keep their shape: a leg is never
\* both open and closed for a coroutine, only the one that holds the lock is in an exit, and
\* the square-off, the entries and the reconciliations belong to the cycle.
THEOREM StructuresStayTyped == Spec => []TypeOK
<1>1. Spec => []Typed
  BY TypedInit, TypedNext, PTL DEF Spec
<1>2. Typed => TypeOK
  BY DEF Typed
<1> QED BY <1>1, <1>2, PTL

-----------------------------------------------------------------------------
(* The accounts and the stop orders, step by step.                         *)

LEMMA Becomes ==
    ASSUME Typed, NEW p \in Procs, NEW r, Become(p, r)
    PROVE  run'[p] = r /\ \A q \in Procs \ {p} : run'[q] = run[q]
BY DEF Become, Typed, TypeOK, RunOK

LEMMA OnwardIs ==
    ASSUME Typed, NEW p \in Procs, NEW l \in AllLegs, NEW closed \in BOOLEAN, Onward(p, l, closed)
    PROVE  /\ run'[p].pc = "scan" /\ run'[p].mode = run[p].mode /\ run'[p].due = run[p].due
           /\ run'[p].todo = run[p].todo \ {l} /\ run'[p].known = run[p].known
           /\ run'[p].id = NoOrder /\ run'[p].qty = [run[p].qty EXCEPT ![l] = 0]
           /\ run'[p].ok = IF closed THEN run[p].ok \cup {l} ELSE run[p].ok
           /\ \A q \in Procs \ {p} : run'[q] = run[q]
<1> DEFINE r == [run[p] EXCEPT !.pc = "scan", !.todo = @ \ {l}, !.at = NoLeg,
                               !.id = NoOrder, !.qty[l] = 0,
                               !.ok = IF closed THEN @ \cup {l} ELSE @]
<1>1. run[p] \in Locals
  BY LocalsAre
<1>2. Become(p, r)
  BY DEF Onward
<1>3. /\ r.pc = "scan" /\ r.mode = run[p].mode /\ r.due = run[p].due
      /\ r.todo = run[p].todo \ {l} /\ r.known = run[p].known
      /\ r.id = NoOrder /\ r.qty = [run[p].qty EXCEPT ![l] = 0]
      /\ r.ok = IF closed THEN run[p].ok \cup {l} ELSE run[p].ok
  BY <1>1 DEF Locals
<1> HIDE DEF r
<1> QED BY <1>2, <1>3, Becomes

\* Where the two are.
LEMMA TheyAre ==
    ASSUME Typed
    PROVE  /\ run[Fast].mode = "exit"
           /\ run[Fast].pc \in {"idle", "check", "scan", "drop"} \cup AtLeg
           /\ run[Fast].pc # "idle" => lock = Fast
           /\ Closing \/ At(Cycle, "check") => lock = Cycle
           /\ run[Cycle].pc \in Between => In(Cycle, "exit") /\ ~run[Cycle].due
           /\ At(Cycle, "drop") => In(Cycle, "exit") \/ (In(Cycle, "squareoff") /\ run[Cycle].due)
           /\ Booked => In(Cycle, "entry")
           /\ gtt \subseteq Legs
           /\ struct.tracked \in BOOLEAN /\ deployed \in Nat
           /\ restarts \in Nat /\ restarts <= scene.restarts /\ nights \in Nat
           /\ nights <= scene.nights /\ scene.restarts \in Nat /\ scene.nights \in Nat
<1>1. Cycle \in Procs /\ Fast \in Procs /\ Cycle # Fast
  BY ProcsAre
<1>2. LocalsTell(run[Cycle], Cycle) /\ LocalsTell(run[Fast], Fast)
  BY <1>1, LocalsAre
<1>3. run[Fast].mode = "exit" /\ run[Fast].pc \in {"idle", "check", "scan", "drop"} \cup AtLeg
  BY <1>1, <1>2 DEF LocalsTell
<1>4. run[Fast].pc # "idle" => lock = Fast
  BY <1>1, <1>3 DEF Typed, LabelsOK, Inside
<1>5. run[Cycle].pc \in Between => In(Cycle, "exit") /\ ~run[Cycle].due
  BY <1>2 DEF LocalsTell, Fresh, In
<1>6. Closing \/ At(Cycle, "check") => lock = Cycle
  BY <1>1, <1>5 DEF Typed, LabelsOK, Inside, Closing, At, In, Between
<1>7. At(Cycle, "drop") => In(Cycle, "exit") \/ (In(Cycle, "squareoff") /\ run[Cycle].due)
  BY <1>2 DEF LocalsTell, At, In
<1>8. Booked => In(Cycle, "entry")
  BY <1>2 DEF LocalsTell, Booked, In
<1>9. gtt \subseteq Legs /\ struct.tracked \in BOOLEAN /\ deployed \in Nat
  BY LegsAre, BrokerIs, MemoryIs DEF Typed, TypeOK, Structs
<1>10. /\ restarts \in Nat /\ restarts <= scene.restarts /\ nights \in Nat
       /\ nights <= scene.nights /\ scene.restarts \in Nat /\ scene.nights \in Nat
  BY SceneIs DEF Typed, TypeOK, WorldOK
<1> QED BY <1>3, <1>4, <1>5, <1>6, <1>7, <1>8, <1>9, <1>10

\* At a leg nothing of the account or of the stop orders moves.
LEMMA LegStepIs ==
    ASSUME Typed, NEW p \in Procs, LegStep(p)
    PROVE  /\ run[p].pc \in {"scan"} \cup AtLeg /\ run'[p].pc \in {"scan"} \cup AtLeg
           /\ run'[p].mode = run[p].mode /\ run'[p].due = run[p].due
           /\ \A q \in Procs \ {p} : run'[q] = run[q]
           /\ struct'.tracked = struct.tracked /\ struct'.done = struct.done
           /\ struct'.stops = struct.stops
           /\ UNCHANGED <<gtt, deployed, lock, scene, dte, clock, restarts, nights>>
<1>0. run[p] \in Locals /\ LocalsTell(run[p], p) /\ struct \in Structs /\ pending \in Pendings
  BY LocalsAre, MemoryIs DEF Typed, TypeOK
<1> DEFINE Frame == UNCHANGED <<gtt, deployed, lock, scene, dte, clock, restarts, nights>>
           Kept == struct'.tracked = struct.tracked /\ struct'.done = struct.done
                   /\ struct'.stops = struct.stops
           Moved == /\ run'[p].pc \in {"scan"} \cup AtLeg
                    /\ run'[p].mode = run[p].mode /\ run'[p].due = run[p].due
                    /\ \A q \in Procs \ {p} : run'[q] = run[q]
<1>1. ASSUME NEW l \in AllLegs, Onward(p, l, TRUE) \/ Onward(p, l, FALSE) PROVE Moved
  <2>1. CASE Onward(p, l, TRUE)
    BY <2>1, OnwardIs
  <2>2. CASE Onward(p, l, FALSE)
    BY <2>2, OnwardIs
  <2> QED BY <1>1, <2>1, <2>2
<1>2. ASSUME NEW r, Become(p, r), r.pc \in AtLeg, r.mode = run[p].mode, r.due = run[p].due PROVE Moved
  BY <1>2, Becomes
<1>3. ASSUME NEW l \in Legs, LegIsClosed(p, l) PROVE run[p].pc = "scan" /\ Frame /\ Kept /\ Moved
  <2>1. Onward(p, l, TRUE) /\ l \in AllLegs
    BY <1>3, LegsAre DEF LegIsClosed
  <2> QED BY <1>1, <1>3, <2>1 DEF LegIsClosed, IsNext, At, brokerVars, engineVars, memoryVars, worldVars
<1>4. ASSUME NEW l \in Legs, CloseLeg(p, l) PROVE run[p].pc = "scan" /\ Frame /\ Kept /\ Moved
  <2> DEFINE r == [run[p] EXCEPT !.at = l, !.id = InDoubt(p, l),
                                 !.pc = IF InDoubt(p, l) = NoOrder THEN "place" ELSE "resolve"]
  <2>1. Become(p, r) /\ r.pc \in AtLeg /\ r.mode = run[p].mode /\ r.due = run[p].due
    BY <1>0, <1>4 DEF CloseLeg, AtLeg, Locals
  <2> HIDE DEF r
  <2>2. Moved
    BY <1>2, <2>1
  <2> QED BY <1>4, <2>2 DEF CloseLeg, IsNext, At, brokerVars, engineVars, memoryVars, worldVars
<1>5. ASSUME run[p].pc \in AtLeg PROVE run[p].at \in AllLegs
  BY <1>0, <1>5, LegsAre DEF LocalsTell
<1>6. ASSUME Resolve(p) PROVE run[p].pc = "resolve" /\ Frame /\ Kept /\ Moved
  <2>1. run[p].pc = "resolve" /\ run[p].at \in AllLegs /\ Frame
    BY <1>5, <1>6 DEF Resolve, At, AtLeg, brokerVars, worldVars
  <2> DEFINE r == [run[p] EXCEPT !.pc = "place", !.id = NoOrder]
  <2>2. r.pc \in AtLeg /\ r.mode = run[p].mode /\ r.due = run[p].due
    BY <1>0 DEF AtLeg, Locals
  <2>3. Onward(p, run[p].at, TRUE) \/ Onward(p, run[p].at, FALSE) \/ Become(p, r)
    BY <1>6 DEF Resolve
  <2> HIDE DEF r
  <2>4. Moved
    BY <1>1, <1>2, <2>1, <2>2, <2>3
  <2>5. struct' = struct \/ struct' = [struct EXCEPT !.pend[run[p].at] = NoOrder]
    BY <1>6 DEF Resolve, Forget, memoryVars
  <2>6. Kept
    BY <1>0, <2>5 DEF Structs
  <2> QED BY <2>1, <2>4, <2>6
<1>7. ASSUME Place(p) PROVE run[p].pc = "place" /\ Frame /\ Kept /\ Moved
  <2> DEFINE r == [run[p] EXCEPT !.pc = "sent"]
  <2>1. Become(p, r) /\ r.pc \in AtLeg /\ r.mode = run[p].mode /\ r.due = run[p].due
    BY <1>0, <1>7 DEF Place, Goto, Become, AtLeg, Locals
  <2> HIDE DEF r
  <2>2. Moved
    BY <1>2, <2>1
  <2> QED BY <1>7, <2>2 DEF Place, At, brokerVars, engineVars, memoryVars, worldVars
<1>8. ASSUME CloseTaken(p) \/ CloseFailed(p) \/ CloseDoubtful(p)
      PROVE  run[p].pc = "sent" /\ Frame /\ Kept /\ Moved
  <2>1. run[p].pc = "sent" /\ run[p].at \in AllLegs
    BY <1>5, <1>8 DEF CloseTaken, CloseFailed, CloseDoubtful, Sent, At, AtLeg
  <2>2. Frame
    BY <1>8 DEF CloseTaken, CloseFailed, CloseDoubtful, brokerVars, engineVars, memoryVars, worldVars
  <2>3. \/ Onward(p, run[p].at, TRUE) \/ Onward(p, run[p].at, FALSE)
        \/ Onward(p, run[p].at, In(p, "unwind") /\ scene.kind = "spread")
    BY <1>8 DEF CloseTaken, CloseFailed, CloseDoubtful
  <2>4. Moved
    <3>1. CASE Onward(p, run[p].at, In(p, "unwind") /\ scene.kind = "spread")
      BY <2>1, <3>1, OnwardIs
    <3> QED BY <1>1, <2>1, <2>3, <3>1
  <2>5. struct' = struct \/ struct' = [struct EXCEPT !.pend[run[p].at] = Slot]
    BY <1>8 DEF CloseTaken, CloseFailed, CloseDoubtful, engineVars, memoryVars, In
  <2>6. Kept
    BY <1>0, <2>5 DEF Structs
  <2> QED BY <2>1, <2>2, <2>4, <2>6
<1> HIDE DEF Frame, Kept, Moved
<1>9. run[p].pc \in {"scan"} \cup AtLeg /\ Frame /\ Kept /\ Moved
  BY <1>3, <1>4, <1>6, <1>7, <1>8 DEF LegStep, AtLeg
<1> QED BY <1>9 DEF Frame, Kept, Moved

LEMMA LegStepKeeps ==
    ASSUME Typed, NEW p \in Procs, LegStep(p)
    PROVE  (CountInv => CountInv') /\ (StopInv => StopInv')
<1> DEFINE Walking(r) == r.pc \in {"scan"} \cup AtLeg
<1>1. /\ Walking(run[p]) /\ Walking(run[p])'
      /\ run'[p].mode = run[p].mode /\ run'[p].due = run[p].due
      /\ \A q \in Procs \ {p} : run'[q] = run[q]
      /\ struct'.tracked = struct.tracked /\ struct'.done = struct.done
      /\ struct'.stops = struct.stops
      /\ UNCHANGED <<gtt, deployed, lock, scene, dte, clock, restarts, nights>>
  BY LegStepIs
<1>2. \A q \in Procs :
        /\ run'[q].mode = run[q].mode /\ run'[q].due = run[q].due
        /\ run'[q].pc = run[q].pc \/ (Walking(run[q]) /\ Walking(run[q])')
  BY <1>1
<1>3. \A q \in Procs : \A label \in {"idle", "drop", "track", "booked", "restore", "rebuild", "restored"} :
        At(q, label)' <=> At(q, label)
  BY <1>2 DEF At, AtLeg
<1>4. Restoring' <=> Restoring
  BY <1>2, ProcsAre DEF Restoring, AtLeg
<1>5. (Booked' <=> Booked) /\ (Dropping' <=> Dropping) /\ (Closing' <=> Closing)
  BY <1>2, ProcsAre DEF Booked, Dropping, Closing, At, In, AtLeg
<1>6. DaysPass' <=> DaysPass
  BY <1>1, <1>2, ProcsAre DEF DaysPass
<1>7. CountInv => CountInv'
  BY <1>1, <1>2, <1>3, <1>4, <1>5, <1>6, ProcsAre DEF CountInv, FastIsApart
<1>8. At(Cycle, "track") => run'[Cycle] = run[Cycle]
  <2>1. At(Cycle, "track") => p # Cycle
    BY <1>1 DEF At, AtLeg
  <2> QED BY <1>1, <2>1, ProcsAre
<1>9. StopInv => StopInv'
  BY <1>1, <1>2, <1>3, <1>4, <1>5, <1>8, ProcsAre DEF StopInv, In
<1> QED BY <1>7, <1>9

LEMMA LeaveIs ==
    ASSUME Typed, NEW p \in Procs, Leave(p)
    PROVE  /\ run'[p].pc = IF p = Cycle /\ In(p, "exit") THEN "entries" ELSE "idle"
           /\ run'[p].mode = "exit" /\ ~run'[p].due
           /\ \A q \in Procs \ {p} : run'[q] = run[q]
<1> DEFINE label == IF p = Cycle /\ In(p, "exit") THEN "entries" ELSE "idle"
           r == [Idle EXCEPT !.pc = label]
<1>1. label \in Between
  BY DEF Between
<1>2. Become(p, r)
  BY DEF Leave
<1> HIDE DEF label
<1>3. r.pc = label /\ Fresh(r)
  BY <1>1, BetweenTyped
<1> HIDE DEF r
<1>4. run'[p] = r /\ \A q \in Procs \ {p} : run'[q] = run[q]
  BY <1>2, Becomes
<1> QED BY <1>3, <1>4 DEF label, Fresh

LEMMA WalkIs ==
    ASSUME Typed, NEW p \in Procs, NEW m, NEW legs, NEW positions, Walk(p, m, legs, positions)
    PROVE  /\ run'[p].pc = "scan" /\ run'[p].mode = m /\ ~run'[p].due
           /\ run'[p].todo = legs /\ run'[p].ok = {}
           /\ run'[p].known = positions.known /\ run'[p].qty = positions.qty
           /\ \A q \in Procs \ {p} : run'[q] = run[q]
<1> DEFINE r == [Idle EXCEPT !.pc = "scan", !.mode = m, !.todo = legs,
                             !.known = positions.known, !.qty = positions.qty]
<1>1. Become(p, r)
  BY DEF Walk
<1>2. /\ r.pc = "scan" /\ r.mode = m /\ ~r.due /\ r.todo = legs /\ r.ok = {}
      /\ r.known = positions.known /\ r.qty = positions.qty
  BY IdleIs DEF Locals, Fresh
<1> HIDE DEF r
<1> QED BY <1>1, <1>2, Becomes

LEMMA EndIs ==
    ASSUME Typed, NEW label \in Between,
           (Become(Cycle, Idle) /\ label = "idle") \/ Become(Cycle, [Idle EXCEPT !.pc = label])
    PROVE  /\ run'[Cycle].pc = label /\ run'[Cycle].mode = "exit" /\ ~run'[Cycle].due
           /\ run'[Fast] = run[Fast]
<1> DEFINE r == [Idle EXCEPT !.pc = label]
<1>1. r.pc = label /\ Fresh(r)
  BY BetweenTyped
<1>2. (Become(Cycle, Idle) /\ label = "idle") \/ Become(Cycle, r)
  OBVIOUS
<1> HIDE DEF r
<1>3. CASE Become(Cycle, Idle) /\ label = "idle"
  BY <1>3, IdleIs, Becomes, ProcsAre DEF Fresh
<1>4. CASE Become(Cycle, r)
  BY <1>1, <1>4, Becomes, ProcsAre DEF Fresh
<1> QED BY <1>2, <1>3, <1>4

LEMMA GotoIs ==
    ASSUME Typed, NEW p \in Procs, NEW label, Goto(p, label)
    PROVE  /\ run'[p].pc = label /\ run'[p].mode = run[p].mode /\ run'[p].due = run[p].due
           /\ run'[p].ok = run[p].ok
           /\ \A q \in Procs \ {p} : run'[q] = run[q]
<1> DEFINE r == [run[p] EXCEPT !.pc = label]
<1>1. Become(p, r) /\ run[p] \in Locals
  BY LocalsAre DEF Goto, Become
<1>2. r.pc = label /\ r.mode = run[p].mode /\ r.due = run[p].due /\ r.ok = run[p].ok
  BY <1>1 DEF Locals
<1> HIDE DEF r
<1> QED BY <1>1, <1>2, Becomes

LEMMA ExitStepKeeps ==
    ASSUME Typed, NEW p \in Procs, ExitStep(p)
    PROVE  (CountInv => CountInv') /\ (StopInv => StopInv')
<1> USE TheyAre, ProcsAre
<1>0. p = Cycle \/ p = Fast
  BY DEF Procs
<1>1. CASE NoExitReason(p)
  <2>1. /\ run[p].pc = "check" /\ Leave(p)
        /\ UNCHANGED <<struct, gtt, deployed, scene, dte, clock, restarts, nights>>
    BY <1>1 DEF NoExitReason, At, brokerVars, engineVars, memoryVars, worldVars
  <2>2. /\ run'[p].pc = IF p = Cycle THEN "entries" ELSE "idle"
        /\ run'[p].mode = "exit" /\ ~run'[p].due
        /\ \A q \in Procs \ {p} : run'[q] = run[q]
    BY <2>1, LeaveIs DEF In, Between
  <2>3. CountInv => CountInv'
    BY <1>0, <2>1, <2>2 DEF CountInv, DaysPass, FastIsApart, Restoring, Booked, Dropping, Closing, At, In, AtLeg, Between
  <2>4. StopInv => StopInv'
    BY <1>0, <2>1, <2>2 DEF StopInv, Restoring, Dropping, At, In, Between
  <2> QED BY <2>3, <2>4
<1>2. CASE ExitReason(p)
  <2>1. /\ run[p].pc = "check" /\ struct.tracked
        /\ UNCHANGED <<struct, gtt, deployed, scene, dte, clock, restarts, nights>>
    BY <1>2 DEF ExitReason, At, brokerVars, engineVars, memoryVars, worldVars
  <2>2. /\ run'[p].pc = "scan" /\ run'[p].mode = "exit" /\ ~run'[p].due
        /\ \A q \in Procs \ {p} : run'[q] = run[q]
    BY <1>2, WalkIs DEF ExitReason
  <2>3. CountInv => CountInv'
    BY <1>0, <2>1, <2>2 DEF CountInv, DaysPass, FastIsApart, Restoring, Booked, Dropping, Closing, At, In, AtLeg, Between
  <2>4. StopInv => StopInv'
    BY <1>0, <2>1, <2>2 DEF StopInv, Restoring, Dropping, At, In, Between
  <2> QED BY <2>3, <2>4
<1>3. CASE Drop(p)
  <2>1. /\ run[p].pc = "drop" /\ Leave(p)
        /\ UNCHANGED <<gtt, deployed, scene, dte, clock, restarts, nights>>
        /\ struct' = IF struct.tracked THEN NoStruct ELSE struct
    BY <1>3 DEF Drop, At, brokerVars, memoryVars, worldVars
  <2>2. /\ run'[p].pc = IF p = Cycle /\ In(p, "exit") THEN "entries" ELSE "idle"
        /\ run'[p].mode = "exit" /\ ~run'[p].due
        /\ \A q \in Procs \ {p} : run'[q] = run[q]
    BY <2>1, LeaveIs
  <2>3. ~struct'.tracked
    BY <2>1, BlanksAre
  <2>4. ASSUME CountInv PROVE CountInv'
    <3>1. struct.tracked /\ ~Booked
      BY <1>0, <2>1, <2>4 DEF CountInv, At, In
    <3>2. p = Cycle => At(Fast, "idle")
      BY <2>1, <2>4 DEF CountInv, DaysPass, FastIsApart, Closing, At, In
    <3>3. p = Fast => ~At(Cycle, "drop") /\ ~Closing
      BY <2>1, <2>4 DEF CountInv, DaysPass, FastIsApart, Closing, At, In
    <3>4. ~Restoring => deployed = Elsewhere
      BY <1>0, <2>1, <2>4, <3>1 DEF CountInv, Dropping, At, Elsewhere
    <3>5. Restoring' <=> Restoring
      BY <1>0, <2>1, <2>2 DEF Restoring, At, In
    <3>6. ~Booked' /\ ~Dropping' /\ ~(Closing \/ At(Cycle, "drop"))' /\ At(Fast, "idle")'
      BY <1>0, <2>1, <2>2, <3>1, <3>2, <3>3 DEF Booked, Dropping, Closing, At, In, AtLeg
    <3>7. DaysPass' /\ FastIsApart(scene)'
      BY <1>0, <2>1, <2>2, <2>4 DEF CountInv, DaysPass, FastIsApart
    <3> QED BY <2>1, <2>3, <2>4, <3>4, <3>5, <3>6, <3>7 DEF CountInv
  <2>5. ASSUME StopInv, restarts = 0 PROVE StopInv'
    <3>1. gtt' = {}
      BY <1>0, <2>1, <2>5 DEF StopInv, Dropping, At
    <3>2. ~Restoring'
      BY <1>0, <2>1, <2>2, <2>5 DEF Restoring, StopInv, At, In
    <3>3. (In(Cycle, "squareoff"))' => clock' # "open"
      BY <1>0, <2>1, <2>2, <2>5 DEF StopInv, In
    <3>4. ~At(Fast, "idle")' => clock' # "open" /\ (At(Cycle, "idle") \/ In(Cycle, "squareoff"))'
      BY <1>0, <2>1, <2>2, <2>5 DEF StopInv, In, At, Closing
    <3> QED BY <2>1, <2>3, <3>1, <3>2, <3>3, <3>4 DEF StopInv, In
  <2> QED BY <2>1, <2>4, <2>5 DEF StopInv
<1>4. ASSUME NEW kind, ExitPartly(kind, p) PROVE (CountInv => CountInv') /\ (StopInv => StopInv')
  <2>1. /\ run[p].pc = "scan" /\ run[p].mode = "exit" /\ Leave(p)
        /\ UNCHANGED <<deployed, scene, dte, clock, restarts, nights>>
        /\ gtt' = gtt \ (run[p].ok \cap struct.stops)
    BY <1>4 DEF ExitPartly, WalkDone, CancelStops, At, In, worldVars
  <2>2. /\ struct'.tracked = struct.tracked /\ struct'.done = struct.done \cup run[p].ok
        /\ struct'.stops = struct.stops \ run[p].ok
    BY <1>4, MemoryIs DEF ExitPartly, Typed, TypeOK, Structs
  <2>3. /\ run'[p].pc = IF p = Cycle THEN "entries" ELSE "idle"
        /\ run'[p].mode = "exit" /\ ~run'[p].due
        /\ \A q \in Procs \ {p} : run'[q] = run[q]
    BY <2>1, LeaveIs DEF In
  <2>4. CountInv => CountInv'
    BY <1>0, <2>1, <2>2, <2>3 DEF CountInv, DaysPass, FastIsApart, Restoring, Booked, Dropping, Closing, At, In, AtLeg
  <2>5. StopInv => StopInv'
    BY <1>0, <2>1, <2>2, <2>3 DEF StopInv, Restoring, Dropping, At, In, Closing
  <2> QED BY <2>4, <2>5
<1>5. ASSUME NEW kind, ExitFully(kind, p) PROVE (CountInv => CountInv') /\ (StopInv => StopInv')
  <2>1. /\ run[p].pc = "scan" /\ run[p].mode = "exit" /\ Goto(p, "drop")
        /\ deployed' = Released
        /\ UNCHANGED <<struct, scene, dte, clock, restarts, nights>>
        /\ gtt' = gtt \ (Legs \cap struct.stops)
    BY <1>5 DEF ExitFully, WalkDone, CancelStops, At, In, worldVars, memoryVars
  <2>2. /\ run'[p].pc = "drop" /\ run'[p].mode = "exit" /\ run'[p].due = run[p].due
        /\ \A q \in Procs \ {p} : run'[q] = run[q]
    BY <2>1, GotoIs
  <2>3. ASSUME CountInv PROVE CountInv'
    <3>1. struct.tracked /\ ~Booked
      BY <1>0, <2>1, <2>3 DEF CountInv, Closing, At, In
    <3>2. p = Cycle => At(Fast, "idle")
      BY <2>1, <2>3 DEF CountInv, Closing, At, In
    <3>3. p = Fast => ~At(Cycle, "drop") /\ ~Closing
      BY <2>1, <2>3 DEF CountInv, DaysPass, FastIsApart, Closing, At, In
    <3>4. ~Restoring /\ ~Dropping
      BY <1>0, <2>1, <2>3, <3>2, <3>3 DEF CountInv, Restoring, Dropping, FastIsApart, At, In
    <3>5. deployed' = Elsewhere
      BY <2>1, <2>3, <3>1, <3>4 DEF CountInv, Released, Elsewhere
    <3>6. Dropping' /\ ~Booked'
      BY <1>0, <2>2, <3>1 DEF Dropping, Booked, At
    <3>7. DaysPass' /\ FastIsApart(scene)' /\ ~Restoring'
      BY <1>0, <2>1, <2>2, <2>3, <3>4 DEF CountInv, DaysPass, FastIsApart, Restoring, In
    <3>8. run'[Cycle].mode = run[Cycle].mode
          /\ (~At(Fast, "idle")' => ~At(Fast, "idle"))
      BY <1>0, <2>1, <2>2 DEF At
    <3> QED BY <2>1, <2>3, <3>1, <3>5, <3>6, <3>7, <3>8 DEF CountInv, Elsewhere, At
  <2>4. ASSUME StopInv, restarts = 0 PROVE StopInv'
    <3>1. gtt' = {}
      <4>1. ~struct.tracked => ~At(Cycle, "track")
        BY <1>0, <2>1, <2>4 DEF StopInv, Booked, At, In
      <4>2. ~struct.tracked => gtt = {}
        BY <2>4, <4>1 DEF StopInv
      <4>3. struct.tracked => gtt \subseteq struct.stops
        BY <2>4 DEF StopInv
      <4> QED BY <2>1, <4>2, <4>3
    <3>2. ~Restoring'
      BY <1>0, <2>1, <2>2, <2>4 DEF Restoring, StopInv, At, In
    <3>3. run'[Cycle].mode = run[Cycle].mode
          /\ (~At(Fast, "idle")' => ~At(Fast, "idle"))
          /\ (At(Cycle, "idle") => At(Cycle, "idle")')
      BY <1>0, <2>1, <2>2 DEF At
    <3> QED BY <2>1, <2>4, <3>1, <3>2, <3>3 DEF StopInv, In
  <2> QED BY <2>1, <2>3, <2>4 DEF StopInv
<1> QED BY <1>1, <1>2, <1>3, <1>4, <1>5
        DEF ExitStep, SpreadExitPartly, CondorExitPartly, SpreadExitFully, CondorExitFully

LEMMA SquareOffKeeps ==
    ASSUME Typed, SquareOffStep
    PROVE  (CountInv => CountInv') /\ (StopInv => StopInv')
<1> USE TheyAre, ProcsAre
<1>1. CASE SquareOff
  <2> DEFINE legs(positions) == IF struct.tracked /\ ~EndsToday THEN {}
                                ELSE {l \in Legs : positions.qty[l] # 0}
  <2>1. /\ run[Cycle].pc = "idle" /\ clock = "squareoff"
        /\ UNCHANGED <<struct, gtt, deployed, scene, dte, clock, restarts, nights>>
    BY <1>1 DEF SquareOff, At, brokerVars, engineVars, memoryVars, worldVars
  <2>2. /\ run'[Cycle].pc = "scan" /\ run'[Cycle].mode = "squareoff"
        /\ run'[Cycle].due = EndsToday /\ run'[Fast] = run[Fast]
    <3>1. PICK positions \in Positions :
            Become(Cycle, [Idle EXCEPT
                !.pc = "scan", !.mode = "squareoff", !.due = EndsToday,
                !.known = positions.known, !.qty = positions.qty, !.todo = legs(positions)])
      BY <1>1 DEF SquareOff
    <3> DEFINE r == [Idle EXCEPT
                !.pc = "scan", !.mode = "squareoff", !.due = EndsToday,
                !.known = positions.known, !.qty = positions.qty, !.todo = legs(positions)]
    <3>2. r.pc = "scan" /\ r.mode = "squareoff" /\ r.due = EndsToday
      BY IdleIs DEF Locals
    <3>3. Become(Cycle, r)
      BY <3>1
    <3> HIDE DEF r
    <3> QED BY <3>2, <3>3, Becomes
  <2>3. CountInv => CountInv'
    BY <2>1, <2>2 DEF CountInv, DaysPass, FastIsApart, Restoring, Booked, Dropping, Closing, At, In, AtLeg, Between, EndsToday
  <2>4. StopInv => StopInv'
    BY <2>1, <2>2 DEF StopInv, Restoring, Dropping, At, In
  <2> QED BY <2>3, <2>4
<1>2. ASSUME NEW kind, SquareOffStructure(kind) PROVE (CountInv => CountInv') /\ (StopInv => StopInv')
  <2>1. /\ run[Cycle].pc = "scan" /\ run[Cycle].mode = "squareoff" /\ Goto(Cycle, "drop")
        /\ run[Cycle].due /\ struct.tracked /\ deployed' = Released
        /\ UNCHANGED <<struct, scene, dte, clock, restarts, nights>>
        /\ gtt' = gtt \ (Legs \cap struct.stops)
    BY <1>2 DEF SquareOffStructure, WalkDone, CancelStops, At, In, worldVars, memoryVars
  <2>2. /\ run'[Cycle].pc = "drop" /\ run'[Cycle].mode = "squareoff" /\ run'[Cycle].due
        /\ run'[Fast] = run[Fast]
    BY <2>1, GotoIs
  <2>3. ASSUME CountInv PROVE CountInv'
    <3>1. At(Fast, "idle") /\ ~Booked /\ ~Restoring /\ ~Dropping
      BY <2>1, <2>3 DEF CountInv, DaysPass, FastIsApart, Booked, Restoring, Dropping, At, In
    <3>2. deployed' = Elsewhere
      BY <2>1, <2>3, <3>1 DEF CountInv, Released, Elsewhere
    <3>3. Dropping' /\ ~Booked' /\ ~Restoring' /\ DaysPass' /\ FastIsApart(scene)' /\ At(Fast, "idle")'
      BY <2>1, <2>2, <2>3, <3>1 DEF CountInv, DaysPass, FastIsApart, Booked, Restoring, Dropping, At
    <3> QED BY <2>1, <2>2, <2>3, <3>2, <3>3 DEF CountInv, Elsewhere
  <2>4. ASSUME StopInv, restarts = 0 PROVE StopInv'
    <3>1. gtt' = {}
      BY <2>1, <2>4 DEF StopInv
    <3> QED BY <2>1, <2>2, <2>4, <3>1 DEF StopInv, Restoring, In, At
  <2> QED BY <2>1, <2>3, <2>4 DEF StopInv
<1>3. CASE SquareOffDone
  <2>1. /\ run[Cycle].pc = "scan" /\ run[Cycle].mode = "squareoff" /\ Become(Cycle, Idle)
        /\ UNCHANGED <<struct, gtt, deployed, scene, dte, clock, restarts, nights>>
    BY <1>3 DEF SquareOffDone, WalkDone, At, In, brokerVars, memoryVars, worldVars
  <2>2. /\ run'[Cycle].pc = "idle" /\ run'[Cycle].mode = "exit" /\ ~run'[Cycle].due
        /\ run'[Fast] = run[Fast]
    BY <2>1, EndIs DEF Between
  <2>3. CountInv => CountInv'
    BY <2>1, <2>2 DEF CountInv, DaysPass, FastIsApart, Restoring, Booked, Dropping, Closing, At, In, AtLeg
  <2>4. StopInv => StopInv'
    BY <2>1, <2>2 DEF StopInv, Restoring, Dropping, At, In
  <2> QED BY <2>3, <2>4
<1> QED BY <1>1, <1>2, <1>3 DEF SquareOffStep, SquareOffSpread, SquareOffCondor

LEMMA EntryKeeps ==
    ASSUME Typed, EntryStep
    PROVE  (CountInv => CountInv') /\ (StopInv => StopInv')
<1> USE TheyAre, ProcsAre
<1>1. CASE NoEntry
  <2>1. /\ run[Cycle].pc = "entries" /\ Become(Cycle, Idle)
        /\ UNCHANGED <<struct, gtt, deployed, scene, dte, clock, restarts, nights>>
    BY <1>1 DEF NoEntry, At, brokerVars, engineVars, memoryVars, worldVars
  <2>2. /\ run'[Cycle].pc = "idle" /\ run'[Cycle].mode = "exit" /\ ~run'[Cycle].due
        /\ run'[Fast] = run[Fast]
    BY <2>1, EndIs DEF Between
  <2>3. CountInv => CountInv'
    BY <2>1, <2>2 DEF CountInv, DaysPass, FastIsApart, Restoring, Booked, Dropping, Closing, At, In, AtLeg, Between
  <2>4. StopInv => StopInv'
    BY <2>1, <2>2 DEF StopInv, Restoring, Dropping, At, In
  <2> QED BY <2>3, <2>4
<1>2. CASE Enter
  <2>1. /\ run[Cycle].pc = "entries" /\ ~struct.tracked /\ gtt = {} /\ dte' = "far"
        /\ Walk(Cycle, "entry", Legs, NoPositions)
        /\ UNCHANGED <<struct, gtt, deployed, scene, clock, restarts, nights>>
    BY <1>2 DEF Enter, At, brokerVars, engineVars, memoryVars
  <2>2. /\ run'[Cycle].pc = "scan" /\ run'[Cycle].mode = "entry" /\ ~run'[Cycle].due
        /\ run'[Fast] = run[Fast]
    BY <2>1, WalkIs
  <2>3. CountInv => CountInv'
    BY <2>1, <2>2 DEF CountInv, DaysPass, FastIsApart, Restoring, Booked, Dropping, Closing, At, In, AtLeg, Between
  <2>4. StopInv => StopInv'
    BY <2>1, <2>2 DEF StopInv, Restoring, Dropping, At, In, Between
  <2> QED BY <2>3, <2>4
<1>3. ASSUME NEW l \in Legs, PlaceLeg(l) PROVE (CountInv => CountInv') /\ (StopInv => StopInv')
  <2>1. /\ run[Cycle].pc = "scan" /\ run[Cycle].mode = "entry"
        /\ UNCHANGED <<struct, gtt, deployed, scene, dte, clock, restarts, nights>>
    BY <1>3 DEF PlaceLeg, IsNext, At, In, brokerVars, engineVars, memoryVars, worldVars
  <2>2. /\ run'[Cycle].pc = "sent" /\ run'[Cycle].mode = "entry" /\ run'[Cycle].due = run[Cycle].due
        /\ run'[Fast] = run[Fast]
    <3> DEFINE r == [run[Cycle] EXCEPT !.at = l, !.pc = "sent"]
    <3>1. Become(Cycle, r) /\ r.pc = "sent" /\ r.mode = "entry" /\ r.due = run[Cycle].due
      BY <1>3, <2>1, LocalsAre DEF PlaceLeg, Locals
    <3> HIDE DEF r
    <3> QED BY <3>1, Becomes
  <2>3. CountInv => CountInv'
    BY <2>1, <2>2 DEF CountInv, DaysPass, FastIsApart, Restoring, Booked, Dropping, Closing, At, In, AtLeg
  <2>4. StopInv => StopInv'
    BY <2>1, <2>2 DEF StopInv, Restoring, Dropping, At, In
  <2> QED BY <2>3, <2>4
<1>4. ASSUME run[Cycle].pc \in {"scan"} \cup AtLeg, In(Cycle, "entry"), Unwind,
             UNCHANGED <<struct, gtt, deployed, scene, dte, clock, restarts, nights>>
      PROVE  (CountInv => CountInv') /\ (StopInv => StopInv')
  <2>1. /\ run'[Cycle].pc = "scan" /\ run'[Cycle].mode = "unwind" /\ ~run'[Cycle].due
        /\ run'[Fast] = run[Fast]
    BY <1>4, WalkIs DEF Unwind
  <2>2. CountInv => CountInv'
    BY <1>4, <2>1 DEF CountInv, DaysPass, FastIsApart, Restoring, Booked, Dropping, Closing, At, In, AtLeg
  <2>3. StopInv => StopInv'
    BY <1>4, <2>1 DEF StopInv, Restoring, Dropping, At, In, AtLeg
  <2> QED BY <2>2, <2>3
<1>5. ASSUME NEW l \in Legs, LegRefused(l) PROVE (CountInv => CountInv') /\ (StopInv => StopInv')
  <2>1. /\ run[Cycle].pc = "scan" /\ In(Cycle, "entry") /\ Unwind
        /\ UNCHANGED <<struct, gtt, deployed, scene, dte, clock, restarts, nights>>
    BY <1>5 DEF LegRefused, IsNext, At, brokerVars, worldVars
  <2> QED BY <1>4, <2>1
<1>6. ASSUME NEW kind, LegNotTaken(kind) PROVE (CountInv => CountInv') /\ (StopInv => StopInv')
  <2>1. /\ run[Cycle].pc \in AtLeg /\ In(Cycle, "entry") /\ Unwind
        /\ UNCHANGED <<struct, gtt, deployed, scene, dte, clock, restarts, nights>>
    BY <1>6 DEF LegNotTaken, EntrySent, At, AtLeg, engineVars, memoryVars, worldVars
  <2> QED BY <1>4, <2>1
<1>7. ASSUME NEW kind, LegTaken(kind) PROVE (CountInv => CountInv') /\ (StopInv => StopInv')
  <2>1. /\ run[Cycle].pc = "sent" /\ run[Cycle].mode = "entry" /\ Onward(Cycle, run[Cycle].at, TRUE)
        /\ UNCHANGED <<struct, gtt, deployed, scene, dte, clock, restarts, nights>>
    BY <1>7 DEF LegTaken, EntrySent, At, In, engineVars, memoryVars, worldVars
  <2>2. run[Cycle].at \in AllLegs
    BY <2>1, LotsTyped DEF AtLeg
  <2>3. /\ run'[Cycle].pc = "scan" /\ run'[Cycle].mode = "entry" /\ run'[Cycle].due = run[Cycle].due
        /\ run'[Fast] = run[Fast]
    BY <2>1, <2>2, OnwardIs
  <2>4. CountInv => CountInv'
    BY <2>1, <2>3 DEF CountInv, DaysPass, FastIsApart, Restoring, Booked, Dropping, Closing, At, In, AtLeg
  <2>5. StopInv => StopInv'
    BY <2>1, <2>3 DEF StopInv, Restoring, Dropping, At, In
  <2> QED BY <2>4, <2>5
<1>8. CASE UnwindDone
  <2>1. /\ run[Cycle].pc = "scan" /\ run[Cycle].mode = "unwind" /\ Become(Cycle, Idle)
        /\ UNCHANGED <<struct, gtt, deployed, scene, dte, clock, restarts, nights>>
    BY <1>8 DEF UnwindDone, WalkDone, At, In, brokerVars, worldVars
  <2>2. /\ run'[Cycle].pc = "idle" /\ run'[Cycle].mode = "exit" /\ ~run'[Cycle].due
        /\ run'[Fast] = run[Fast]
    BY <2>1, EndIs DEF Between
  <2>3. CountInv => CountInv'
    BY <2>1, <2>2 DEF CountInv, DaysPass, FastIsApart, Restoring, Booked, Dropping, Closing, At, In, AtLeg, Between
  <2>4. StopInv => StopInv'
    BY <2>1, <2>2 DEF StopInv, Restoring, Dropping, At, In
  <2> QED BY <2>3, <2>4
<1>9. ASSUME NEW kind, Book(kind) PROVE (CountInv => CountInv') /\ (StopInv => StopInv')
  <2>1. /\ run[Cycle].pc = "scan" /\ run[Cycle].mode = "entry" /\ Goto(Cycle, "booked")
        /\ deployed' = deployed + 1
        /\ UNCHANGED <<struct, gtt, scene, dte, clock, restarts, nights>>
    BY <1>9 DEF Book, WalkDone, At, In, brokerVars, worldVars
  <2>2. /\ run'[Cycle].pc = "booked" /\ run'[Cycle].mode = "entry" /\ run'[Cycle].due = run[Cycle].due
        /\ run'[Fast] = run[Fast]
    BY <2>1, GotoIs
  <2>3. ASSUME CountInv PROVE CountInv'
    <3>1. ~struct.tracked /\ ~Restoring /\ ~Booked
      BY <2>1, <2>3 DEF CountInv, Restoring, Booked, At
    <3>2. deployed' = Elsewhere + 1
      BY <2>1, <2>3, <3>1 DEF CountInv, Elsewhere
    <3>3. Booked' /\ DaysPass' /\ FastIsApart(scene)' /\ ~Closing' /\ ~At(Cycle, "drop")'
      BY <2>1, <2>2, <2>3 DEF CountInv, DaysPass, FastIsApart, Booked, Closing, At, In
    <3>4. ~Restoring' /\ (At(Fast, "idle")' <=> At(Fast, "idle"))
      BY <2>2, <3>1 DEF Restoring, At
    <3> QED BY <2>1, <2>2, <2>3, <3>1, <3>2, <3>3, <3>4 DEF CountInv
  <2>4. StopInv => StopInv'
    BY <2>1, <2>2 DEF StopInv, Restoring, Dropping, At, In
  <2> QED BY <2>3, <2>4
<1>10. CASE PlaceStops
  <2>1. PICK stops \in {{}, Shorts} :
            gtt' = gtt \cup stops /\ Become(Cycle, [run[Cycle] EXCEPT !.pc = "track", !.ok = stops])
    BY <1>10 DEF PlaceStops
  <2>2. run[Cycle].pc = "booked" /\ UNCHANGED <<struct, deployed, scene, dte, clock, restarts, nights>>
    BY <1>10 DEF PlaceStops, At, engineVars, memoryVars, worldVars
  <2>3. run[Cycle].mode = "entry"
    BY <2>2 DEF Booked, In
  <2>4. /\ run'[Cycle].pc = "track" /\ run'[Cycle].mode = "entry" /\ run'[Cycle].due = run[Cycle].due
        /\ run'[Cycle].ok = stops /\ run'[Fast] = run[Fast]
    <3> DEFINE r == [run[Cycle] EXCEPT !.pc = "track", !.ok = stops]
    <3>1. Become(Cycle, r) /\ r.pc = "track" /\ r.mode = "entry" /\ r.due = run[Cycle].due /\ r.ok = stops
      BY <2>1, <2>3, LocalsAre DEF Locals
    <3> HIDE DEF r
    <3> QED BY <3>1, Becomes
  <2>5. CountInv => CountInv'
    BY <2>2, <2>3, <2>4 DEF CountInv, DaysPass, FastIsApart, Restoring, Booked, Dropping, Closing, At, In, AtLeg
  <2>6. ASSUME StopInv, restarts = 0 PROVE StopInv'
    <3>1. ~struct.tracked /\ gtt = {} /\ ~Dropping
      BY <2>2, <2>3, <2>6 DEF StopInv, Dropping, At, In
    <3> QED BY <2>1, <2>2, <2>3, <2>4, <2>6, <3>1 DEF StopInv, Restoring, Dropping, At, In
  <2> QED BY <2>2, <2>5, <2>6 DEF StopInv
<1>11. ASSUME NEW kind, Track(kind) PROVE (CountInv => CountInv') /\ (StopInv => StopInv')
  <2>1. /\ struct' = [NoStruct EXCEPT !.tracked = TRUE, !.stops = run[Cycle].ok]
        /\ run[Cycle].pc = "track" /\ Become(Cycle, Idle)
        /\ UNCHANGED <<gtt, deployed, scene, dte, clock, restarts, nights>>
    BY <1>11 DEF Track, At, brokerVars, worldVars
  <2>2. struct'.tracked /\ struct'.stops = run[Cycle].ok /\ struct'.done = {}
    BY <2>1 DEF NoStruct
  <2>3. /\ run'[Cycle].pc = "idle" /\ run'[Cycle].mode = "exit" /\ ~run'[Cycle].due
        /\ run'[Fast] = run[Fast]
    BY <2>1, EndIs DEF Between
  <2>4. run[Cycle].mode = "entry"
    BY <2>1 DEF Booked, In
  <2>5. ASSUME CountInv PROVE CountInv'
    <3>1. ~struct.tracked /\ At(Fast, "idle") /\ Booked
      BY <2>1, <2>4, <2>5 DEF CountInv, Booked
    <3> QED BY <2>1, <2>2, <2>3, <2>4, <2>5, <3>1
            DEF CountInv, DaysPass, FastIsApart, Restoring, Booked, Dropping, Closing, At, In, AtLeg
  <2>6. ASSUME StopInv, restarts = 0 PROVE StopInv'
    <3>1. ~struct.tracked /\ gtt \subseteq run[Cycle].ok /\ At(Fast, "idle")
      BY <2>1, <2>4, <2>6 DEF StopInv, At, In
    <3> QED BY <2>1, <2>2, <2>3, <2>6, <3>1 DEF StopInv, Restoring, Dropping, At, In
  <2> QED BY <2>1, <2>5, <2>6 DEF StopInv
<1> QED BY <1>1, <1>2, <1>3, <1>5, <1>6, <1>7, <1>8, <1>9, <1>10, <1>11
        DEF EntryStep, SpreadLegTaken, CondorLegTaken, SpreadLegNotTaken, CondorLegNotTaken,
            BookSpread, BookCondor, TrackSpread, TrackCondor

LEMMA RestoreKeeps ==
    ASSUME Typed, RestoreStep
    PROVE  (CountInv => CountInv') /\ (StopInv => StopInv')
<1> USE TheyAre, ProcsAre
<1>0. ASSUME Restoring, restarts' = restarts PROVE StopInv => StopInv'
  BY <1>0 DEF StopInv
<1>1. ASSUME CountInv, Restoring PROVE At(Fast, "idle")
  BY <1>1 DEF CountInv
<1>2. CASE FindOrphans
  <2>1. /\ run[Cycle].pc = "restore"
        /\ UNCHANGED <<struct, deployed, scene, dte, clock, restarts, nights>>
    BY <1>2 DEF FindOrphans, At, engineVars, memoryVars, worldVars
  <2>2. run'[Cycle].pc = "scan" /\ run'[Cycle].mode = "orphan" /\ ~run'[Cycle].due /\ run'[Fast] = run[Fast]
    BY <1>2, WalkIs DEF FindOrphans
  <2>3. Restoring
    BY <2>1 DEF Restoring
  <2>4. CountInv => CountInv'
    BY <1>1, <2>1, <2>2, <2>3 DEF CountInv, DaysPass, Restoring, Closing, At, In
  <2> QED BY <1>0, <2>1, <2>3, <2>4
<1>3. CASE OrphansDone
  <2>1. /\ run[Cycle].mode = "orphan" /\ Become(Cycle, [Idle EXCEPT !.pc = "rebuild"])
        /\ UNCHANGED <<struct, deployed, scene, dte, clock, restarts, nights>>
    BY <1>3 DEF OrphansDone, WalkDone, In, engineVars, memoryVars, worldVars
  <2>2. run'[Cycle].pc = "rebuild" /\ run'[Cycle].mode = "exit" /\ ~run'[Cycle].due /\ run'[Fast] = run[Fast]
    BY <2>1, EndIs DEF Between
  <2>3. Restoring
    BY <2>1 DEF Restoring
  <2>4. CountInv => CountInv'
    BY <1>1, <2>1, <2>2, <2>3 DEF CountInv, DaysPass, Restoring, Closing, At, In, AtLeg
  <2> QED BY <1>0, <2>1, <2>3, <2>4
<1>4. CASE FindHalfClosed
  <2>1. /\ run[Cycle].pc = "rebuild"
        /\ UNCHANGED <<struct, deployed, scene, dte, clock, restarts, nights>>
    BY <1>4 DEF FindHalfClosed, At, engineVars, memoryVars, worldVars
  <2>2. Restoring /\ run[Cycle].mode = "exit" /\ ~run[Cycle].due
    BY <2>1 DEF Restoring, Between, In
  <2>3. /\ ~run'[Cycle].due /\ run'[Fast] = run[Fast]
        /\ \/ run'[Cycle].pc = "scan" /\ run'[Cycle].mode = "flatten"
           \/ run'[Cycle].pc = "restored" /\ run'[Cycle].mode = "exit"
    <3>1. CASE Goto(Cycle, "restored")
      BY <2>2, <3>1, GotoIs
    <3>2. CASE ~Goto(Cycle, "restored")
      BY <1>4, <3>2, WalkIs DEF FindHalfClosed
    <3> QED BY <3>1, <3>2
  <2>4. CountInv => CountInv'
    BY <1>1, <2>1, <2>2, <2>3 DEF CountInv, DaysPass, Restoring, Closing, At, In, AtLeg
  <2> QED BY <1>0, <2>1, <2>2, <2>4
<1>5. ASSUME NEW kind, HalfClosedDone(kind) PROVE (CountInv => CountInv') /\ (StopInv => StopInv')
  <2>1. /\ run[Cycle].mode = "flatten" /\ Become(Cycle, [Idle EXCEPT !.pc = "restored"])
        /\ UNCHANGED <<deployed, scene, dte, clock, restarts, nights>>
    BY <1>5 DEF HalfClosedDone, WalkDone, In, worldVars
  <2>2. run'[Cycle].pc = "restored" /\ run'[Cycle].mode = "exit" /\ ~run'[Cycle].due /\ run'[Fast] = run[Fast]
    BY <2>1, EndIs DEF Between
  <2>3. Restoring
    BY <2>1 DEF Restoring
  <2>4. CountInv => CountInv'
    BY <1>1, <2>1, <2>2, <2>3 DEF CountInv, DaysPass, FastIsApart, Restoring, Closing, At, In, AtLeg
  <2> QED BY <1>0, <2>1, <2>3, <2>4
<1>6. CASE Restored
  <2>1. /\ run[Cycle].pc = "restored" /\ Become(Cycle, Idle)
        /\ deployed' = Elsewhere + (IF struct.tracked THEN 1 ELSE 0)
        /\ UNCHANGED <<struct, scene, dte, clock, restarts, nights>>
    BY <1>6 DEF Restored, At, memoryVars, worldVars
  <2>2. run'[Cycle].pc = "idle" /\ run'[Cycle].mode = "exit" /\ ~run'[Cycle].due /\ run'[Fast] = run[Fast]
    BY <2>1, EndIs DEF Between
  <2>3. Restoring
    BY <2>1 DEF Restoring
  <2>4. ASSUME CountInv PROVE CountInv'
    <3>1. ~Restoring' /\ ~Booked' /\ ~Dropping' /\ ~Closing' /\ At(Fast, "idle")'
      BY <1>1, <2>2, <2>3, <2>4 DEF Restoring, Booked, Dropping, Closing, At, AtLeg
    <3> QED BY <2>1, <2>2, <2>4, <3>1 DEF CountInv, DaysPass, FastIsApart, At
  <2> QED BY <1>0, <2>1, <2>3, <2>4
<1> QED BY <1>2, <1>3, <1>4, <1>5, <1>6 DEF RestoreStep, HalfSpreadDone, HalfCondorDone

\* What the accounts and the stop orders are read from.
LEMMA NothingMoves ==
    ASSUME UNCHANGED <<struct, gtt, deployed, run, scene, dte, clock, restarts, nights>>
    PROVE  (CountInv => CountInv') /\ (StopInv => StopInv')
BY DEF CountInv, StopInv, DaysPass, FastIsApart, Restoring, Booked, Dropping, Closing, At, In

LEMMA OutsideKeeps ==
    ASSUME Typed,
           \/ StartCycle \/ TakeLock \/ FastJob \/ LateInTheDay \/ NextDay \/ Crash
           \/ \E l \in Shorts : StopFires(l)
    PROVE  (CountInv => CountInv') /\ (StopInv => StopInv')
<1> USE TheyAre, ProcsAre
<1>1. CASE StartCycle
  <2>1. /\ run[Cycle].pc = "idle" /\ clock = "open" /\ Goto(Cycle, "verify")
        /\ UNCHANGED <<struct, gtt, deployed, scene, dte, clock, restarts, nights>>
    BY <1>1 DEF StartCycle, At, brokerVars, engineVars, memoryVars, worldVars
  <2>2. run'[Cycle].pc = "verify" /\ run'[Cycle].mode = "exit" /\ ~run'[Cycle].due /\ run'[Fast] = run[Fast]
    BY <2>1, GotoIs DEF Between, In
  <2>3. CountInv => CountInv'
    BY <2>1, <2>2 DEF CountInv, DaysPass, FastIsApart, Restoring, Booked, Dropping, Closing, At, In, AtLeg, Between
  <2>4. StopInv => StopInv'
    BY <2>1, <2>2 DEF StopInv, Restoring, Dropping, At, In
  <2> QED BY <2>3, <2>4
<1>2. CASE TakeLock
  <2>1. /\ run[Cycle].pc = "verify" /\ Goto(Cycle, "check") /\ lock = NoOne
        /\ UNCHANGED <<struct, gtt, deployed, scene, dte, clock, restarts, nights>>
    BY <1>2 DEF TakeLock, At, brokerVars, engineVars, memoryVars, worldVars
  <2>2. run'[Cycle].pc = "check" /\ run'[Cycle].mode = "exit" /\ ~run'[Cycle].due /\ run'[Fast] = run[Fast]
    BY <2>1, GotoIs DEF Between, In
  <2>3. At(Fast, "idle")
    BY <2>1 DEF At
  <2>4. CountInv => CountInv'
    BY <2>1, <2>2, <2>3 DEF CountInv, DaysPass, FastIsApart, Restoring, Booked, Dropping, Closing, At, In, AtLeg, Between
  <2>5. StopInv => StopInv'
    BY <2>1, <2>2, <2>3 DEF StopInv, Restoring, Dropping, At, In
  <2> QED BY <2>4, <2>5
<1>3. CASE FastJob
  <2>1. /\ run[Fast].pc = "idle" /\ Goto(Fast, "check") /\ lock = NoOne
        /\ "fast" \in scene.may /\ struct.tracked /\ ~Restoring
        /\ UNCHANGED <<struct, gtt, deployed, scene, dte, clock, restarts, nights>>
    BY <1>3 DEF FastJob, May, At, brokerVars, engineVars, memoryVars, worldVars
  <2>2. run'[Fast].pc = "check" /\ run'[Cycle] = run[Cycle]
    BY <2>1, GotoIs
  <2>3. CountInv => CountInv'
    BY <2>1, <2>2 DEF CountInv, DaysPass, FastIsApart, Restoring, Booked, Dropping, Closing, At, In
  <2>4. StopInv => StopInv'
    BY <2>1, <2>2 DEF StopInv, Restoring, Dropping, At, In
  <2> QED BY <2>3, <2>4
<1>4. CASE LateInTheDay
  <2>1. /\ clock' # "open"
        /\ UNCHANGED <<struct, gtt, deployed, run, scene, dte, restarts, nights>>
    BY <1>4 DEF LateInTheDay, brokerVars, engineVars, memoryVars
  <2>2. CountInv => CountInv'
    BY <2>1 DEF CountInv, DaysPass, FastIsApart, Restoring, Booked, Dropping, Closing, At, In
  <2>3. StopInv => StopInv'
    BY <2>1 DEF StopInv, Restoring, Dropping, At, In
  <2> QED BY <2>2, <2>3
<1>5. CASE NextDay
  <2>1. /\ run[Cycle].pc = "idle" /\ run[Fast].pc = "idle" /\ nights' = nights + 1
        /\ deployed' = Elsewhere + (IF struct.tracked THEN 1 ELSE 0)
        /\ UNCHANGED <<struct, run, scene, restarts>>
        /\ gtt' \subseteq gtt
    BY <1>5 DEF NextDay, Quiet
  <2>2. DaysPass => DaysPass'
    <3>1. ~run'[Cycle].due
      BY <2>1 DEF Between
    <3>2. DaysPass => (dte' = "near" => nights' >= 1) /\ (dte' = "last" => nights' >= 2)
      <4>1. \/ dte = "far" /\ dte' \in {"far", "near"}
            \/ dte = "near" /\ dte' \in {"near", "last"}
            \/ dte = "last" /\ dte' = dte
        BY <1>5 DEF NextDay
      <4> QED BY <2>1, <4>1 DEF DaysPass
    <3> QED BY <3>1, <3>2 DEF DaysPass
  <2>3. ~Booked' /\ ~Dropping' /\ ~Closing' /\ ~At(Cycle, "drop")' /\ At(Fast, "idle")'
        /\ At(Cycle, "idle")' /\ (Restoring' <=> Restoring)
    BY <2>1 DEF Booked, Dropping, Closing, At, AtLeg, Restoring
  <2>4. run'[Cycle].mode = "exit"
    BY <2>1 DEF Between, In
  <2>5. CountInv => CountInv'
    BY <2>1, <2>2, <2>3, <2>4 DEF CountInv, FastIsApart
  <2>6. StopInv => StopInv'
    BY <2>1, <2>3, <2>4 DEF StopInv, In, At
  <2> QED BY <2>5, <2>6
<1>6. CASE Crash
  <2>1. /\ restarts' = restarts + 1 /\ UNCHANGED <<scene, dte, clock, nights>>
        /\ run' = [p \in Procs |-> IF p = Cycle THEN [Idle EXCEPT !.pc = "restore"] ELSE Idle]
    BY <1>6 DEF Crash
  <2>2. run'[Cycle] = [Idle EXCEPT !.pc = "restore"] /\ run'[Fast] = Idle
    BY <2>1
  <2>3. /\ run'[Cycle].pc = "restore" /\ run'[Cycle].mode = "exit" /\ ~run'[Cycle].due
        /\ run'[Fast].pc = "idle"
    BY <2>2, IdleIs, BetweenTyped DEF Fresh, Between
  <2>4. restarts' > 0
    BY <2>1
  <2>5. CountInv => CountInv'
    BY <2>1, <2>3, <2>4 DEF CountInv, DaysPass, FastIsApart, Restoring, Closing, At, In, AtLeg
  <2>6. StopInv'
    BY <2>4 DEF StopInv
  <2> QED BY <2>5, <2>6
<1>7. ASSUME NEW l \in Shorts, StopFires(l) PROVE (CountInv => CountInv') /\ (StopInv => StopInv')
  <2>1. /\ gtt' \subseteq gtt
        /\ UNCHANGED <<struct, deployed, run, scene, dte, clock, restarts, nights>>
    BY <1>7 DEF StopFires, engineVars, memoryVars, worldVars
  <2>2. CountInv => CountInv'
    BY <2>1 DEF CountInv, DaysPass, FastIsApart, Restoring, Booked, Dropping, Closing, At, In
  <2>3. StopInv => StopInv'
    BY <2>1 DEF StopInv, Restoring, Dropping, At, In
  <2> QED BY <2>2, <2>3
<1> QED BY <1>1, <1>2, <1>3, <1>4, <1>5, <1>6, <1>7

LEMMA AccountsInit == Init => (FastIsApart(scene) => CountInv) /\ StopInv
<1> SUFFICES ASSUME Init PROVE (FastIsApart(scene) => CountInv) /\ StopInv
  OBVIOUS
<1>1. /\ run[Cycle].pc = "idle" /\ run[Cycle].mode = "exit" /\ ~run[Cycle].due /\ run[Fast].pc = "idle"
      /\ dte = "far" /\ restarts = 0 /\ gtt = {} /\ deployed = Elsewhere /\ ~struct.tracked
  BY IdleIs, ProcsAre, BlanksAre DEF Init, Fresh
<1>2. FastIsApart(scene) => CountInv
  BY <1>1 DEF CountInv, DaysPass, Restoring, Booked, Dropping, Closing, At, In, AtLeg, Elsewhere
<1>3. StopInv
  BY <1>1 DEF StopInv, Restoring, Dropping, At, In
<1> QED BY <1>2, <1>3

LEMMA AccountsNext ==
    Typed /\ [Next]_vars => (CountInv => CountInv') /\ (StopInv => StopInv')
<1> SUFFICES ASSUME Typed, [Next]_vars PROVE (CountInv => CountInv') /\ (StopInv => StopInv')
  OBVIOUS
<1>1. CASE UNCHANGED vars
  <2>1. UNCHANGED <<struct, gtt, deployed, run, scene, dte, clock, restarts, nights>>
    BY <1>1 DEF vars, brokerVars, engineVars, memoryVars, worldVars
  <2> QED BY <2>1, NothingMoves
<1>2. ASSUME NEW i \in Ids, Verify(i) \/ ExpireStale(i) \/ Land(i) \/ Fill(i)
      PROVE  (CountInv => CountInv') /\ (StopInv => StopInv')
  <2>1. UNCHANGED <<struct, gtt, deployed, run, scene, dte, clock, restarts, nights>>
    BY <1>2 DEF Verify, ExpireStale, Land, Fill, Arrives, engineVars, memoryVars, worldVars
  <2> QED BY <2>1, NothingMoves
<1>3. CASE Next
  BY <1>2, <1>3, StepIs, OutsideKeeps, SquareOffKeeps, EntryKeeps, RestoreKeeps, LegStepKeeps,
     ExitStepKeeps
<1> QED BY <1>1, <1>3

LEMMA AlwaysTyped == Spec => []Typed
BY TypedInit, TypedNext, PTL DEF Spec

\* The capital of a structure is counted exactly as long as the structure is tracked: the entry
\* adds it once, the exit of either job, the square-off or a reconciliation takes it back once,
\* and a restart counts again.  This is of scenes where the ten-second job does not meet the
\* structure's last day: there the square-off, which does not take the lock, and the job may
\* both release it.
THEOREM CapitalIsCountedOnce == Spec /\ FastIsApart(scene) => []OneCount
<1>1. Init /\ FastIsApart(scene) => Typed /\ CountInv
  BY TypedInit, AccountsInit
<1>2. Typed /\ CountInv /\ [Next]_vars => (Typed /\ CountInv)'
  BY TypedNext, AccountsNext
<1>3. Typed /\ CountInv => OneCount
  <2> SUFFICES ASSUME Typed, CountInv, Quiet PROVE OneCount
    BY DEF OneCount
  <2>1. run[Cycle].pc = "idle" /\ run[Fast].pc = "idle"
    BY ProcsAre DEF Quiet
  <2>2. ~Booked /\ ~Dropping
    BY <2>1 DEF Booked, Dropping, At
  <2>3. ~Restoring
    BY <2>1, TheyAre DEF Restoring, Between, In
  <2> QED BY <2>2, <2>3 DEF CountInv, OneCount
<1> QED BY <1>1, <1>2, <1>3, PTL DEF Spec

\* Without a restart, a stop order is at the exchange only for a short leg of the tracked
\* structure that the engine has not closed: it is cancelled when the leg is closed, in an exit
\* that remains partial too, and before a structure is deleted, also by the job that comes second.
THEOREM StopsAreCancelled == Spec => []StopsGuard
<1>1. Init => Typed /\ StopInv
  BY TypedInit, AccountsInit
<1>2. Typed /\ StopInv /\ [Next]_vars => (Typed /\ StopInv)'
  BY TypedNext, AccountsNext
<1>3. Typed /\ StopInv => StopsGuard
  <2> SUFFICES ASSUME Typed, StopInv, Quiet, restarts = 0
               PROVE  \A l \in gtt : struct.tracked /\ l \notin struct.done
    BY DEF StopsGuard
  <2>1. run[Cycle].pc = "idle"
    BY ProcsAre DEF Quiet
  <2> QED BY <2>1 DEF StopInv, At
<1> QED BY <1>1, <1>2, <1>3, PTL DEF Spec
=============================================================================
