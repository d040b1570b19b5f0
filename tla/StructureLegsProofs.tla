------------------------- MODULE StructureLegsProofs --------------------------
(***************************************************************************)
(* Proofs about credit spreads and iron condors, leg by leg: no leg is     *)
(* closed twice, a structure is dropped only when it is closed, and an     *)
(* entry that breaks off leaves no short leg behind unreported.            *)
(***************************************************************************)
EXTENDS StructureProofs

-----------------------------------------------------------------------------
(* What is true of a leg.                                                  *)

Entering == In(Cycle, "entry")
Live == struct.tracked \/ Entering
Late == scene.nights >= 2

\* Faults that together do close a leg twice are kept apart: positions that cannot be read
\* and an entry that waits; and, where a structure lives to its last day, on which the
\* square-off closes it too, the ten-second job, a closing order in doubt, and (with one
\* night more) positions that cannot be read.
Calm(s) ==
    /\ s.restarts = 0
    /\ ~({"positions_fail", "entries_rest"} \subseteq s.may)
    /\ s.nights >= 2 => s.may \cap {"fast", "exit_doubtful", "positions_fail"} = {}

Calmly == Calm(scene) /\ ~May("gtt_fires")

Remembered(l) == struct.pend[l] # NoOrder
Doubted(l) == order[struct.pend[l]]
RestsAt(i, l) == order[i].leg = l /\ order[i].fate = "resting"
FliesAt(i, l) == order[i].leg = l /\ order[i].fate = "flying"

\* The leg is open, or was closed by an order whose answer nobody has seen.
Owed(l) == held[l] = Opening(l) \/ (Remembered(l) /\ Doubted(l).fate = "filled")

Steps == {"scan"} \cup AtLeg
ToClose(p, l) == In(p, "exit") /\ run[p].pc \in Steps /\ l \in run[p].todo
TakenClosed(p, l) == run[p].mode \in {"exit", "squareoff"} /\ l \in run[p].ok

LegOK(l) ==
    /\ held[l] \in {0, Opening(l)}
    /\ \A i \in Ids : FliesAt(i, l) => struct.tracked /\ struct.pend[l] = i
    /\ \A i \in Ids : RestsAt(i, l) =>
         /\ order[i].lots = Opening(l) /\ order[i].status = "OPEN"
         /\ held[l] = 0 /\ May("entries_rest")
         /\ \A j \in Ids : RestsAt(j, l) => j = i

\* The order that is remembered is the only one about a leg.
DoubtOK(l) ==
    LET o == Doubted(l) IN
    /\ o.leg = l /\ o.lots = -Opening(l) /\ May("exit_doubtful")
    /\ \/ o.status = "PENDING_VERIFICATION" /\ o.fate \in {"flying", "filled", "lost"}
       \/ o.status = "OPEN" /\ o.fate = "filled"
       \/ o.status = "FAILED" /\ o.fate = "lost"
    /\ o.fate = "flying" => held[l] = Opening(l)
    /\ o.fate = "filled" => held[l] = 0
    /\ \A i \in Ids : ~RestsAt(i, l)

EntryOK(l) ==
    /\ l \in run[Cycle].todo => held[l] = 0 /\ \A i \in Ids : ~RestsAt(i, l)
    /\ l \notin run[Cycle].todo /\ ~May("entries_rest") => held[l] = Opening(l)

\* What counts as closed is closed, and what does not is still owed.
ClosedOK(l) ==
    ~May("entries_rest") /\ (l \in struct.done \/ \E p \in Procs : TakenClosed(p, l)) =>
        held[l] = 0
OpenOK(l) ==
    May("positions_fail") /\ l \notin struct.done /\ (\A p \in Procs : ~TakenClosed(p, l)) =>
        Owed(l)

\* What an exit has read about a leg it still has to deal with.
ReadOK(p, l) ==
    /\ run[p].known /\ run[p].qty[l] = 0 /\ ~May("entries_rest") => held[l] = 0
    /\ run[p].known /\ run[p].qty[l] # 0 => Owed(l)
    /\ ~run[p].known => May("positions_fail")

LegInv(l) ==
    /\ Live => LegOK(l)
    /\ struct.tracked /\ Remembered(l) => DoubtOK(l)
    /\ Entering => EntryOK(l)
    /\ struct.tracked => ClosedOK(l) /\ OpenOK(l)
    /\ \A p \in Procs :
         struct.tracked /\ ToClose(p, l) /\ l \notin struct.done => ReadOK(p, l)

AtOK(p) ==
    LET l == run[p].at IN
    struct.tracked /\ In(p, "exit") /\ run[p].pc \in AtLeg =>
        /\ l \notin struct.done /\ ~(run[p].known /\ run[p].qty[l] = 0)
        /\ run[p].pc = "resolve" => run[p].id = struct.pend[l]
        /\ run[p].pc # "resolve" => ~Remembered(l)

DropOK(p) == At(p, "drop") => run[p].ok = Legs

\* Of a structure that it finds the square-off closes legs on the last day only.
SquareOK ==
    struct.tracked /\ In(Cycle, "squareoff") =>
        /\ ~Late => run[Cycle].todo = {} /\ run[Cycle].ok = {}
        /\ \A l \in run[Cycle].todo : run[Cycle].qty[l] = held[l] /\ held[l] # 0
        /\ ~At(Cycle, "resolve")

\* The square-off's own memory of orders in doubt.
NoDoubts == ~May("exit_doubtful") => pending = NoPending

LegsInv ==
    /\ \A l \in Legs : LegInv(l)
    /\ \A p \in Procs : AtOK(p) /\ DropOK(p)
    /\ SquareOK /\ NoDoubts

Base == Typed /\ CountInv /\ StopInv /\ Calmly /\ LegsInv

-----------------------------------------------------------------------------
(* Who is where.                                                           *)

LEMMA CalmIs ==
    ASSUME Base
    PROVE  /\ restarts = 0 /\ ~Restoring /\ scene.restarts = 0
           /\ run[Cycle].mode \in {"entry", "unwind", "exit", "squareoff"}
           /\ run[Fast].mode = "exit"
           /\ run[Cycle].mode \in {"entry", "unwind"} => ~struct.tracked /\ At(Fast, "idle")
           /\ ~At(Fast, "idle") => struct.tracked /\ ~Late
           /\ Closing \/ At(Cycle, "drop") => struct.tracked
           /\ dte = "last" => Late
           /\ Late => ~May("fast") /\ ~May("positions_fail") /\ ~May("exit_doubtful")
           /\ ~(May("positions_fail") /\ May("entries_rest"))
           /\ Legs \subseteq AllLegs
<1>1. scene.restarts = 0
  BY DEF Base, Calmly, Calm
<1>2. restarts = 0
  BY <1>1, TheyAre DEF Base
<1>3. ~Restoring
  BY <1>2 DEF Base, StopInv
<1>4. run[Cycle].mode \in {"entry", "unwind", "exit", "squareoff"}
  BY <1>3, LocalsAre, ProcsAre DEF Restoring, Base, Locals, Modes
<1>5. run[Fast].mode = "exit"
  BY TheyAre DEF Base
<1>6. Late => ~May("fast") /\ ~May("positions_fail") /\ ~May("exit_doubtful")
  BY DEF Base, Calmly, Calm, Late, May
<1>7. ~(May("positions_fail") /\ May("entries_rest"))
  BY DEF Base, Calmly, Calm, May
<1>8. /\ run[Cycle].mode \in {"entry", "unwind"} => ~struct.tracked
      /\ ~At(Fast, "idle") => May("fast") /\ struct.tracked
      /\ Closing \/ At(Cycle, "drop") => struct.tracked
  BY DEF Base, CountInv, May
<1>9. dte = "last" => Late
  <2>1. dte = "last" => nights >= 2
    BY DEF Base, CountInv, DaysPass
  <2>2. nights \in Nat /\ scene.nights \in Nat /\ nights <= scene.nights
    BY TheyAre DEF Base
  <2> QED BY <2>1, <2>2 DEF Late
<1> QED BY <1>1, <1>2, <1>3, <1>4, <1>5, <1>6, <1>7, <1>8, <1>9, LegsAre

\* While one coroutine is in an exit, nothing is left of an exit of the other.
LEMMA OthersAre ==
    ASSUME Typed, NEW p \in Procs, NEW q \in Procs \ {p},
           Inside(p), In(q, "exit")
    PROVE  run[q].todo = {} /\ run[q].ok = {} /\ run[q].pc \in Between
<1>1. lock = p /\ lock # q /\ ~Inside(q)
  BY DEF Typed, LabelsOK
<1>2. run[q] \in Locals /\ LocalsTell(run[q], q)
  BY LocalsAre
<1>3. run[q].pc \notin {"check", "scan", "drop", "booked", "track"} \cup AtLeg
  BY <1>1, <1>2 DEF Inside, In, LocalsTell
<1>4. run[q].pc \in Between
  BY <1>2, <1>3 DEF Locals, Labels, Between, AtLeg
<1> QED BY <1>2, <1>4 DEF LocalsTell, Fresh

-----------------------------------------------------------------------------
(* What a step leaves alone.                                               *)

Apart(i, l) ==
    /\ struct.tracked => i # struct.pend[l]
    /\ ~RestsAt(i, l) /\ ~FliesAt(i, l) /\ ~RestsAt(i, l)' /\ ~FliesAt(i, l)'

OrdersSame(l) == \A i \in Ids : order'[i] = order[i] \/ Apart(i, l)

StateSame(l) ==
    /\ held'[l] = held[l]
    /\ struct'.tracked = struct.tracked /\ struct'.pend[l] = struct.pend[l]
    /\ OrdersSame(l)

LegSame(l) == StateSame(l) /\ (l \in struct'.done <=> l \in struct.done)

RunSame(l) ==
    /\ Entering' => Entering /\ (l \in run'[Cycle].todo <=> l \in run[Cycle].todo)
    /\ \A p \in Procs :
         /\ TakenClosed(p, l)' <=> TakenClosed(p, l)
         /\ ToClose(p, l)' => /\ ToClose(p, l)
                              /\ run'[p].known = run[p].known
                              /\ run'[p].qty[l] = run[p].qty[l]

LEMMA OrdersStay ==
    ASSUME Typed, NEW l \in Legs, OrdersSame(l)
    PROVE  /\ \A i \in Ids : RestsAt(i, l)' \/ RestsAt(i, l) => order'[i] = order[i]
           /\ \A i \in Ids : FliesAt(i, l)' \/ FliesAt(i, l) => order'[i] = order[i]
           /\ \A i \in Ids : RestsAt(i, l)' <=> RestsAt(i, l)
           /\ \A i \in Ids : FliesAt(i, l)' <=> FliesAt(i, l)
           /\ struct.tracked /\ Remembered(l) => order'[struct.pend[l]] = Doubted(l)
<1>1. ASSUME Remembered(l) PROVE struct.pend[l] \in Ids
  <2>1. struct \in Structs /\ l \in AllLegs
    BY MemoryIs, LegsAre DEF Typed, TypeOK
  <2> QED BY <1>1, <2>1 DEF Structs, Pendings, Remembered
<1>2. struct.tracked /\ Remembered(l) => order'[struct.pend[l]] = Doubted(l)
  BY <1>1 DEF OrdersSame, Apart, Doubted
<1>3. ASSUME NEW i \in Ids, order'[i] # order[i]
      PROVE  ~RestsAt(i, l) /\ ~FliesAt(i, l) /\ ~RestsAt(i, l)' /\ ~FliesAt(i, l)'
  BY <1>3 DEF OrdersSame, Apart
<1>4. ASSUME NEW i \in Ids, order'[i] = order[i]
      PROVE  (RestsAt(i, l)' <=> RestsAt(i, l)) /\ (FliesAt(i, l)' <=> FliesAt(i, l))
  BY <1>4 DEF RestsAt, FliesAt
<1> QED BY <1>1, <1>2, <1>3, <1>4

\* What the broker and the structure say of a leg.
LEMMA StateStays ==
    ASSUME Typed, NEW l \in Legs, StateSame(l), scene' = scene
    PROVE  /\ LegOK(l) => LegOK(l)'
           /\ Remembered(l)' <=> Remembered(l)
           /\ struct.tracked /\ Remembered(l) /\ DoubtOK(l) => DoubtOK(l)'
           /\ struct.tracked /\ Owed(l) => Owed(l)'
<1> USE OrdersStay DEF StateSame
<1>1. /\ \A event : May(event)' <=> May(event)
      /\ Remembered(l)' <=> Remembered(l)
  BY DEF May, Remembered
<1>2. ASSUME LegOK(l) PROVE LegOK(l)'
  <2>1. held'[l] \in {0, Opening(l)}
    BY <1>2 DEF LegOK
  <2>2. ASSUME NEW i \in Ids, FliesAt(i, l)' PROVE struct'.tracked /\ struct'.pend[l] = i
    BY <1>2, <2>2 DEF LegOK
  <2>3. ASSUME NEW i \in Ids, RestsAt(i, l)'
        PROVE  /\ order'[i].lots = Opening(l) /\ order'[i].status = "OPEN"
               /\ held'[l] = 0 /\ May("entries_rest")'
               /\ \A j \in Ids : RestsAt(j, l)' => j = i
    <3>1. RestsAt(i, l) /\ order'[i] = order[i]
      BY <2>3
    <3> QED BY <1>1, <1>2, <3>1 DEF LegOK
  <2> QED BY <2>1, <2>2, <2>3 DEF LegOK, Opening, IsShort
<1>3. ASSUME struct.tracked, Remembered(l), DoubtOK(l) PROVE DoubtOK(l)'
  <2>1. Doubted(l)' = Doubted(l)
    BY <1>3 DEF Doubted
  <2> QED BY <1>1, <1>3, <2>1 DEF DoubtOK, Opening, IsShort
<1>4. struct.tracked /\ Owed(l) => Owed(l)'
  BY <1>1 DEF Owed, Doubted, Opening, IsShort
<1> QED BY <1>1, <1>2, <1>3, <1>4

LEMMA LegStays ==
    ASSUME Typed, NEW l \in Legs, LegInv(l), LegSame(l), RunSame(l), scene' = scene
    PROVE  LegInv(l)'
<1> USE StateStays DEF LegSame, StateSame
<1>1. /\ \A event : May(event)' <=> May(event)
      /\ Live' => Live
  BY DEF May, Live, RunSame
<1>2. /\ Live' => LegOK(l)'
      /\ struct'.tracked /\ Remembered(l)' => DoubtOK(l)'
  BY <1>1 DEF LegInv
<1>3. ASSUME Entering' PROVE EntryOK(l)'
  <2>1. EntryOK(l) /\ (l \in run'[Cycle].todo <=> l \in run[Cycle].todo)
    BY <1>3 DEF RunSame, LegInv
  <2> QED BY <1>1, <2>1, OrdersStay DEF EntryOK, Opening, IsShort
<1>4. ASSUME ClosedOK(l) PROVE ClosedOK(l)'
  <2>1. (\E p \in Procs : TakenClosed(p, l))' => \E p \in Procs : TakenClosed(p, l)
    BY DEF RunSame
  <2> QED BY <1>1, <1>4, <2>1 DEF ClosedOK
<1>5. ASSUME struct.tracked, OpenOK(l) PROVE OpenOK(l)'
  <2>1. (\A p \in Procs : ~TakenClosed(p, l))' => \A p \in Procs : ~TakenClosed(p, l)
    BY DEF RunSame
  <2> QED BY <1>1, <1>5, <2>1 DEF OpenOK
<1>6. ASSUME NEW p \in Procs, struct'.tracked, ToClose(p, l)', l \notin struct'.done
      PROVE  ReadOK(p, l)'
  <2>1. ReadOK(p, l) /\ run'[p].known = run[p].known /\ run'[p].qty[l] = run[p].qty[l]
    BY <1>6 DEF LegInv, RunSame
  <2> QED BY <1>1, <1>6, <2>1 DEF ReadOK
<1>7. struct'.tracked => ClosedOK(l)' /\ OpenOK(l)'
  BY <1>4, <1>5 DEF LegInv
<1> QED BY <1>2, <1>3, <1>6, <1>7 DEF LegInv

\* A leg of a tracked structure after a step of one coroutine at it.
LEMMA LegBecomes ==
    ASSUME NEW l \in Legs, NEW p \in Procs, ~Entering',
           LegOK(l)', Remembered(l)' => DoubtOK(l)',
           \A q \in Procs \ {p} : ~TakenClosed(q, l)' /\ ~ToClose(q, l)',
           ~May("entries_rest")' /\ (l \in struct'.done \/ TakenClosed(p, l)') => held'[l] = 0,
           May("positions_fail")' /\ l \notin struct'.done /\ ~TakenClosed(p, l)' => Owed(l)',
           ToClose(p, l)' /\ l \notin struct'.done => ReadOK(p, l)'
    PROVE  LegInv(l)'
<1>1. ClosedOK(l)'
  BY DEF ClosedOK
<1>2. OpenOK(l)'
  BY DEF OpenOK
<1>3. \A q \in Procs : ToClose(q, l)' /\ l \notin struct'.done => ReadOK(q, l)'
  OBVIOUS
<1> QED BY <1>1, <1>2, <1>3 DEF LegInv

\* Nothing is asked of the legs when there is no structure and no entry.
LEMMA NoneLive ==
    ASSUME ~struct'.tracked, ~Entering', \A p \in Procs : DropOK(p)', NoDoubts'
    PROVE  LegsInv'
<1>1. \A l \in Legs' : LegInv(l)'
  BY DEF LegInv, Live
<1>2. \A p \in Procs : AtOK(p)'
  BY DEF AtOK
<1> QED BY <1>1, <1>2 DEF LegsInv, SquareOK

\* The coroutine that does not move, when the structure keeps its legs.
LEMMA OtherStays ==
    ASSUME NEW p \in Procs, AtOK(p), DropOK(p), run'[p] = run[p], scene' = scene,
           struct'.tracked => struct.tracked,
           run[p].pc \in AtLeg /\ In(p, "exit") /\ struct'.tracked =>
               struct'.done = struct.done /\ struct'.pend = struct.pend
    PROVE  AtOK(p)' /\ DropOK(p)'
<1>1. DropOK(p)'
  BY DEF DropOK, At, Legs
<1>2. AtOK(p)'
  BY DEF AtOK, Remembered, In
<1> QED BY <1>1, <1>2

-----------------------------------------------------------------------------
(* A coroutine at a leg.                                                   *)

Shift(p, k) ==
    /\ run[p].pc \in Steps /\ run'[p].pc \in Steps
    /\ run'[p].mode = run[p].mode /\ run'[p].known = run[p].known
    /\ \A q \in Procs \ {p} : run'[q] = run[q]
    /\ \A l \in Legs \ {k} :
         /\ l \in run'[p].todo <=> l \in run[p].todo
         /\ l \in run'[p].ok <=> l \in run[p].ok
         /\ run'[p].qty[l] = run[p].qty[l]

LEMMA OnwardShifts ==
    ASSUME Typed, NEW p \in Procs, NEW k \in Legs, run[p].pc \in Steps,
           Onward(p, k, TRUE) \/ Onward(p, k, FALSE)
    PROVE  /\ Shift(p, k) /\ run'[p].pc = "scan" /\ k \notin run'[p].todo
           /\ Onward(p, k, TRUE) => k \in run'[p].ok
           /\ Onward(p, k, FALSE) => (k \in run'[p].ok <=> k \in run[p].ok)
<1>1. k \in AllLegs
  BY LegsAre
<1>2. /\ run'[p].pc = "scan" /\ run'[p].mode = run[p].mode
      /\ run'[p].todo = run[p].todo \ {k} /\ run'[p].known = run[p].known
      /\ run'[p].qty = [run[p].qty EXCEPT ![k] = 0]
      /\ \A q \in Procs \ {p} : run'[q] = run[q]
      /\ Onward(p, k, TRUE) => run'[p].ok = run[p].ok \cup {k}
      /\ Onward(p, k, FALSE) => run'[p].ok = run[p].ok
  <2>1. ASSUME Onward(p, k, TRUE)
        PROVE  /\ run'[p].pc = "scan" /\ run'[p].mode = run[p].mode
               /\ run'[p].todo = run[p].todo \ {k} /\ run'[p].known = run[p].known
               /\ run'[p].qty = [run[p].qty EXCEPT ![k] = 0]
               /\ \A q \in Procs \ {p} : run'[q] = run[q]
               /\ run'[p].ok = run[p].ok \cup {k}
    BY <1>1, <2>1, OnwardIs
  <2>2. ASSUME Onward(p, k, FALSE)
        PROVE  /\ run'[p].pc = "scan" /\ run'[p].mode = run[p].mode
               /\ run'[p].todo = run[p].todo \ {k} /\ run'[p].known = run[p].known
               /\ run'[p].qty = [run[p].qty EXCEPT ![k] = 0]
               /\ \A q \in Procs \ {p} : run'[q] = run[q]
               /\ run'[p].ok = run[p].ok
    BY <1>1, <2>2, OnwardIs
  <2> QED BY <2>1, <2>2
<1>3. run[p].qty \in [AllLegs -> Int]
  BY LocalsAre DEF Locals
<1>4. \A l \in Legs \ {k} : run'[p].qty[l] = run[p].qty[l]
  BY <1>2, <1>3, LegsAre
<1> QED BY <1>2, <1>4 DEF Shift, Steps

LEMMA ShiftSame ==
    ASSUME Typed, NEW p \in Procs, NEW k, Shift(p, k), ~In(p, "entry")
    PROVE  \A l \in Legs \ {k} : RunSame(l)
<1> SUFFICES ASSUME NEW l \in Legs \ {k} PROVE RunSame(l)
  OBVIOUS
<1>1. Entering' => Entering /\ (l \in run'[Cycle].todo <=> l \in run[Cycle].todo)
  BY ProcsAre DEF Shift, Entering, In
<1>2. ASSUME NEW q \in Procs
      PROVE  /\ TakenClosed(q, l)' <=> TakenClosed(q, l)
             /\ ToClose(q, l)' => /\ ToClose(q, l)
                                  /\ run'[q].known = run[q].known
                                  /\ run'[q].qty[l] = run[q].qty[l]
  BY DEF Shift, TakenClosed, ToClose, In
<1> QED BY <1>1, <1>2 DEF RunSame

\* What an exit has before it.
LEMMA LegAhead ==
    ASSUME Base, NEW p \in Procs, In(p, "exit"), run[p].pc \in Steps, NEW l \in run[p].todo
    PROVE  /\ l \in Legs /\ struct.tracked /\ Inside(p) /\ ~Entering /\ LegInv(l) /\ LegOK(l)
           /\ Remembered(l) => DoubtOK(l)
           /\ ~TakenClosed(p, l) /\ ToClose(p, l)
           /\ \A q \in Procs \ {p} : ~TakenClosed(q, l) /\ ~ToClose(q, l)
           /\ \A q \in Procs \ {p} : run[q].pc \in AtLeg => ~In(q, "exit")
           /\ In(Cycle, "squareoff") => run[Cycle].todo = {} /\ run[Cycle].ok = {}
<1>1. LocalsTell(run[p], p) /\ Inside(p)
  BY LocalsAre DEF Base, Inside, In, Steps
<1>2. l \in Legs /\ l \notin run[p].ok /\ LegInv(l)
  BY <1>1 DEF LocalsTell, Base, LegsInv
<1>3. struct.tracked /\ ~Entering
  <2>1. CASE p = Cycle
    BY <2>1, CalmIs DEF Closing, In, Steps, Entering
  <2>2. CASE p = Fast
    BY <2>2, CalmIs DEF At, Steps, AtLeg, Entering, In
  <2> QED BY <2>1, <2>2 DEF Procs
<1>4. In(Cycle, "squareoff") => run[Cycle].todo = {} /\ run[Cycle].ok = {}
  <2>1. In(Cycle, "squareoff") => p = Fast /\ ~At(Fast, "idle")
    BY DEF Procs, In, At, Steps, AtLeg
  <2> QED BY <1>3, <2>1, CalmIs DEF Base, LegsInv, SquareOK
<1>5. ASSUME NEW q \in Procs \ {p} PROVE ~TakenClosed(q, l) /\ ~ToClose(q, l) /\ (run[q].pc \in AtLeg => ~In(q, "exit"))
  <2>1. CASE In(q, "exit")
    <3>1. run[q].todo = {} /\ run[q].ok = {} /\ run[q].pc \in Between
      BY <1>1, <2>1, OthersAre DEF Base
    <3> QED BY <3>1 DEF TakenClosed, ToClose, Between, AtLeg
  <2>2. CASE In(q, "squareoff")
    <3>1. q = Cycle
      BY <2>2, CalmIs DEF Procs, In
    <3> QED BY <1>4, <2>2, <3>1 DEF TakenClosed, ToClose, In
  <2>3. CASE ~In(q, "exit") /\ ~In(q, "squareoff")
    BY <2>3 DEF TakenClosed, ToClose, In
  <2> QED BY <2>1, <2>2, <2>3
<1>6. ~TakenClosed(p, l) /\ ToClose(p, l)
  BY <1>2 DEF TakenClosed, ToClose
<1>7. LegOK(l) /\ (Remembered(l) => DoubtOK(l))
  BY <1>2, <1>3 DEF LegInv, Live
<1> QED BY <1>1, <1>2, <1>3, <1>4, <1>5, <1>6, <1>7

\* The leg that an exit is at is still owed.
LEMMA AtOwed ==
    ASSUME Base, NEW p \in Procs, In(p, "exit"), run[p].pc \in AtLeg
    PROVE  LET l == run[p].at IN
           /\ l \in run[p].todo /\ Owed(l) /\ l \notin struct.done
           /\ ~(run[p].known /\ run[p].qty[l] = 0) /\ ReadOK(p, l)
           /\ run[p].pc = "resolve" => run[p].id = struct.pend[l]
           /\ run[p].pc # "resolve" => ~Remembered(l) /\ held[l] = Opening(l)
<1> DEFINE l == run[p].at
<1>1. l \in run[p].todo /\ run[p].pc \in Steps
  BY LocalsAre DEF Base, LocalsTell, Steps
<1>2. LegInv(l) /\ struct.tracked /\ ToClose(p, l) /\ \A q \in Procs : ~TakenClosed(q, l)
  BY <1>1, LegAhead
<1>3. /\ l \notin struct.done /\ ~(run[p].known /\ run[p].qty[l] = 0)
      /\ run[p].pc = "resolve" => run[p].id = struct.pend[l]
      /\ run[p].pc # "resolve" => ~Remembered(l)
  BY <1>2 DEF Base, LegsInv, AtOK
<1>4. ReadOK(p, l)
  BY <1>2, <1>3 DEF LegInv
<1>5. Owed(l)
  <2>1. CASE run[p].known
    BY <1>3, <1>4, <2>1 DEF ReadOK
  <2>2. CASE ~run[p].known
    BY <1>2, <1>3, <1>4, <2>2 DEF ReadOK, LegInv, OpenOK
  <2> QED BY <2>1, <2>2
<1>6. run[p].pc # "resolve" => held[l] = Opening(l)
  BY <1>3, <1>5 DEF Owed
<1> QED BY <1>1, <1>3, <1>4, <1>5, <1>6

\* The end of the argument for a step of an exit.
LEMMA ExitLegsGo ==
    ASSUME Base, NEW p \in Procs, LegStep(p), In(p, "exit"), NEW k \in run[p].todo,
           pending' = pending, AtOK(p)', \A l \in Legs : LegInv(l)'
    PROVE  LegsInv'
<1>1. /\ run[p].pc \in Steps /\ run'[p].pc \in Steps /\ run'[p].mode = run[p].mode
      /\ \A q \in Procs \ {p} : run'[q] = run[q]
      /\ struct'.tracked = struct.tracked /\ scene' = scene
  BY LegStepIs DEF Base, Steps
<1>2. /\ \A q \in Procs \ {p} : run[q].pc \in AtLeg => ~In(q, "exit")
      /\ In(Cycle, "squareoff") => run[Cycle].todo = {} /\ run[Cycle].ok = {}
  BY <1>1, LegAhead
<1>3. \A q \in Procs \ {p} : AtOK(q)' /\ DropOK(q)'
  BY <1>1, <1>2, OtherStays DEF Base, LegsInv
<1>4. DropOK(p)'
  BY <1>1 DEF DropOK, At, Steps, AtLeg
<1>5. SquareOK'
  <2>1. ASSUME In(Cycle, "squareoff")' PROVE run'[Cycle] = run[Cycle] /\ In(Cycle, "squareoff")
    BY <1>1, <2>1, ProcsAre DEF In
  <2> QED BY <1>1, <1>2, <2>1 DEF SquareOK, Base, LegsInv, At, In
<1>6. NoDoubts'
  BY <1>1 DEF NoDoubts, Base, LegsInv, May
<1>7. Legs' = Legs
  BY <1>1 DEF Legs
<1> QED BY <1>3, <1>4, <1>5, <1>6, <1>7 DEF LegsInv

\* Nothing happens at the broker, nor to the structure.
LEMMA SameIs ==
    ASSUME UNCHANGED <<held, order, struct>> PROVE \A l \in Legs : LegSame(l) /\ StateSame(l)
BY DEF LegSame, StateSame, OrdersSame

\* A leg is found closed.
LEMMA ClosedLegKeeps ==
    ASSUME Base, NEW p \in Procs, NEW k \in Legs, LegIsClosed(p, k) PROVE LegsInv'
<1>1. /\ In(p, "exit") /\ run[p].pc \in Steps /\ k \in run[p].todo
      /\ UNCHANGED <<held, order, struct, pending, scene>>
      /\ k \in struct.done \/ (run[p].known /\ run[p].qty[k] = 0)
      /\ Onward(p, k, TRUE)
  BY DEF LegIsClosed, IsNext, At, Steps, CountsAsClosed, brokerVars, engineVars, memoryVars, worldVars
<1>2. /\ Shift(p, k) /\ run'[p].pc = "scan" /\ k \notin run'[p].todo /\ k \in run'[p].ok
  BY <1>1, OnwardShifts DEF Base
<1>3. \A l \in Legs : LegSame(l) /\ StateSame(l)
  BY <1>1, SameIs
<1>4. \A l \in Legs \ {k} : LegInv(l)'
  BY <1>1, <1>2, <1>3, ShiftSame, LegStays DEF Base, LegsInv, In
<1>5. LegInv(k)'
  <2>1. /\ LegInv(k) /\ LegOK(k) /\ struct.tracked /\ ToClose(p, k) /\ ~Entering
        /\ Remembered(k) => DoubtOK(k)
        /\ \A q \in Procs \ {p} : ~TakenClosed(q, k) /\ ~ToClose(q, k)
    BY <1>1, LegAhead
  <2>2. LegOK(k)' /\ (Remembered(k)' => DoubtOK(k)')
    BY <1>1, <1>3, <2>1, StateStays DEF Base
  <2>3. ~May("entries_rest") => held[k] = 0
    BY <1>1, <2>1 DEF LegInv, ClosedOK, ReadOK
  <2>4. ~Entering' /\ \A q \in Procs \ {p} : ~TakenClosed(q, k)' /\ ~ToClose(q, k)'
    BY <1>1, <1>2, <2>1, ProcsAre DEF Shift, Entering, In, TakenClosed, ToClose
  <2>5. TakenClosed(p, k)' /\ ~ToClose(p, k)'
    BY <1>1, <1>2 DEF TakenClosed, ToClose, Shift, In
  <2> QED BY <1>1, <2>2, <2>3, <2>4, <2>5, LegBecomes DEF May
<1>6. AtOK(p)'
  BY <1>2 DEF AtOK, AtLeg
<1>7. LegStep(p)
  BY DEF LegStep
<1> QED BY <1>1, <1>4, <1>5, <1>6, <1>7, ExitLegsGo

\* A coroutine goes on at the same leg.
LEMMA GoesOn ==
    ASSUME Typed, NEW p \in Procs, NEW r, Become(p, r), run[p].pc \in Steps, r.pc \in Steps,
           r.mode = run[p].mode, r.known = run[p].known, r.todo = run[p].todo,
           r.ok = run[p].ok, r.qty = run[p].qty
    PROVE  run'[p] = r /\ \A k : Shift(p, k)
BY Becomes DEF Shift

\* An exit begins with a leg that is still owed.
LEMMA BeginLegKeeps ==
    ASSUME Base, NEW p \in Procs, NEW k \in Legs, In(p, "exit"), CloseLeg(p, k) PROVE LegsInv'
<1> DEFINE r == [run[p] EXCEPT !.at = k, !.id = InDoubt(p, k),
                               !.pc = IF InDoubt(p, k) = NoOrder THEN "place" ELSE "resolve"]
<1>1. /\ run[p].pc \in Steps /\ k \in run[p].todo /\ Become(p, r)
      /\ UNCHANGED <<held, order, struct, pending, scene>>
      /\ k \notin struct.done /\ ~(run[p].known /\ run[p].qty[k] = 0)
  BY DEF CloseLeg, IsNext, At, Steps, CountsAsClosed, brokerVars, engineVars, memoryVars, worldVars
<1>2. InDoubt(p, k) = struct.pend[k]
  BY DEF InDoubt, In
<1>3. /\ r.pc = IF struct.pend[k] = NoOrder THEN "place" ELSE "resolve"
      /\ r.at = k /\ r.id = struct.pend[k]
      /\ r.mode = run[p].mode /\ r.known = run[p].known /\ r.todo = run[p].todo
      /\ r.ok = run[p].ok /\ r.qty = run[p].qty
  BY <1>2, LocalsAre DEF Locals, Base
<1> HIDE DEF r
<1>4. run'[p] = r /\ Shift(p, NoLeg)
  BY <1>1, <1>3, GoesOn DEF Base, Steps, AtLeg
<1>5. \A l \in Legs : LegInv(l)'
  BY <1>1, <1>4, SameIs, ShiftSame, LegStays, LegsAre DEF Base, LegsInv, In
<1>6. AtOK(p)'
  BY <1>1, <1>3, <1>4 DEF AtOK, Remembered
<1>7. LegStep(p)
  BY DEF LegStep
<1> QED BY <1>1, <1>5, <1>6, <1>7, ExitLegsGo

LEMMA PlaceKeeps ==
    ASSUME Base, NEW p \in Procs, In(p, "exit"), Place(p) PROVE LegsInv'
<1> DEFINE r == [run[p] EXCEPT !.pc = "sent"]
<1>1. /\ run[p].pc = "place" /\ Become(p, r)
      /\ UNCHANGED <<held, order, struct, pending, scene>>
  BY DEF Place, At, Goto, Become, brokerVars, engineVars, memoryVars, worldVars
<1>2. /\ r.pc = "sent" /\ r.at = run[p].at
      /\ r.mode = run[p].mode /\ r.known = run[p].known /\ r.todo = run[p].todo
      /\ r.ok = run[p].ok /\ r.qty = run[p].qty
  BY LocalsAre DEF Locals, Base
<1> HIDE DEF r
<1>3. run'[p] = r /\ Shift(p, NoLeg)
  BY <1>1, <1>2, GoesOn DEF Base, Steps, AtLeg
<1>4. \A l \in Legs : LegInv(l)'
  BY <1>1, <1>3, SameIs, ShiftSame, LegStays, LegsAre DEF Base, LegsInv, In
<1>5. AtOK(p)'
  BY <1>1, <1>2, <1>3, AtOwed DEF AtOK, Remembered, AtLeg
<1>6. LegStep(p) /\ run[p].at \in run[p].todo
  BY <1>1, AtOwed DEF LegStep, AtLeg
<1> QED BY <1>1, <1>4, <1>5, <1>6, ExitLegsGo

\* Of the other legs nothing changes.
OnlyLeg(k) ==
    /\ \A l \in Legs \ {k} : held'[l] = held[l] /\ struct'.pend[l] = struct.pend[l]
    /\ struct'.tracked = struct.tracked /\ struct'.done = struct.done
    /\ \A l \in Legs \ {k} : OrdersSame(l)

\* An exit has dealt with the leg it was at, and what it knows of it is right.
LEMMA LegDealtWith ==
    ASSUME Base, NEW p \in Procs, In(p, "exit"), run[p].pc \in AtLeg, LegStep(p),
           NEW k \in Legs, k = run[p].at, OnlyLeg(k), pending' = pending,
           LegOK(k)', Remembered(k)' => DoubtOK(k)',
           \/ Onward(p, k, TRUE) /\ held'[k] = 0
           \/ Onward(p, k, FALSE) /\ Owed(k)'
    PROVE  LegsInv'
<1>1. /\ Shift(p, k) /\ run'[p].pc = "scan" /\ k \notin run'[p].todo
      /\ Onward(p, k, TRUE) => k \in run'[p].ok
      /\ Onward(p, k, FALSE) => (k \in run'[p].ok <=> k \in run[p].ok)
  BY OnwardShifts DEF Base, Steps
<1>2. scene' = scene
  BY LegStepIs DEF Base
<1>3. k \in run[p].todo /\ k \notin struct.done
  BY AtOwed
<1>4. /\ ~Entering /\ ~TakenClosed(p, k)
      /\ \A q \in Procs \ {p} : ~TakenClosed(q, k) /\ ~ToClose(q, k)
  BY <1>3, LegAhead DEF Steps
<1>5. \A l \in Legs \ {k} : LegSame(l)
  BY DEF OnlyLeg, LegSame, StateSame
<1>6. \A l \in Legs \ {k} : LegInv(l)'
  BY <1>1, <1>2, <1>5, ShiftSame, LegStays DEF Base, LegsInv, In
<1>7. LegInv(k)'
  <2>1. ~Entering' /\ \A q \in Procs \ {p} : ~TakenClosed(q, k)' /\ ~ToClose(q, k)'
    BY <1>1, <1>4, ProcsAre DEF Shift, Entering, In, TakenClosed, ToClose
  <2>2. ~ToClose(p, k)' /\ k \notin struct'.done
    BY <1>1, <1>3 DEF ToClose, OnlyLeg
  <2>3. \/ TakenClosed(p, k)' /\ held'[k] = 0
        \/ ~TakenClosed(p, k)' /\ Owed(k)'
    BY <1>1, <1>4 DEF TakenClosed, Shift, In
  <2> QED BY <2>1, <2>2, <2>3, LegBecomes
<1>8. AtOK(p)'
  BY <1>1 DEF AtOK, AtLeg
<1> QED BY <1>3, <1>6, <1>7, <1>8, ExitLegsGo

\* The order in doubt of a leg is no longer remembered.
LEMMA Forgotten ==
    ASSUME Typed, NEW k \in Legs, LegOK(k), DoubtOK(k), Doubted(k).fate # "flying",
           struct' = [struct EXCEPT !.pend[k] = NoOrder], UNCHANGED <<held, order, scene>>
    PROVE  LegOK(k)' /\ ~Remembered(k)' /\ OnlyLeg(k)
<1>1. struct \in Structs /\ k \in AllLegs /\ Legs \subseteq AllLegs
  BY MemoryIs, LegsAre DEF Typed, TypeOK
<1>2. /\ struct'.tracked = struct.tracked /\ struct'.done = struct.done
      /\ struct'.pend = [struct.pend EXCEPT ![k] = NoOrder]
  BY <1>1 DEF Structs
<1>3. struct.pend \in Pendings
  BY <1>1 DEF Structs
<1>4. struct'.pend[k] = NoOrder /\ \A l \in Legs \ {k} : struct'.pend[l] = struct.pend[l]
  BY <1>1, <1>2, <1>3 DEF Pendings
<1>5. ~Remembered(k)' /\ OnlyLeg(k)
  BY <1>2, <1>4 DEF Remembered, OnlyLeg, OrdersSame
<1>6. \A i \in Ids : ~FliesAt(i, k)
  BY DEF FliesAt, LegOK, Doubted
<1>7. LegOK(k)'
  BY <1>6 DEF LegOK, FliesAt, RestsAt, May, Opening, IsShort
<1> QED BY <1>5, <1>7

\* The order in doubt of a leg is looked at again.
LEMMA ResolveKeeps ==
    ASSUME Base, NEW p \in Procs, In(p, "exit"), Resolve(p) PROVE LegsInv'
<1> SUFFICES ASSUME NEW k, k = run[p].at PROVE LegsInv'
  OBVIOUS
<1> DEFINE r == [run[p] EXCEPT !.pc = "place", !.id = NoOrder]
<1>1. run[p].pc = "resolve" /\ UNCHANGED <<held, order, scene>> /\ LegStep(p)
  BY DEF Resolve, At, LegStep, brokerVars, worldVars
<1>2. /\ k \in run[p].todo /\ Owed(k) /\ k \notin struct.done
      /\ ~(run[p].known /\ run[p].qty[k] = 0) /\ ReadOK(p, k)
      /\ run[p].id = struct.pend[k]
  BY <1>1, AtOwed DEF AtLeg
<1>3. /\ k \in Legs /\ LegInv(k) /\ LegOK(k) /\ (Remembered(k) => DoubtOK(k)) /\ ~Entering
      /\ \A q \in Procs \ {p} : ~TakenClosed(q, k) /\ ~ToClose(q, k)
      /\ ~TakenClosed(p, k)
      /\ struct.tracked
  BY <1>1, <1>2, LegAhead DEF Steps, AtLeg
<1>4. Remembered(k)
  BY <1>1, <1>2, IdsAre, LocalsAre DEF LocalsTell, Remembered, Base
<1>5. Doubted(k) = order[run[p].id] /\ DoubtOK(k)
  BY <1>2, <1>3, <1>4 DEF Doubted
<1>6. CASE Doubted(k).status = "PENDING_VERIFICATION"
  <2>1. Onward(p, k, FALSE) /\ UNCHANGED <<struct, pending>>
    BY <1>5, <1>6 DEF Resolve, memoryVars
  <2>2. \A l \in Legs : StateSame(l)
    BY <1>1, <2>1, SameIs
  <2>3. LegOK(k)' /\ (Remembered(k)' => DoubtOK(k)') /\ Owed(k)'
    BY <1>1, <1>2, <1>3, <2>2, StateStays DEF Base
  <2>4. OnlyLeg(k)
    BY <1>1, <2>1 DEF OnlyLeg, OrdersSame
  <2> QED BY <1>1, <1>3, <2>1, <2>3, <2>4, LegDealtWith DEF AtLeg
<1>7. CASE Doubted(k).status # "PENDING_VERIFICATION"
  <2>1. /\ struct' = [struct EXCEPT !.pend[k] = NoOrder] /\ pending' = pending
        /\ Doubted(k).status = "FAILED" => Become(p, r)
        /\ Doubted(k).status # "FAILED" => Onward(p, k, TRUE)
    BY <1>5, <1>7 DEF Resolve, Forget
  <2>2. /\ Doubted(k).status = "FAILED" => Doubted(k).fate = "lost"
        /\ Doubted(k).status # "FAILED" => Doubted(k).fate = "filled" /\ held[k] = 0
    BY <1>5, <1>7 DEF DoubtOK
  <2>3. LegOK(k)' /\ ~Remembered(k)' /\ OnlyLeg(k)
    BY <1>1, <1>3, <1>5, <2>1, <2>2, Forgotten DEF Base
  <2>4. CASE Doubted(k).status # "FAILED"
    BY <1>1, <1>3, <2>1, <2>2, <2>3, <2>4, LegDealtWith DEF AtLeg
  <2>5. CASE Doubted(k).status = "FAILED"
    <3>1. /\ r.pc = "place" /\ r.at = k
          /\ r.mode = run[p].mode /\ r.known = run[p].known /\ r.todo = run[p].todo
          /\ r.ok = run[p].ok /\ r.qty = run[p].qty
      BY LocalsAre DEF Locals, Base
    <3> HIDE DEF r
    <3>2. run'[p] = r /\ Shift(p, k)
      BY <1>1, <2>1, <2>5, <3>1, GoesOn DEF Base, Steps, AtLeg
    <3>3. \A l \in Legs \ {k} : LegSame(l)
      BY <1>1, <2>3 DEF OnlyLeg, LegSame, StateSame
    <3>4. \A l \in Legs \ {k} : LegInv(l)'
      BY <1>1, <3>2, <3>3, ShiftSame, LegStays DEF Base, LegsInv, In
    <3>5. held[k] = Opening(k)
      BY <1>2, <2>2, <2>5 DEF Owed
    <3>6. LegInv(k)'
      <4>1. ~Entering' /\ \A q \in Procs \ {p} : ~TakenClosed(q, k)' /\ ~ToClose(q, k)'
        BY <1>3, <3>2, ProcsAre DEF Shift, Entering, In, TakenClosed, ToClose
      <4>2. Owed(k)'
        BY <1>1, <3>5 DEF Owed, Opening, IsShort
      <4>3. ReadOK(p, k)'
        BY <1>1, <1>2, <3>1, <3>2, <4>2 DEF ReadOK, May
      <4>4. ~TakenClosed(p, k)' /\ k \notin struct'.done
        BY <1>2, <1>3, <2>3, <3>1, <3>2 DEF TakenClosed, OnlyLeg
      <4> QED BY <2>3, <4>1, <4>2, <4>3, <4>4, <1>3, LegBecomes
    <3>7. AtOK(p)'
      BY <1>2, <2>3, <3>1, <3>2 DEF AtOK, OnlyLeg
    <3> QED BY <1>1, <1>2, <2>1, <3>4, <3>6, <3>7, ExitLegsGo
  <2> QED BY <2>4, <2>5
<1> QED BY <1>6, <1>7

LEMMA TakenKeeps ==
    ASSUME Base, NEW p \in Procs, In(p, "exit"), CloseTaken(p) PROVE LegsInv'
<1> SUFFICES ASSUME NEW k, k = run[p].at PROVE LegsInv'
  OBVIOUS
<1>1. /\ run[p].pc = "sent" /\ UNCHANGED <<order, struct, pending, scene>> /\ LegStep(p)
      /\ held' = [held EXCEPT ![k] = @ + Lots(p)] /\ Onward(p, k, TRUE)
  BY DEF CloseTaken, Sent, At, LegStep, engineVars, memoryVars, worldVars
<1>2. /\ k \in run[p].todo /\ ~Remembered(k) /\ held[k] = Opening(k)
  BY <1>1, AtOwed DEF AtLeg
<1>3. k \in Legs /\ LegOK(k)
  BY <1>1, <1>2, LegAhead DEF Steps, AtLeg
<1>4. Lots(p) = -Opening(k) /\ Opening(k) \in {1, -1} /\ k \in AllLegs
  BY <1>3, LegsAre DEF Lots, In
<1>5. held \in [AllLegs -> Int]
  BY BrokerIs DEF Base, Typed, TypeOK
<1>6. held'[k] = 0 /\ \A l \in Legs \ {k} : held'[l] = held[l]
  BY <1>1, <1>2, <1>4, <1>5, LegsAre
<1>7. OnlyLeg(k) /\ ~Remembered(k)'
  BY <1>1, <1>2, <1>6 DEF OnlyLeg, OrdersSame, Remembered
<1>8. \A i \in Ids : ~FliesAt(i, k) /\ ~RestsAt(i, k)
  BY <1>2, <1>3, <1>4, IdsAre DEF LegOK, Remembered
<1>9. LegOK(k)'
  BY <1>1, <1>6, <1>8 DEF LegOK, FliesAt, RestsAt
<1> QED BY <1>1, <1>3, <1>6, <1>7, <1>9, LegDealtWith DEF AtLeg

LEMMA FailedKeeps ==
    ASSUME Base, NEW p \in Procs, In(p, "exit"), CloseFailed(p) PROVE LegsInv'
<1> SUFFICES ASSUME NEW k, k = run[p].at PROVE LegsInv'
  OBVIOUS
<1>1. /\ run[p].pc = "sent" /\ UNCHANGED <<held, order, struct, pending, scene>> /\ LegStep(p)
      /\ Onward(p, k, FALSE)
  BY DEF CloseFailed, Sent, At, LegStep, brokerVars, engineVars, memoryVars, worldVars
<1>2. /\ k \in run[p].todo /\ ~Remembered(k) /\ Owed(k)
  BY <1>1, AtOwed DEF AtLeg
<1>3. k \in Legs /\ LegOK(k) /\ struct.tracked
  BY <1>1, <1>2, LegAhead DEF Steps, AtLeg
<1>4. LegOK(k)' /\ ~Remembered(k)' /\ Owed(k)'
  BY <1>1, <1>2, <1>3, SameIs, StateStays DEF Base
<1>5. OnlyLeg(k)
  BY <1>1 DEF OnlyLeg, OrdersSame
<1> QED BY <1>1, <1>3, <1>4, <1>5, LegDealtWith DEF AtLeg

\* A new order takes the place of one about which nothing is open.
LEMMA Recorded ==
    ASSUME Typed, CanRecord, NEW row, row.leg \in AllLegs, order' = WithOrder(row)
    PROVE  /\ Slot \in Ids /\ order'[Slot] = row
           /\ \A i \in Ids \ {Slot}, l \in AllLegs :
                /\ RestsAt(i, l)' => RestsAt(i, l) /\ order'[i] = order[i]
                /\ FliesAt(i, l)' => FliesAt(i, l) /\ order'[i] = order[i]
           /\ \A l \in Legs : l # row.leg => OrdersSame(l)
<1>1. Slot \in Ids /\ Settled(Slot)
  BY SlotIs
<1>2. /\ order'[Slot] = row
      /\ \A i \in Ids \ {Slot} : order'[i] = IF Settled(i) THEN Blank ELSE order[i]
  BY <1>1 DEF WithOrder
<1>3. \A i \in Ids \ {Slot}, l \in AllLegs :
        /\ RestsAt(i, l)' => RestsAt(i, l) /\ order'[i] = order[i]
        /\ FliesAt(i, l)' => FliesAt(i, l) /\ order'[i] = order[i]
  BY <1>2 DEF RestsAt, FliesAt, Blank
<1>4. ASSUME NEW l \in Legs, l # row.leg, NEW i \in Ids, order'[i] # order[i] PROVE Apart(i, l)
  <2>1. Settled(i)
    BY <1>1, <1>2, <1>4
  <2>2. i # struct.pend[l] /\ ~RestsAt(i, l) /\ ~FliesAt(i, l)
    BY <2>1, LegsAre DEF Settled, RestsAt, FliesAt
  <2>3. ~RestsAt(i, l)' /\ ~FliesAt(i, l)'
    BY <1>2, <1>3, <1>4, <2>2, LegsAre DEF RestsAt, FliesAt
  <2> QED BY <2>2, <2>3 DEF Apart
<1> QED BY <1>1, <1>2, <1>3, <1>4 DEF OrdersSame

LEMMA DoubtfulKeeps ==
    ASSUME Base, NEW p \in Procs, In(p, "exit"), CloseDoubtful(p) PROVE LegsInv'
<1> SUFFICES ASSUME NEW k, k = run[p].at PROVE LegsInv'
  OBVIOUS
<1>1. /\ run[p].pc = "sent" /\ LegStep(p) /\ May("exit_doubtful") /\ CanRecord
      /\ struct' = [struct EXCEPT !.pend[k] = Slot] /\ UNCHANGED <<pending, scene>>
  BY DEF CloseDoubtful, Sent, At, LegStep, worldVars, In
<1>2. Onward(p, k, FALSE)
  BY DEF CloseDoubtful, Onward, In
<1>3. /\ k \in run[p].todo /\ ~Remembered(k) /\ held[k] = Opening(k)
  BY <1>1, AtOwed DEF AtLeg
<1>4. k \in Legs /\ LegOK(k) /\ struct.tracked
  BY <1>1, <1>3, LegAhead DEF Steps, AtLeg
<1>5. Lots(p) = -Opening(k) /\ Opening(k) \in {1, -1} /\ k \in AllLegs
  BY <1>4, LegsAre DEF Lots, In
<1>6. PICK fate \in {"filled", "flying", "lost"} :
        /\ order' = WithOrder([leg |-> k, lots |-> -Opening(k),
                               status |-> "PENDING_VERIFICATION", fate |-> fate])
        /\ held' = IF fate = "filled" THEN [held EXCEPT ![k] = @ + Lots(p)] ELSE held
  BY <1>5 DEF CloseDoubtful, DoubtfulRow
<1> DEFINE row == [leg |-> k, lots |-> -Opening(k), status |-> "PENDING_VERIFICATION", fate |-> fate]
<1>7. /\ row.leg = k /\ row.lots = -Opening(k) /\ row.status = "PENDING_VERIFICATION"
      /\ row.fate = fate /\ order' = WithOrder(row)
  BY <1>6
<1> HIDE DEF row
<1>8. /\ Slot \in Ids /\ order'[Slot] = row
      /\ \A i \in Ids \ {Slot}, l \in AllLegs :
           /\ RestsAt(i, l)' => RestsAt(i, l) /\ order'[i] = order[i]
           /\ FliesAt(i, l)' => FliesAt(i, l) /\ order'[i] = order[i]
      /\ \A l \in Legs : l # k => OrdersSame(l)
  BY <1>1, <1>5, <1>7, Recorded DEF Base
<1>9. held \in [AllLegs -> Int] /\ struct \in Structs
  BY BrokerIs, MemoryIs DEF Base, Typed, TypeOK
<1>10. /\ held'[k] = IF fate = "filled" THEN 0 ELSE Opening(k)
       /\ \A l \in Legs \ {k} : held'[l] = held[l]
  BY <1>3, <1>5, <1>6, <1>9, LegsAre
<1>11. /\ struct'.tracked = struct.tracked /\ struct'.done = struct.done
       /\ struct'.pend = [struct.pend EXCEPT ![k] = Slot] /\ struct.pend \in Pendings
  BY <1>1, <1>9 DEF Structs
<1>12. struct'.pend[k] = Slot /\ \A l \in Legs \ {k} : struct'.pend[l] = struct.pend[l]
  BY <1>5, <1>11, LegsAre DEF Pendings
<1>13. OnlyLeg(k)
  BY <1>8, <1>10, <1>11, <1>12 DEF OnlyLeg
<1>14. \A i \in Ids : ~FliesAt(i, k) /\ ~RestsAt(i, k)
  BY <1>3, <1>4, <1>5, IdsAre DEF LegOK, Remembered
<1>15. /\ \A i \in Ids : ~RestsAt(i, k)'
       /\ \A i \in Ids : FliesAt(i, k)' => i = Slot
  BY <1>5, <1>7, <1>8, <1>14 DEF RestsAt
<1>16. LegOK(k)'
  BY <1>4, <1>10, <1>11, <1>12, <1>15 DEF LegOK, Opening, IsShort
<1>17. Doubted(k)' = row
  BY <1>8, <1>12 DEF Doubted
<1>18. DoubtOK(k)'
  BY <1>1, <1>7, <1>10, <1>15, <1>17 DEF DoubtOK, May, Opening, IsShort
<1>19. Owed(k)'
  <2>1. Remembered(k)'
    BY <1>8, <1>12, IdsAre DEF Remembered
  <2>2. (Opening(k))' = Opening(k)
    BY DEF Opening, IsShort
  <2> QED BY <1>7, <1>10, <1>17, <2>1, <2>2 DEF Owed
<1> QED BY <1>1, <1>2, <1>4, <1>13, <1>16, <1>18, <1>19, LegDealtWith DEF AtLeg

LEMMA ExitLegKeeps ==
    ASSUME Base, NEW p \in Procs, In(p, "exit"), LegStep(p) PROVE LegsInv'
BY ClosedLegKeeps, BeginLegKeeps, ResolveKeeps, PlaceKeeps, TakenKeeps, FailedKeeps,
   DoubtfulKeeps DEF LegStep

\* The square-off remembers orders in doubt only where there can be some.
LEMMA DoubtsStay ==
    ASSUME Typed, NoDoubts, scene' = scene,
           \/ pending' = pending
           \/ May("exit_doubtful")
           \/ \E l \in AllLegs : pending' = [pending EXCEPT ![l] = NoOrder]
    PROVE  NoDoubts'
<1>1. CASE ~May("exit_doubtful")
  <2>1. pending = NoPending
    BY <1>1 DEF NoDoubts
  <2>2. \A l \in AllLegs : [pending EXCEPT ![l] = NoOrder] = pending
    BY <2>1 DEF NoPending
  <2>3. pending' = NoPending
    BY <1>1, <2>1, <2>2
  <2> QED BY <2>3 DEF NoDoubts
<1>2. CASE May("exit_doubtful")
  BY <1>2 DEF NoDoubts, May
<1> QED BY <1>1, <1>2

LEMMA LegStepDoubts ==
    ASSUME Typed, NoDoubts, NEW p \in Procs, LegStep(p) PROVE NoDoubts'
<1>1. scene' = scene
  BY LegStepIs
<1>2. run[p].pc \in AtLeg => run[p].at \in AllLegs
  BY LotsTyped
<1>3. ASSUME Resolve(p)
      PROVE  pending' = pending \/ \E l \in AllLegs : pending' = [pending EXCEPT ![l] = NoOrder]
  <2>1. run[p].at \in AllLegs
    BY <1>2, <1>3 DEF Resolve, At, AtLeg
  <2>2. pending' = pending \/ pending' = [pending EXCEPT ![run[p].at] = NoOrder]
    BY <1>3 DEF Resolve, Forget, memoryVars
  <2> QED BY <2>1, <2>2
<1>4. \/ pending' = pending
      \/ May("exit_doubtful")
      \/ \E l \in AllLegs : pending' = [pending EXCEPT ![l] = NoOrder]
  BY <1>3 DEF LegStep, LegIsClosed, CloseLeg, Place, CloseTaken, CloseFailed, CloseDoubtful,
              engineVars, memoryVars
<1> QED BY <1>1, <1>4, DoubtsStay

\* On the structure's last day the square-off closes what the broker holds.
LEMMA SquareLegAhead ==
    ASSUME Base, In(Cycle, "squareoff"), struct.tracked, NEW k \in run[Cycle].todo
    PROVE  /\ Late /\ At(Fast, "idle") /\ k \in Legs /\ LegInv(k) /\ LegOK(k) /\ ClosedOK(k)
           /\ run[Cycle].qty[k] = held[k] /\ held[k] # 0 /\ pending = NoPending /\ ~At(Cycle, "resolve")
           /\ \A l \in Legs : ~Remembered(l)
           /\ ~Entering /\ ~May("positions_fail") /\ ~May("exit_doubtful")
           /\ \A l \in Legs : ~TakenClosed(Fast, l) /\ ~ToClose(Fast, l)
<1>1. Late
  BY DEF Base, LegsInv, SquareOK
<1>2. At(Fast, "idle") /\ ~May("positions_fail") /\ ~May("exit_doubtful") /\ pending = NoPending
  BY <1>1, CalmIs DEF Base, LegsInv, NoDoubts
<1>3. run[Cycle].qty[k] = held[k] /\ held[k] # 0 /\ ~At(Cycle, "resolve")
  BY DEF Base, LegsInv, SquareOK
<1>4. k \in Legs
  BY LocalsAre, ProcsAre DEF Base, LocalsTell
<1>5. \A l \in Legs : LegInv(l)
  BY DEF Base, LegsInv
<1>6. \A l \in Legs : ~Remembered(l)
  BY <1>2, <1>5 DEF LegInv, DoubtOK
<1>7. LegOK(k) /\ ClosedOK(k)
  BY <1>4, <1>5 DEF LegInv, Live
<1>8. Fresh(run[Fast])
  BY <1>2, LocalsAre, ProcsAre DEF Base, LocalsTell, At, Between
<1>9. ~Entering
  BY DEF Entering, In
<1> QED BY <1>1, <1>2, <1>3, <1>4, <1>5, <1>6, <1>7, <1>8, <1>9 DEF Fresh, TakenClosed, ToClose

LEMMA SquareLegsGo ==
    ASSUME Base, In(Cycle, "squareoff"), struct.tracked, LegStep(Cycle), NEW k \in run[Cycle].todo,
           \A l \in Legs : LegInv(l)',
           \A l \in run'[Cycle].todo : run'[Cycle].qty[l] = held'[l] /\ held'[l] # 0,
           ~At(Cycle, "resolve")'
    PROVE  LegsInv'
<1> USE ProcsAre
<1>1. /\ run'[Cycle].pc \in Steps /\ run'[Cycle].mode = run[Cycle].mode
      /\ run'[Fast] = run[Fast] /\ struct'.tracked = struct.tracked /\ scene' = scene
  BY LegStepIs DEF Base, Steps
<1>2. Late /\ At(Fast, "idle")
  BY SquareLegAhead
<1>3. AtOK(Fast)' /\ DropOK(Fast)' /\ AtOK(Cycle)' /\ DropOK(Cycle)'
  BY <1>1, <1>2 DEF AtOK, DropOK, At, In, Steps, AtLeg
<1>4. SquareOK'
  BY <1>1, <1>2 DEF SquareOK, Late
<1>5. NoDoubts'
  BY LegStepDoubts DEF Base, LegsInv
<1>6. Legs' = Legs
  BY <1>1 DEF Legs
<1> QED BY <1>3, <1>4, <1>5, <1>6 DEF LegsInv, Procs

LEMMA SquareLegKeeps ==
    ASSUME Base, In(Cycle, "squareoff"), struct.tracked, LegStep(Cycle) PROVE LegsInv'
<1> USE ProcsAre
<1>1. ASSUME NEW k \in Legs, CloseLeg(Cycle, k) PROVE LegsInv'
  <2> DEFINE r == [run[Cycle] EXCEPT !.at = k, !.id = InDoubt(Cycle, k),
                                     !.pc = IF InDoubt(Cycle, k) = NoOrder THEN "place" ELSE "resolve"]
  <2>1. /\ run[Cycle].pc = "scan" /\ k \in run[Cycle].todo /\ Become(Cycle, r)
        /\ UNCHANGED <<held, order, struct, scene>>
    BY <1>1 DEF CloseLeg, IsNext, At, brokerVars, engineVars, memoryVars, worldVars
  <2>2. InDoubt(Cycle, k) = NoOrder
    BY <2>1, SquareLegAhead, LegsAre DEF InDoubt, In, NoPending
  <2>3. /\ r.pc = "place"
        /\ r.mode = run[Cycle].mode /\ r.known = run[Cycle].known /\ r.todo = run[Cycle].todo
        /\ r.ok = run[Cycle].ok /\ r.qty = run[Cycle].qty
    BY <2>2, LocalsAre DEF Locals, Base
  <2> HIDE DEF r
  <2>4. run'[Cycle] = r /\ Shift(Cycle, NoLeg)
    BY <2>1, <2>3, GoesOn DEF Base, Steps, AtLeg
  <2>5. \A l \in Legs : LegInv(l)'
    BY <2>1, <2>4, SameIs, ShiftSame, LegStays, LegsAre DEF Base, LegsInv, In
  <2>6. \A l \in run'[Cycle].todo : run'[Cycle].qty[l] = held'[l] /\ held'[l] # 0
    BY <2>1, <2>3, <2>4 DEF Base, LegsInv, SquareOK
  <2> QED BY <2>1, <2>3, <2>4, <2>5, <2>6, SquareLegsGo DEF At
<1>2. ASSUME Place(Cycle) PROVE LegsInv'
  <2> DEFINE r == [run[Cycle] EXCEPT !.pc = "sent"]
  <2>1. /\ run[Cycle].pc = "place" /\ Become(Cycle, r)
        /\ UNCHANGED <<held, order, struct, scene>>
    BY <1>2 DEF Place, At, Goto, Become, brokerVars, engineVars, memoryVars, worldVars
  <2>2. /\ r.pc = "sent"
        /\ r.mode = run[Cycle].mode /\ r.known = run[Cycle].known /\ r.todo = run[Cycle].todo
        /\ r.ok = run[Cycle].ok /\ r.qty = run[Cycle].qty
    BY LocalsAre DEF Locals, Base
  <2> HIDE DEF r
  <2>3. run'[Cycle] = r /\ Shift(Cycle, NoLeg)
    BY <2>1, <2>2, GoesOn DEF Base, Steps, AtLeg
  <2>4. \A l \in Legs : LegInv(l)'
    BY <2>1, <2>3, SameIs, ShiftSame, LegStays, LegsAre DEF Base, LegsInv, In
  <2>5. \A l \in run'[Cycle].todo : run'[Cycle].qty[l] = held'[l] /\ held'[l] # 0
    BY <2>1, <2>2, <2>3 DEF Base, LegsInv, SquareOK
  <2>6. run[Cycle].at \in run[Cycle].todo
    BY <2>1, LocalsAre DEF Base, LocalsTell, AtLeg
  <2> QED BY <2>2, <2>3, <2>4, <2>5, <2>6, SquareLegsGo DEF At
<1>3. ASSUME NEW k, k = run[Cycle].at, run[Cycle].pc = "sent",
             UNCHANGED <<order, struct, scene>>, \A l \in Legs \ {k} : held'[l] = held[l],
             \/ Onward(Cycle, k, TRUE) /\ held'[k] = 0
             \/ Onward(Cycle, k, FALSE) /\ held'[k] = held[k]
      PROVE  LegsInv'
  <2>1. k \in run[Cycle].todo
    BY <1>3, LocalsAre DEF Base, LocalsTell, AtLeg
  <2>2. /\ k \in Legs /\ LegInv(k) /\ LegOK(k) /\ ClosedOK(k) /\ ~Entering /\ ~Remembered(k)
        /\ \A l \in run[Cycle].todo : run[Cycle].qty[l] = held[l] /\ held[l] # 0
        /\ ~May("positions_fail")
        /\ \A l \in Legs : ~TakenClosed(Fast, l) /\ ~ToClose(Fast, l)
    BY <2>1, SquareLegAhead
  <2>3. /\ Shift(Cycle, k) /\ run'[Cycle].pc = "scan" /\ k \notin run'[Cycle].todo
        /\ Onward(Cycle, k, FALSE) => (k \in run'[Cycle].ok <=> k \in run[Cycle].ok)
    BY <1>3, <2>2, OnwardShifts DEF Base, Steps, AtLeg
  <2>4. \A l \in Legs \ {k} : LegInv(l)'
    <3>1. \A l \in Legs \ {k} : LegSame(l)
      BY <1>3 DEF LegSame, StateSame, OrdersSame
    <3> QED BY <1>3, <2>3, <3>1, ShiftSame, LegStays DEF Base, LegsInv, In
  <2>5. LegInv(k)'
    <3>1. ~Entering' /\ ~TakenClosed(Fast, k)' /\ ~ToClose(Fast, k)' /\ ~ToClose(Cycle, k)'
      BY <2>2, <2>3 DEF Shift, Entering, In, TakenClosed, ToClose
    <3>2. LegOK(k)' /\ ~Remembered(k)'
      BY <1>3, <2>2 DEF LegOK, Remembered, FliesAt, RestsAt, May, Opening, IsShort
    <3>3. ASSUME ~May("entries_rest")', k \in struct'.done \/ TakenClosed(Cycle, k)'
          PROVE  held'[k] = 0
      <4>1. CASE held'[k] = 0
        BY <4>1
      <4>2. CASE Onward(Cycle, k, FALSE) /\ held'[k] = held[k]
        <5>1. k \in struct.done \/ TakenClosed(Cycle, k)
          BY <1>3, <2>3, <3>3, <4>2 DEF TakenClosed, Shift
        <5> QED BY <1>3, <2>2, <3>3, <4>2, <5>1 DEF ClosedOK, May
      <4> QED BY <1>3, <4>1, <4>2
    <3> QED BY <1>3, <2>2, <3>1, <3>2, <3>3, LegBecomes DEF Procs, May
  <2>6. \A l \in run'[Cycle].todo : run'[Cycle].qty[l] = held'[l] /\ held'[l] # 0
    <3>1. run[Cycle].todo \subseteq Legs
      BY LocalsAre DEF Base, LocalsTell
    <3>2. run'[Cycle].todo \subseteq Legs \ {k} /\ run'[Cycle].todo \subseteq run[Cycle].todo
      <4>1. k \in AllLegs
        BY <2>2, LegsAre
      <4>2. run'[Cycle].todo = run[Cycle].todo \ {k}
        BY <1>3, <4>1, OnwardIs DEF Base
      <4> QED BY <3>1, <4>2
    <3> QED BY <1>3, <2>2, <2>3, <3>2 DEF Shift
  <2> QED BY <2>1, <2>3, <2>4, <2>5, <2>6, SquareLegsGo DEF At
<1>4. ASSUME CloseTaken(Cycle) PROVE LegsInv'
  <2> SUFFICES ASSUME NEW k, k = run[Cycle].at PROVE LegsInv'
    OBVIOUS
  <2>1. /\ run[Cycle].pc = "sent" /\ UNCHANGED <<order, struct, scene>>
        /\ held' = [held EXCEPT ![k] = @ + Lots(Cycle)] /\ Onward(Cycle, k, TRUE)
    BY <1>4 DEF CloseTaken, Sent, At, engineVars, memoryVars, worldVars
  <2>2. k \in run[Cycle].todo
    BY <2>1, LocalsAre DEF Base, LocalsTell, AtLeg
  <2>3. run[Cycle].qty[k] = held[k] /\ k \in AllLegs
    BY <2>2, SquareLegAhead, LegsAre
  <2>4. Lots(Cycle) = -held[k] /\ held \in [AllLegs -> Int]
    BY <2>3, BrokerIs DEF Lots, In, Base, Typed, TypeOK
  <2>5. held'[k] = 0 /\ \A l \in Legs \ {k} : held'[l] = held[l]
    BY <2>1, <2>3, <2>4, LegsAre
  <2> QED BY <1>3, <2>1, <2>5
<1>5. ASSUME CloseFailed(Cycle) PROVE LegsInv'
  <2>1. /\ run[Cycle].pc = "sent" /\ UNCHANGED <<held, order, struct, scene>>
        /\ Onward(Cycle, run[Cycle].at, FALSE)
    BY <1>5 DEF CloseFailed, Sent, At, brokerVars, engineVars, memoryVars, worldVars
  <2> QED BY <1>3, <2>1
<1>6. ASSUME NEW k \in run[Cycle].todo PROVE ~Resolve(Cycle) /\ ~CloseDoubtful(Cycle)
  BY <1>6, SquareLegAhead DEF Resolve, CloseDoubtful
<1>7. run[Cycle].pc \in AtLeg => run[Cycle].at \in run[Cycle].todo
  BY LocalsAre DEF Base, LocalsTell
<1>8. ~Resolve(Cycle) /\ ~CloseDoubtful(Cycle) /\ \A k \in Legs : ~LegIsClosed(Cycle, k)
  BY <1>6, <1>7 DEF Resolve, CloseDoubtful, Sent, At, AtLeg, LegIsClosed, In
<1> QED BY <1>1, <1>2, <1>4, <1>5, <1>8 DEF LegStep

LEMMA LegStepLegs ==
    ASSUME Base, NEW p \in Procs, LegStep(p) PROVE LegsInv'
<1>1. In(p, "exit") \/ (p = Cycle /\ run[Cycle].mode \in {"entry", "unwind", "squareoff"})
  BY CalmIs DEF Procs, In
<1>2. CASE In(p, "exit")
  BY <1>2, ExitLegKeeps
<1>3. CASE p = Cycle /\ In(Cycle, "squareoff") /\ struct.tracked
  BY <1>3, SquareLegKeeps
<1>4. CASE p = Cycle /\ In(Cycle, "entry")
  <2>1. run[Cycle].pc \notin {"resolve", "place"}
    BY <1>4, LocalsAre, ProcsAre DEF Base, LocalsTell, In
  <2> QED BY <1>4, <2>1 DEF LegStep, LegIsClosed, CloseLeg, Resolve, Place, CloseTaken, CloseFailed,
                            CloseDoubtful, Sent, At, In
<1>5. CASE p = Cycle /\ (In(Cycle, "unwind") \/ (In(Cycle, "squareoff") /\ ~struct.tracked))
  <2>1. /\ run'[Cycle].pc \in Steps /\ run'[Cycle].mode = run[Cycle].mode
        /\ run'[Fast] = run[Fast] /\ struct'.tracked = struct.tracked /\ scene' = scene
    BY <1>5, LegStepIs, ProcsAre DEF Base, Steps
  <2>2. ~struct'.tracked /\ ~Entering'
    BY <1>5, <2>1, CalmIs DEF In, Entering
  <2>3. DropOK(Cycle)' /\ DropOK(Fast)'
    BY <2>1, ProcsAre DEF DropOK, At, Steps, AtLeg, Base, LegsInv, Legs
  <2>4. NoDoubts'
    BY LegStepDoubts DEF Base, LegsInv
  <2> QED BY <2>2, <2>3, <2>4, NoneLive DEF Procs
<1> QED BY <1>1, <1>2, <1>3, <1>4, <1>5 DEF In

-----------------------------------------------------------------------------
(* The steps between the legs.                                             *)

\* The coroutine that is inside an exit is the only one that closes legs.
LEMMA NobodyElse ==
    ASSUME Base, NEW p \in Procs, Inside(p), struct.tracked
    PROVE  /\ \A q \in Procs \ {p}, l \in Legs : ~TakenClosed(q, l) /\ ~ToClose(q, l)
           /\ \A q \in Procs \ {p} : run[q].pc \in AtLeg => ~In(q, "exit")
           /\ ~Entering
<1>1. ~Entering
  BY CalmIs DEF Entering, In
<1>2. In(Cycle, "squareoff") => run[Cycle].todo = {} /\ run[Cycle].ok = {}
  <2>1. In(Cycle, "squareoff") => p = Fast /\ ~At(Fast, "idle")
    BY DEF Procs, In, At, Inside, AtLeg
  <2> QED BY <2>1, CalmIs DEF Base, LegsInv, SquareOK
<1>3. ASSUME NEW q \in Procs \ {p}, NEW l \in Legs
      PROVE ~TakenClosed(q, l) /\ ~ToClose(q, l) /\ (run[q].pc \in AtLeg => ~In(q, "exit"))
  <2>1. CASE In(q, "exit")
    <3>1. run[q].todo = {} /\ run[q].ok = {} /\ run[q].pc \in Between
      BY <2>1, OthersAre DEF Base
    <3> QED BY <3>1 DEF TakenClosed, ToClose, Between, AtLeg
  <2>2. CASE In(q, "squareoff")
    <3>1. q = Cycle
      BY <2>2, CalmIs DEF Procs, In
    <3> QED BY <1>2, <2>2, <3>1 DEF TakenClosed, ToClose, In
  <2>3. CASE ~In(q, "exit") /\ ~In(q, "squareoff")
    BY <2>3 DEF TakenClosed, ToClose, In
  <2> QED BY <2>1, <2>2, <2>3
<1>4. 1 \in Legs
  BY DEF Legs, SpreadLegs, CondorLegs, AllLegs
<1> QED BY <1>1, <1>3, <1>4

\* One coroutine moves and is not at a leg after it; the legs stay as they are.
LEMMA BetweenGoes ==
    ASSUME Base, NEW p \in Procs, \A q \in Procs \ {p} : run'[q] = run[q],
           UNCHANGED <<held, order, struct, pending, scene>>,
           \A l \in Legs : TakenClosed(p, l)' <=> TakenClosed(p, l),
           ~In(p, "entry")', In(p, "exit")' => run'[p].pc \notin Steps,
           DropOK(p)', p = Cycle => SquareOK'
    PROVE  LegsInv'
<1>1. ASSUME NEW l \in Legs PROVE LegInv(l)'
  <2>1. Entering' => Entering /\ run'[Cycle] = run[Cycle]
    BY ProcsAre DEF Entering, In
  <2>2. \A q \in Procs \ {p} : /\ TakenClosed(q, l)' <=> TakenClosed(q, l)
                               /\ ToClose(q, l)' <=> ToClose(q, l)
    BY DEF TakenClosed, ToClose, In
  <2>3. ~ToClose(p, l)'
    BY DEF ToClose
  <2>4. RunSame(l)
    BY <2>1, <2>2, <2>3 DEF RunSame
  <2> QED BY <2>4, SameIs, LegStays DEF Base, LegsInv
<1>2. \A q \in Procs \ {p} : AtOK(q)' /\ DropOK(q)'
  BY OtherStays DEF Base, LegsInv
<1>3. AtOK(p)'
  BY DEF AtOK, Steps
<1>4. p = Fast => SquareOK'
  BY ProcsAre DEF Base, LegsInv, SquareOK, In, At, Late
<1>5. NoDoubts'
  BY DEF Base, LegsInv, NoDoubts, May
<1>6. Legs' = Legs
  BY DEF Legs
<1> QED BY <1>1, <1>2, <1>3, <1>4, <1>5, <1>6 DEF LegsInv, Procs

\* A coroutine that is not in a walk, neither before nor after.
LEMMA QuietGoes ==
    ASSUME Base, Typed', NEW p \in Procs, \A q \in Procs \ {p} : run'[q] = run[q],
           UNCHANGED <<held, order, struct, pending, scene>>,
           run[p].pc \in Between, run'[p].pc \in Between
    PROVE  LegsInv'
<1>1. Fresh(run[p]) /\ Fresh(run'[p])
  <2>1. LocalsTell(run[p], p)
    BY LocalsAre DEF Base
  <2>2. run'[p].pc \in Between => Fresh(run'[p])
    BY DEF Typed, LabelsOK, LocalsTell
  <2> QED BY <2>1, <2>2 DEF LocalsTell
<1>2. \A l \in Legs : TakenClosed(p, l)' <=> TakenClosed(p, l)
  BY <1>1 DEF Fresh, TakenClosed
<1>3. run'[p].mode = "exit" /\ run'[p].pc \notin Steps /\ ~At(p, "drop")'
  BY <1>1 DEF Fresh, Between, Steps, AtLeg, At
<1> QED BY <1>2, <1>3, BetweenGoes DEF In, DropOK, SquareOK

\* A rule says exit: what is read of the positions tells what is owed.
LEMMA ExitReasonLegs ==
    ASSUME Base, NEW p \in Procs, ExitReason(p) PROVE LegsInv'
<1>1. /\ run[p].pc = "check" /\ struct.tracked
      /\ UNCHANGED <<held, order, struct, pending, scene>>
  BY DEF ExitReason, At, brokerVars, engineVars, memoryVars, worldVars
<1>2. PICK positions \in Positions : Walk(p, "exit", Legs, positions)
  BY DEF ExitReason
<1>3. /\ run'[p].pc = "scan" /\ run'[p].mode = "exit" /\ run'[p].ok = {}
      /\ run'[p].known = positions.known /\ run'[p].qty = positions.qty
      /\ \A q \in Procs \ {p} : run'[q] = run[q]
  BY <1>2, WalkIs DEF Base
<1>4. Fresh(run[p]) /\ Inside(p)
  BY <1>1, LocalsAre DEF Base, LocalsTell, Between, Fresh, Inside
<1>5. /\ \A q \in Procs \ {p}, l \in Legs : ~TakenClosed(q, l) /\ ~ToClose(q, l)
      /\ \A q \in Procs \ {p} : run[q].pc \in AtLeg => ~In(q, "exit")
      /\ ~Entering
  BY <1>1, <1>4, NobodyElse
<1>6. ASSUME NEW l \in Legs PROVE LegInv(l)'
  <2>1. LegInv(l) /\ LegOK(l) /\ (Remembered(l) => DoubtOK(l)) /\ ClosedOK(l) /\ OpenOK(l)
    BY <1>1 DEF Base, LegsInv, LegInv, Live
  <2>2. StateSame(l)
    BY <1>1, SameIs
  <2>3. LegOK(l)' /\ (Remembered(l)' => DoubtOK(l)') /\ (Owed(l) => Owed(l)')
    BY <1>1, <2>1, <2>2, StateStays DEF Base
  <2>4. ~TakenClosed(p, l) /\ ~TakenClosed(p, l)'
    BY <1>3, <1>4 DEF TakenClosed, Fresh
  <2>5. \A q \in Procs : ~TakenClosed(q, l)
    BY <1>5, <2>4
  <2>6. \A q \in Procs \ {p} : ~TakenClosed(q, l)' /\ ~ToClose(q, l)'
    BY <1>3, <1>5 DEF TakenClosed, ToClose, In
  <2>7. ~Entering'
    BY <1>3, <1>5, ProcsAre DEF Entering, In
  <2>8. ReadOK(p, l)'
    <3>1. l \in AllLegs /\ Opening(l) \in {1, -1}
      BY LegsAre
    <3>2. \/ positions.known /\ positions.qty = held
          \/ ~positions.known /\ May("positions_fail")
      BY DEF Positions
    <3>3. positions.known /\ positions.qty[l] # 0 => Owed(l)'
      BY <2>1, <2>3, <3>2 DEF LegOK, Owed
    <3> QED BY <1>1, <1>3, <3>2, <3>3 DEF ReadOK, May
  <2> QED BY <1>1, <2>1, <2>3, <2>4, <2>5, <2>6, <2>7, <2>8, LegBecomes DEF ClosedOK, OpenOK, May
<1>7. \A q \in Procs \ {p} : AtOK(q)' /\ DropOK(q)'
  BY <1>1, <1>3, OtherStays DEF Base, LegsInv
<1>8. AtOK(p)' /\ DropOK(p)'
  BY <1>3 DEF AtOK, DropOK, At, AtLeg
<1>9. SquareOK'
  <2>1. ASSUME In(Cycle, "squareoff")' PROVE run'[Cycle] = run[Cycle] /\ In(Cycle, "squareoff")
    BY <1>3, <2>1, ProcsAre DEF In
  <2> QED BY <1>1, <2>1 DEF Base, LegsInv, SquareOK, In, At, Late
<1>10. NoDoubts'
  BY <1>1 DEF Base, LegsInv, NoDoubts, May
<1>11. Legs' = Legs
  BY <1>1 DEF Legs
<1> QED BY <1>6, <1>7, <1>8, <1>9, <1>10, <1>11 DEF LegsInv

\* The legs that have been closed are remembered as such.
LEMMA ExitPartlyLegs ==
    ASSUME Base, Typed', NEW p \in Procs, NEW kind, ExitPartly(kind, p) PROVE LegsInv'
<1>1. /\ run[p].pc = "scan" /\ run[p].mode = "exit" /\ Leave(p)
      /\ UNCHANGED <<held, order, pending, scene>>
      /\ struct' = [struct EXCEPT !.done = @ \cup run[p].ok, !.stops = @ \ run[p].ok]
  BY DEF ExitPartly, WalkDone, At, In, worldVars
<1>2. /\ struct'.tracked = struct.tracked /\ struct'.pend = struct.pend
      /\ struct'.done = struct.done \cup run[p].ok
  BY <1>1, MemoryIs DEF Base, Typed, TypeOK, Structs
<1>3. /\ run'[p].pc = (IF p = Cycle THEN "entries" ELSE "idle") /\ run'[p].mode = "exit"
      /\ \A q \in Procs \ {p} : run'[q] = run[q]
  BY <1>1, LeaveIs DEF Base, In
<1>4. Fresh(run'[p])
  BY <1>3 DEF Typed, LabelsOK, LocalsTell, Between
<1>5. Inside(p) /\ struct.tracked
  <2>1. Inside(p)
    BY <1>1 DEF Inside
  <2>2. CASE p = Cycle
    BY <1>1, <2>1, <2>2, CalmIs DEF Closing, In
  <2>3. CASE p = Fast
    BY <1>1, <2>1, <2>3, CalmIs DEF At
  <2> QED BY <2>1, <2>2, <2>3 DEF Procs
<1>6. /\ \A q \in Procs \ {p}, l \in Legs : ~TakenClosed(q, l) /\ ~ToClose(q, l)
      /\ \A q \in Procs \ {p} : run[q].pc \in AtLeg => ~In(q, "exit")
      /\ ~Entering
  BY <1>5, NobodyElse
<1>7. ASSUME NEW l \in Legs PROVE LegInv(l)'
  <2>1. LegInv(l) /\ LegOK(l) /\ (Remembered(l) => DoubtOK(l)) /\ ClosedOK(l) /\ OpenOK(l)
    BY <1>5 DEF Base, LegsInv, LegInv, Live
  <2>2. StateSame(l)
    BY <1>1, <1>2 DEF StateSame, OrdersSame
  <2>3. LegOK(l)' /\ (Remembered(l)' => DoubtOK(l)') /\ (Owed(l) => Owed(l)')
    BY <1>1, <1>5, <2>1, <2>2, StateStays DEF Base
  <2>4. ~TakenClosed(p, l)' /\ ~ToClose(p, l)'
    BY <1>3, <1>4 DEF TakenClosed, ToClose, Fresh
  <2>5. \A q \in Procs \ {p} : ~TakenClosed(q, l)' /\ ~ToClose(q, l)'
    BY <1>3, <1>6 DEF TakenClosed, ToClose, In
  <2>6. ~Entering'
    BY <1>3, <1>6, ProcsAre DEF Entering, In
  <2>7. l \in struct'.done <=> l \in struct.done \/ TakenClosed(p, l)
    BY <1>1, <1>2 DEF TakenClosed
  <2>8. (\E q \in Procs : TakenClosed(q, l)) <=> TakenClosed(p, l)
    BY <1>6
  <2>9. ~May("entries_rest")' /\ l \in struct'.done => held'[l] = 0
    BY <1>1, <2>1, <2>7, <2>8 DEF ClosedOK, May
  <2>10. May("positions_fail")' /\ l \notin struct'.done => Owed(l)'
    BY <1>1, <2>1, <2>3, <2>7, <2>8 DEF OpenOK, May
  <2> QED BY <2>3, <2>4, <2>5, <2>6, <2>9, <2>10, LegBecomes
<1>8. \A q \in Procs \ {p} : AtOK(q)' /\ DropOK(q)'
  BY <1>1, <1>2, <1>3, <1>6, OtherStays DEF Base, LegsInv
<1>9. AtOK(p)' /\ DropOK(p)'
  BY <1>3 DEF AtOK, DropOK, At, AtLeg
<1>10. SquareOK'
  <2>1. ASSUME In(Cycle, "squareoff")' PROVE run'[Cycle] = run[Cycle] /\ In(Cycle, "squareoff")
    BY <1>3, <2>1, ProcsAre DEF In
  <2> QED BY <1>1, <1>2, <2>1 DEF Base, LegsInv, SquareOK, In, At, Late
<1>11. NoDoubts'
  BY <1>1 DEF Base, LegsInv, NoDoubts, May
<1>12. Legs' = Legs
  BY <1>1 DEF Legs
<1> QED BY <1>7, <1>8, <1>9, <1>10, <1>11, <1>12 DEF LegsInv

LEMMA ExitFullyLegs ==
    ASSUME Base, NEW p \in Procs, NEW kind, ExitFully(kind, p) PROVE LegsInv'
<1>1. /\ run[p].mode = "exit" /\ Goto(p, "drop") /\ run[p].ok = Legs
      /\ UNCHANGED <<held, order, struct, pending, scene>>
  BY DEF ExitFully, WalkDone, In, memoryVars, worldVars
<1>2. /\ run'[p].pc = "drop" /\ run'[p].mode = "exit" /\ run'[p].ok = Legs
      /\ \A q \in Procs \ {p} : run'[q] = run[q]
  BY <1>1, GotoIs DEF Base
<1>3. \A l \in Legs : TakenClosed(p, l)' <=> TakenClosed(p, l)
  BY <1>1, <1>2 DEF TakenClosed
<1>4. DropOK(p)' /\ ~In(p, "entry")' /\ run'[p].pc \notin Steps /\ (p = Cycle => SquareOK')
  BY <1>1, <1>2 DEF DropOK, In, Legs, SquareOK, Steps, AtLeg
<1> QED BY <1>1, <1>2, <1>3, <1>4, BetweenGoes

LEMMA DropLegs ==
    ASSUME Base, NEW p \in Procs, Drop(p) PROVE LegsInv'
<1>1. /\ run[p].pc = "drop" /\ Leave(p) /\ UNCHANGED <<pending, scene>>
      /\ struct.tracked => struct' = NoStruct
  BY DEF Drop, At, memoryVars, worldVars
<1>2. struct.tracked
  <2>1. CASE p = Cycle
    BY <1>1, <2>1, CalmIs DEF At
  <2>2. CASE p = Fast
    BY <1>1, <2>2, CalmIs DEF At
  <2> QED BY <2>1, <2>2 DEF Procs
<1>3. /\ run'[p].pc \in {"entries", "idle"} /\ run'[p].mode = "exit"
      /\ \A q \in Procs \ {p} : run'[q] = run[q]
  BY <1>1, LeaveIs DEF Base
<1>4. ~struct'.tracked
  BY <1>1, <1>2, BlanksAre
<1>5. ~Entering'
  BY <1>2, <1>3, ProcsAre, CalmIs DEF Entering, In
<1>6. \A q \in Procs : DropOK(q)'
  BY <1>1, <1>3 DEF DropOK, At, Base, LegsInv, Legs
<1>7. NoDoubts'
  BY <1>1 DEF Base, LegsInv, NoDoubts, May
<1> QED BY <1>4, <1>5, <1>6, <1>7, NoneLive

LEMMA ExitStepLegs ==
    ASSUME Base, Typed', NEW p \in Procs, ExitStep(p) PROVE LegsInv'
<1>1. CASE NoExitReason(p)
  <2>1. /\ run[p].pc = "check" /\ Leave(p) /\ UNCHANGED <<held, order, struct, pending, scene>>
    BY <1>1 DEF NoExitReason, At, brokerVars, engineVars, memoryVars, worldVars
  <2>2. run'[p].pc \in {"entries", "idle"} /\ \A q \in Procs \ {p} : run'[q] = run[q]
    BY <2>1, LeaveIs DEF Base
  <2> QED BY <2>1, <2>2, QuietGoes DEF Between
<1> QED BY <1>1, ExitReasonLegs, ExitPartlyLegs, ExitFullyLegs, DropLegs
        DEF ExitStep, SpreadExitPartly, CondorExitPartly, SpreadExitFully, CondorExitFully

\* The square-off begins: a structure's legs are read only on its last day, and then surely.
LEMMA SquareOffBegins ==
    ASSUME Base, SquareOff PROVE LegsInv'
<1> USE ProcsAre
<1>1. run[Cycle].pc = "idle" /\ UNCHANGED <<held, order, struct, pending, scene>>
  BY DEF SquareOff, At, brokerVars, engineVars, memoryVars, worldVars
<1>2. PICK positions \in Positions :
        Become(Cycle, [Idle EXCEPT
            !.pc = "scan", !.mode = "squareoff", !.due = EndsToday,
            !.known = positions.known, !.qty = positions.qty,
            !.todo = IF struct.tracked /\ ~EndsToday THEN {}
                     ELSE {l \in Legs : positions.qty[l] # 0}])
  BY DEF SquareOff
<1> DEFINE todo == IF struct.tracked /\ ~EndsToday THEN {} ELSE {l \in Legs : positions.qty[l] # 0}
           r == [Idle EXCEPT !.pc = "scan", !.mode = "squareoff", !.due = EndsToday,
                             !.known = positions.known, !.qty = positions.qty, !.todo = todo]
<1>3. /\ r.pc = "scan" /\ r.mode = "squareoff" /\ r.ok = {} /\ r.qty = positions.qty /\ r.todo = todo
  BY IdleIs DEF Locals, Fresh
<1>4. Become(Cycle, r)
  BY <1>2
<1> HIDE DEF r
<1>5. run'[Cycle] = r /\ run'[Fast] = run[Fast]
  BY <1>4, Becomes DEF Base
<1>6. Fresh(run[Cycle])
  BY <1>1, LocalsAre DEF Base, LocalsTell, Between
<1>7. \A l \in Legs : TakenClosed(Cycle, l)' <=> TakenClosed(Cycle, l)
  BY <1>3, <1>5, <1>6 DEF Fresh, TakenClosed
<1>8. SquareOK'
  <2>1. ASSUME struct.tracked, EndsToday
        PROVE  Late /\ positions.qty = held
    <3>1. Late
      BY <2>1, CalmIs DEF EndsToday
    <3> QED BY <3>1, CalmIs DEF Positions
  <2>2. CASE ~struct.tracked
    BY <1>1, <2>2 DEF SquareOK
  <2>3. CASE struct.tracked /\ EndsToday
    <3>1. Late' /\ \A l \in run'[Cycle].todo : run'[Cycle].qty[l] = held'[l] /\ held'[l] # 0
      BY <1>1, <1>3, <1>5, <2>1, <2>3 DEF Late
    <3> QED BY <1>3, <1>5, <3>1 DEF SquareOK, At
  <2>4. CASE struct.tracked /\ ~EndsToday
    BY <1>1, <1>3, <1>5, <2>4 DEF SquareOK, At
  <2> QED BY <2>2, <2>3, <2>4
<1>9. DropOK(Cycle)' /\ ~In(Cycle, "entry")' /\ ~In(Cycle, "exit")'
  BY <1>3, <1>5 DEF DropOK, At, In
<1> QED BY <1>1, <1>5, <1>7, <1>8, <1>9, BetweenGoes DEF Procs

\* The square-off has closed every leg.
LEMMA SquareOffCloses ==
    ASSUME Base, Typed', NEW kind, SquareOffStructure(kind) PROVE LegsInv'
<1> USE ProcsAre
<1>1. /\ In(Cycle, "squareoff") /\ Goto(Cycle, "drop") /\ run[Cycle].ok = Legs /\ struct.tracked
      /\ UNCHANGED <<held, order, struct, pending, scene>>
  BY DEF SquareOffStructure, WalkDone, memoryVars, worldVars
<1>2. /\ run'[Cycle].pc = "drop" /\ run'[Cycle].mode = "squareoff" /\ run'[Cycle].ok = Legs
      /\ run'[Fast] = run[Fast]
  BY <1>1, GotoIs DEF Base, In
<1>3. run'[Cycle].todo = {}
  BY <1>2 DEF Typed, LabelsOK, LocalsTell
<1>4. \A l \in Legs : TakenClosed(Cycle, l)' <=> TakenClosed(Cycle, l)
  BY <1>1, <1>2 DEF TakenClosed, In
<1>5. SquareOK'
  BY <1>1, <1>2, <1>3 DEF SquareOK, Late, At, Base, LegsInv
<1>6. DropOK(Cycle)' /\ ~In(Cycle, "entry")' /\ ~In(Cycle, "exit")'
  BY <1>1, <1>2 DEF DropOK, In, Legs
<1> QED BY <1>1, <1>2, <1>4, <1>5, <1>6, BetweenGoes DEF Procs

LEMMA SquareOffEnds ==
    ASSUME Base, Typed', SquareOffDone PROVE LegsInv'
<1> USE ProcsAre
<1>1. /\ In(Cycle, "squareoff") /\ UNCHANGED <<held, order, struct, pending, scene>>
      /\ Become(Cycle, Idle)
  BY DEF SquareOffDone, WalkDone, brokerVars, memoryVars, worldVars
<1>2. /\ run'[Cycle] = Idle /\ run'[Fast] = run[Fast]
      /\ run'[Cycle].mode = "exit" /\ run'[Cycle].pc = "idle" /\ run'[Cycle].ok = {}
  BY <1>1, Becomes, IdleIs DEF Base, Fresh
<1>3. DropOK(Cycle)' /\ DropOK(Fast)' /\ AtOK(Cycle)' /\ SquareOK' /\ ~Entering'
  BY <1>1, <1>2 DEF DropOK, AtOK, SquareOK, At, In, AtLeg, Base, LegsInv, Entering, Legs
<1>4. NoDoubts'
  BY <1>1 DEF Base, LegsInv, NoDoubts, May
<1>5. CASE ~struct.tracked
  BY <1>1, <1>3, <1>4, <1>5, NoneLive DEF Procs
<1>6. CASE struct.tracked /\ ~Late
  <2>1. run[Cycle].ok = {}
    BY <1>1, <1>6 DEF Base, LegsInv, SquareOK
  <2>2. \A l \in Legs : TakenClosed(Cycle, l)' <=> TakenClosed(Cycle, l)
    BY <1>2, <2>1 DEF TakenClosed
  <2>3. ~In(Cycle, "entry")' /\ run'[Cycle].pc \notin Steps
    BY <1>2 DEF In, Steps, AtLeg
  <2> QED BY <1>1, <1>2, <1>3, <2>2, <2>3, BetweenGoes DEF Procs
<1>7. CASE struct.tracked /\ Late
  <2>1. At(Fast, "idle") /\ ~May("positions_fail")
    BY <1>7, CalmIs
  <2>2. Fresh(run[Fast])
    BY <2>1, LocalsAre DEF Base, LocalsTell, Between, At
  <2>3. ASSUME NEW l \in Legs PROVE LegInv(l)'
    <3>1. LegOK(l) /\ (Remembered(l) => DoubtOK(l)) /\ ClosedOK(l)
      BY <1>7 DEF Base, LegsInv, LegInv, Live
    <3>2. StateSame(l)
      BY <1>1, SameIs
    <3>3. LegOK(l)' /\ (Remembered(l)' => DoubtOK(l)')
      BY <1>1, <1>7, <3>1, <3>2, StateStays DEF Base
    <3>4. /\ ~TakenClosed(Fast, l)' /\ ~ToClose(Fast, l)'
          /\ ~TakenClosed(Cycle, l)' /\ ~ToClose(Cycle, l)'
      BY <1>2, <2>1, <2>2 DEF TakenClosed, ToClose, Fresh, At, Steps, AtLeg
    <3> QED BY <1>1, <1>3, <2>1, <3>1, <3>3, <3>4, LegBecomes DEF Procs, May, ClosedOK
  <2>4. AtOK(Fast)'
    BY <1>2, <2>1 DEF AtOK, At, AtLeg
  <2>5. Legs' = Legs
    BY <1>1 DEF Legs
  <2> QED BY <1>3, <1>4, <2>3, <2>4, <2>5 DEF LegsInv, Procs
<1> QED BY <1>5, <1>6, <1>7

-----------------------------------------------------------------------------
(* Entries.                                                                *)

LEMMA NoDoubtsStay == ASSUME NoDoubts, UNCHANGED <<pending, scene>> PROVE NoDoubts'
BY DEF NoDoubts, May

\* An entry that goes on.
LEMMA EntryGoes ==
    ASSUME Base, scene' = scene, In(Cycle, "entry"), run'[Fast] = run[Fast],
           run'[Cycle].mode = "entry", run'[Cycle].pc # "drop", struct' = struct, pending' = pending,
           \A l \in Legs : LegOK(l)' /\ EntryOK(l)'
    PROVE  LegsInv'
<1> USE ProcsAre
<1>1. ~struct.tracked /\ At(Fast, "idle")
  BY CalmIs DEF In
<1>2. \A l \in Legs : LegInv(l)'
  BY <1>1 DEF LegInv
<1>3. \A p \in Procs : AtOK(p)' /\ DropOK(p)'
  BY <1>1 DEF AtOK, DropOK, At, Procs
<1>4. SquareOK' /\ NoDoubts'
  BY <1>1, NoDoubtsStay DEF SquareOK, Base, LegsInv
<1>5. Legs' = Legs
  BY DEF Legs
<1> QED BY <1>2, <1>3, <1>4, <1>5 DEF LegsInv

\* It is given up.
LEMMA EntryEnds ==
    ASSUME Base, UNCHANGED <<struct, pending, scene>>, run[Cycle].mode \in {"entry", "unwind"},
           run'[Fast] = run[Fast], run'[Cycle].mode # "entry", run'[Cycle].pc # "drop"
    PROVE  LegsInv'
<1>1. ~struct'.tracked /\ At(Fast, "idle") /\ ~Entering'
  BY CalmIs DEF Entering, In
<1>2. \A p \in Procs : DropOK(p)'
  BY <1>1 DEF DropOK, At, Procs
<1> QED BY <1>1, <1>2, NoDoubtsStay, NoneLive DEF Base, LegsInv

\* Nothing of a leg changes while the entry goes on elsewhere.
LEMMA EntryStays ==
    ASSUME Base, In(Cycle, "entry"), scene' = scene, NEW l \in Legs, StateSame(l),
           l \in run'[Cycle].todo <=> l \in run[Cycle].todo
    PROVE  LegOK(l)' /\ EntryOK(l)'
<1>1. LegOK(l) /\ EntryOK(l)
  BY DEF Base, LegsInv, LegInv, Live, Entering
<1>2. LegOK(l)'
  BY <1>1, StateStays DEF Base
<1>3. \A i \in Ids : RestsAt(i, l)' <=> RestsAt(i, l)
  BY OrdersStay DEF Base, StateSame
<1>4. EntryOK(l)'
  BY <1>1, <1>3 DEF EntryOK, StateSame, May, Opening, IsShort
<1> QED BY <1>2, <1>4

LEMMA EnterLegs == ASSUME Base, Enter PROVE LegsInv'
<1> USE ProcsAre
<1>1. /\ run[Cycle].pc = "entries" /\ held = Flat /\ \A i \in Ids : Settled(i)
      /\ ~struct.tracked /\ Walk(Cycle, "entry", Legs, NoPositions)
      /\ UNCHANGED <<held, order, struct, pending, scene>>
  BY DEF Enter, At, brokerVars, engineVars, memoryVars
<1>2. /\ run'[Cycle].pc = "scan" /\ run'[Cycle].mode = "entry" /\ run'[Cycle].todo = Legs
      /\ run'[Fast] = run[Fast]
  BY <1>1, WalkIs DEF Base
<1>3. At(Fast, "idle")
  BY <1>1, CalmIs
<1>4. ASSUME NEW l \in Legs PROVE LegInv(l)'
  <2>1. held'[l] = 0 /\ l \in run'[Cycle].todo
    BY <1>1, <1>2, LegsAre DEF Flat
  <2>2. \A i \in Ids : ~RestsAt(i, l)' /\ ~FliesAt(i, l)'
    BY <1>1 DEF Settled, RestsAt, FliesAt
  <2>3. LegOK(l)' /\ EntryOK(l)'
    BY <2>1, <2>2 DEF LegOK, EntryOK
  <2> QED BY <1>1, <2>3 DEF LegInv
<1>5. \A p \in Procs : AtOK(p)' /\ DropOK(p)'
  BY <1>1, <1>2, <1>3 DEF AtOK, DropOK, At, Procs
<1>6. SquareOK' /\ NoDoubts'
  BY <1>1, NoDoubtsStay DEF SquareOK, Base, LegsInv
<1>7. Legs' = Legs
  BY <1>1 DEF Legs
<1> QED BY <1>4, <1>5, <1>6, <1>7 DEF LegsInv

LEMMA PlaceLegLegs == ASSUME Base, NEW k \in Legs, PlaceLeg(k) PROVE LegsInv'
<1> DEFINE r == [run[Cycle] EXCEPT !.at = k, !.pc = "sent"]
<1>1. /\ In(Cycle, "entry") /\ Become(Cycle, r) /\ UNCHANGED <<held, order, struct, pending, scene>>
  BY DEF PlaceLeg, brokerVars, engineVars, memoryVars, worldVars
<1>2. r.pc = "sent" /\ r.mode = run[Cycle].mode /\ r.todo = run[Cycle].todo
  BY LocalsAre, ProcsAre DEF Locals, Base
<1> HIDE DEF r
<1>3. run'[Cycle] = r /\ run'[Fast] = run[Fast]
  BY <1>1, Becomes, ProcsAre DEF Base
<1>4. \A l \in Legs : LegOK(l)' /\ EntryOK(l)'
  BY <1>1, <1>2, <1>3, SameIs, EntryStays
<1> QED BY <1>1, <1>2, <1>3, <1>4, EntryGoes DEF In

\* A leg is bought or sold, or waits at the exchange for its price.
LEMMA LegTakenLegs == ASSUME Base, NEW kind, LegTaken(kind) PROVE LegsInv'
<1> USE ProcsAre
<1> SUFFICES ASSUME NEW k, k = run[Cycle].at PROVE LegsInv'
  OBVIOUS
<1>1. /\ run[Cycle].pc = "sent" /\ In(Cycle, "entry") /\ UNCHANGED <<struct, pending, scene>>
      /\ Onward(Cycle, k, TRUE)
  BY DEF LegTaken, EntrySent, At, engineVars, memoryVars, worldVars
<1>2. k \in run[Cycle].todo /\ k \in Legs /\ k \in AllLegs
  BY <1>1, LocalsAre, LegsAre DEF Base, LocalsTell, AtLeg
<1>3. /\ run'[Cycle].pc = "scan" /\ run'[Cycle].mode = "entry" /\ run'[Fast] = run[Fast]
      /\ run'[Cycle].todo = run[Cycle].todo \ {k}
  <2>1. Typed /\ Cycle # Fast /\ TRUE \in BOOLEAN
    BY DEF Base
  <2>2. /\ run'[Cycle].pc = "scan" /\ run'[Cycle].mode = run[Cycle].mode
        /\ run'[Cycle].todo = run[Cycle].todo \ {k}
        /\ \A q \in Procs \ {Cycle} : run'[q] = run[q]
    BY <1>1, <1>2, <2>1, OnwardIs
  <2> QED BY <1>1, <2>1, <2>2 DEF In
<1>4. /\ LegOK(k) /\ held[k] = 0 /\ ~struct.tracked
      /\ \A i \in Ids : ~RestsAt(i, k)
      /\ \A i \in Ids : ~FliesAt(i, k)
  <2>1. ~struct.tracked
    BY <1>1, CalmIs DEF In
  <2>2. LegOK(k) /\ EntryOK(k)
    BY <1>1, <1>2 DEF Base, LegsInv, LegInv, Live, Entering
  <2> QED BY <1>2, <2>1, <2>2 DEF LegOK, EntryOK
<1>5. Lots(Cycle) = Opening(k) /\ Opening(k) \in {1, -1}
  BY <1>1, <1>2, LegsAre DEF Lots, In
<1>6. held \in [AllLegs -> Int]
  BY BrokerIs DEF Base, Typed, TypeOK
<1>7. CASE held' = [held EXCEPT ![k] = @ + Lots(Cycle)] /\ order' = order
  <2>1. held'[k] = Opening(k) /\ \A l \in Legs \ {k} : held'[l] = held[l]
    BY <1>2, <1>4, <1>5, <1>6, <1>7, LegsAre
  <2>2. \A l \in Legs \ {k} : StateSame(l)
    BY <1>1, <1>7, <2>1 DEF StateSame, OrdersSame
  <2>3. \A l \in Legs \ {k} : LegOK(l)' /\ EntryOK(l)'
    BY <1>1, <1>3, <2>2, EntryStays
  <2>4. LegOK(k)' /\ EntryOK(k)'
    BY <1>3, <1>4, <1>7, <2>1 DEF LegOK, EntryOK, RestsAt, FliesAt, Opening, IsShort
  <2> QED BY <1>1, <1>3, <2>3, <2>4, EntryGoes
<1>8. CASE /\ May("entries_rest") /\ CanRecord /\ held' = held
           /\ order' = WithOrder([leg |-> k, lots |-> Lots(Cycle), status |-> "OPEN", fate |-> "resting"])
  <2> DEFINE row == [leg |-> k, lots |-> Lots(Cycle), status |-> "OPEN", fate |-> "resting"]
  <2>1. /\ row.leg = k /\ row.lots = Opening(k) /\ row.status = "OPEN" /\ row.fate = "resting"
        /\ order' = WithOrder(row)
    BY <1>5, <1>8
  <2> HIDE DEF row
  <2>2. /\ Slot \in Ids /\ order'[Slot] = row
        /\ \A i \in Ids \ {Slot}, l \in AllLegs :
             /\ RestsAt(i, l)' => RestsAt(i, l) /\ order'[i] = order[i]
             /\ FliesAt(i, l)' => FliesAt(i, l) /\ order'[i] = order[i]
        /\ \A l \in Legs : l # k => OrdersSame(l)
    BY <1>2, <1>8, <2>1, Recorded DEF Base
  <2>3. \A l \in Legs \ {k} : StateSame(l)
    BY <1>1, <1>8, <2>2 DEF StateSame
  <2>4. \A l \in Legs \ {k} : LegOK(l)' /\ EntryOK(l)'
    BY <1>1, <1>3, <2>3, EntryStays
  <2>5. /\ \A i \in Ids : ~FliesAt(i, k)'
        /\ \A i \in Ids : RestsAt(i, k)' => i = Slot
    BY <1>2, <1>4, <2>1, <2>2 DEF FliesAt
  <2>6. LegOK(k)'
    BY <1>1, <1>4, <1>8, <2>1, <2>2, <2>5 DEF LegOK, May, Opening, IsShort
  <2>7. EntryOK(k)'
    BY <1>1, <1>3, <1>8 DEF EntryOK, May
  <2> QED BY <1>1, <1>3, <2>4, <2>6, <2>7, EntryGoes
<1> QED BY <1>7, <1>8 DEF LegTaken

LEMMA BookLegs == ASSUME Base, Typed', NEW kind, Book(kind) PROVE LegsInv'
<1> USE ProcsAre
<1>1. /\ In(Cycle, "entry") /\ run[Cycle].todo = {} /\ Goto(Cycle, "booked")
      /\ UNCHANGED <<held, order, struct, pending, scene>>
  BY DEF Book, WalkDone, brokerVars, worldVars
<1>2. run'[Cycle].pc = "booked" /\ run'[Cycle].mode = "entry" /\ run'[Fast] = run[Fast]
  BY <1>1, GotoIs DEF Base, In
<1>3. run'[Cycle].todo = {}
  BY <1>2 DEF Typed, LabelsOK, LocalsTell
<1>4. \A l \in Legs : LegOK(l)' /\ EntryOK(l)'
  BY <1>1, <1>3, SameIs, EntryStays
<1> QED BY <1>1, <1>2, <1>4, EntryGoes

LEMMA PlaceStopsLegs == ASSUME Base, Typed', PlaceStops PROVE LegsInv'
<1> USE ProcsAre
<1>1. /\ run[Cycle].pc = "booked" /\ UNCHANGED <<held, order, struct, pending, scene>>
  BY DEF PlaceStops, At, engineVars, memoryVars, worldVars
<1>2. PICK stops \in {{}, Shorts} : Become(Cycle, [run[Cycle] EXCEPT !.pc = "track", !.ok = stops])
  BY DEF PlaceStops
<1>3. In(Cycle, "entry") /\ run[Cycle].todo = {}
  BY <1>1, LocalsAre DEF Base, LocalsTell, In
<1> DEFINE r == [run[Cycle] EXCEPT !.pc = "track", !.ok = stops]
<1>4. r.pc = "track" /\ r.mode = run[Cycle].mode /\ r.todo = run[Cycle].todo
  BY LocalsAre DEF Locals, Base
<1>5. Become(Cycle, r)
  BY <1>2
<1> HIDE DEF r
<1>6. run'[Cycle] = r /\ run'[Fast] = run[Fast]
  BY <1>5, Becomes DEF Base
<1>7. \A l \in Legs : LegOK(l)' /\ EntryOK(l)'
  BY <1>1, <1>3, <1>4, <1>6, SameIs, EntryStays
<1> QED BY <1>1, <1>3, <1>4, <1>6, <1>7, EntryGoes DEF In

\* The structure is tracked: what the entry left is what the exits expect.
LEMMA TrackLegs == ASSUME Base, NEW kind, Track(kind) PROVE LegsInv'
<1> USE ProcsAre
<1>1. /\ run[Cycle].pc = "track" /\ UNCHANGED <<held, order, pending, scene>>
      /\ struct' = [NoStruct EXCEPT !.tracked = TRUE, !.stops = run[Cycle].ok]
      /\ Become(Cycle, Idle)
  BY DEF Track, At, brokerVars, worldVars
<1>2. In(Cycle, "entry") /\ run[Cycle].todo = {}
  BY <1>1, LocalsAre DEF Base, LocalsTell, In
<1>3. ~struct.tracked /\ At(Fast, "idle") /\ ~(May("positions_fail") /\ May("entries_rest"))
  BY <1>2, CalmIs DEF In
<1>4. /\ run'[Cycle] = Idle /\ run'[Fast] = run[Fast]
      /\ run'[Cycle].mode = "exit" /\ run'[Cycle].pc = "idle" /\ run'[Cycle].ok = {}
  BY <1>1, Becomes, IdleIs DEF Base, Fresh
<1>5. struct'.tracked /\ struct'.done = {} /\ struct'.pend = NoPending
  BY <1>1 DEF NoStruct
<1>6. Fresh(run[Fast])
  BY <1>3, LocalsAre DEF Base, LocalsTell, Between, At
<1>7. ASSUME NEW l \in Legs PROVE LegInv(l)'
  <2>1. LegOK(l) /\ EntryOK(l)
    BY <1>2 DEF Base, LegsInv, LegInv, Live, Entering
  <2>2. ~Remembered(l)' /\ l \notin struct'.done
    BY <1>5, LegsAre DEF Remembered, NoPending
  <2>3. LegOK(l)'
    BY <1>1, <1>3, <2>1 DEF LegOK, RestsAt, FliesAt, May, Opening, IsShort
  <2>4. /\ ~TakenClosed(Fast, l)' /\ ~ToClose(Fast, l)'
        /\ ~TakenClosed(Cycle, l)' /\ ~ToClose(Cycle, l)'
    BY <1>3, <1>4, <1>6 DEF TakenClosed, ToClose, Fresh, At, Steps, AtLeg
  <2>5. May("positions_fail")' => Owed(l)'
    BY <1>1, <1>2, <1>3, <2>1 DEF EntryOK, Owed, May, Opening, IsShort
  <2>6. ~Entering'
    BY <1>4 DEF Entering, In
  <2> QED BY <2>2, <2>3, <2>4, <2>5, <2>6, LegBecomes DEF Procs
<1>8. \A p \in Procs : AtOK(p)' /\ DropOK(p)'
  BY <1>3, <1>4 DEF AtOK, DropOK, At, AtLeg, Procs
<1>9. SquareOK' /\ NoDoubts'
  BY <1>1, <1>4, NoDoubtsStay DEF SquareOK, In, Base, LegsInv
<1>10. Legs' = Legs
  BY <1>1 DEF Legs
<1> QED BY <1>7, <1>8, <1>9, <1>10 DEF LegsInv

LEMMA EntryStepLegs == ASSUME Base, Typed', EntryStep PROVE LegsInv'
<1> USE ProcsAre
<1>1. CASE NoEntry
  <2>1. /\ run[Cycle].pc = "entries" /\ Become(Cycle, Idle)
        /\ UNCHANGED <<held, order, struct, pending, scene>>
    BY <1>1 DEF NoEntry, At, brokerVars, engineVars, memoryVars, worldVars
  <2>2. run'[Cycle].pc = "idle" /\ \A q \in Procs \ {Cycle} : run'[q] = run[q]
    BY <2>1, Becomes, IdleIs DEF Base
  <2> QED BY <2>1, <2>2, QuietGoes DEF Between
<1>2. ASSUME UNCHANGED <<struct, pending, scene>>, Unwind, In(Cycle, "entry") PROVE LegsInv'
  <2>1. run'[Cycle].pc = "scan" /\ run'[Cycle].mode = "unwind" /\ run'[Fast] = run[Fast]
    BY <1>2, WalkIs DEF Unwind, Base
  <2> QED BY <1>2, <2>1, EntryEnds DEF In
<1>3. ASSUME NEW l \in Legs, LegRefused(l) PROVE LegsInv'
  BY <1>2, <1>3 DEF LegRefused, worldVars
<1>4. ASSUME NEW kind, LegNotTaken(kind) PROVE LegsInv'
  BY <1>2, <1>4 DEF LegNotTaken, EntrySent, engineVars, memoryVars, worldVars
<1>5. CASE UnwindDone
  <2>1. /\ In(Cycle, "unwind") /\ Become(Cycle, Idle) /\ UNCHANGED <<struct, pending, scene>>
    BY <1>5 DEF UnwindDone, WalkDone, worldVars
  <2>2. run'[Cycle].pc = "idle" /\ run'[Cycle].mode = "exit" /\ run'[Fast] = run[Fast]
    BY <2>1, Becomes, IdleIs DEF Base, Fresh
  <2> QED BY <2>1, <2>2, EntryEnds DEF In
<1> QED BY <1>1, <1>3, <1>4, <1>5, EnterLegs, PlaceLegLegs, LegTakenLegs, BookLegs, PlaceStopsLegs, TrackLegs
        DEF EntryStep, SpreadLegTaken, CondorLegTaken, SpreadLegNotTaken, CondorLegNotTaken,
            BookSpread, BookCondor, TrackSpread, TrackCondor

-----------------------------------------------------------------------------
(* The exchange, the clock, and what cannot happen here.                   *)

\* What the legs are read from stays.
LEMMA AllStays ==
    ASSUME Base, UNCHANGED <<held, order, struct, pending, run, scene>> PROVE LegsInv'
<1>1. ASSUME NEW l \in Legs PROVE LegInv(l)'
  <2>1. RunSame(l)
    BY DEF RunSame, Entering, In, TakenClosed, ToClose
  <2> QED BY <2>1, SameIs, LegStays DEF Base, LegsInv
<1>2. \A p \in Procs : AtOK(p)' /\ DropOK(p)'
  BY OtherStays DEF Base, LegsInv
<1>3. SquareOK' /\ NoDoubts'
  BY NoDoubtsStay DEF Base, LegsInv, SquareOK, In, At, Late
<1>4. Legs' = Legs
  BY DEF Legs
<1> QED BY <1>1, <1>2, <1>3, <1>4 DEF LegsInv

\* Something happens at the exchange to one leg, or to its order.
LEMMA OneLegGoes ==
    ASSUME Base, Live, UNCHANGED <<struct, pending, run, scene>>, NEW k,
           \A l \in Legs \ {k} : held'[l] = held[l] /\ OrdersSame(l),
           k \in Legs => /\ LegOK(k)' /\ (struct.tracked /\ Remembered(k) => DoubtOK(k)')
                         /\ Entering => EntryOK(k)'
                         /\ held'[k] = 0 \/ (held'[k] = held[k])
                            \/ (held[k] = 0 /\ held'[k] = Opening(k) /\ May("entries_rest"))
                         /\ Owed(k) => Owed(k)'
                         /\ In(Cycle, "squareoff") /\ k \in run[Cycle].todo => held'[k] = held[k]
    PROVE  LegsInv'
<1>1. ASSUME NEW l \in Legs PROVE RunSame(l)
  BY DEF RunSame, Entering, In, TakenClosed, ToClose
<1>2. ASSUME NEW l \in Legs \ {k} PROVE LegInv(l)'
  <2>1. LegSame(l)
    BY DEF LegSame, StateSame
  <2> QED BY <1>1, <2>1, LegStays DEF Base, LegsInv
<1>3. ASSUME k \in Legs PROVE LegInv(k)'
  <2>1. LegInv(k)
    BY <1>3 DEF Base, LegsInv
  <2>2. /\ \A p \in Procs : TakenClosed(p, k)' <=> TakenClosed(p, k)
        /\ \A p \in Procs : ToClose(p, k)' <=> ToClose(p, k)
        /\ Entering' <=> Entering
        /\ \A event : May(event)' <=> May(event)
        /\ Remembered(k)' <=> Remembered(k)
    BY DEF TakenClosed, ToClose, In, Entering, May, Remembered
  <2>3. ASSUME struct.tracked, ClosedOK(k) PROVE ClosedOK(k)'
    BY <1>3, <2>2, <2>3 DEF ClosedOK
  <2>4. ASSUME struct.tracked, OpenOK(k) PROVE OpenOK(k)'
    BY <1>3, <2>2, <2>4 DEF OpenOK
  <2>5. ASSUME NEW p \in Procs, ReadOK(p, k) PROVE ReadOK(p, k)'
    BY <1>3, <2>2, <2>5 DEF ReadOK
  <2> QED BY <1>3, <2>1, <2>2, <2>3, <2>4, <2>5 DEF LegInv
<1>4. \A p \in Procs : AtOK(p)' /\ DropOK(p)'
  BY OtherStays DEF Base, LegsInv
<1>5. SquareOK'
  <2>1. run[Cycle].todo \subseteq Legs
    BY LocalsAre, ProcsAre DEF Base, LocalsTell
  <2>2. ASSUME In(Cycle, "squareoff"), NEW l \in run[Cycle].todo PROVE held'[l] = held[l]
    BY <2>1, <2>2
  <2> QED BY <2>2 DEF Base, LegsInv, SquareOK, In, At, Late
<1>6. NoDoubts'
  BY NoDoubtsStay DEF Base, LegsInv
<1>7. Legs' = Legs
  BY DEF Legs
<1> QED BY <1>2, <1>3, <1>4, <1>5, <1>6, <1>7 DEF LegsInv

LEMMA OrderIs ==
    ASSUME Base, NEW i \in Ids
    PROVE  /\ order \in [Ids -> Rows] /\ order[i] \in Rows /\ order[i].leg \in AllLegs
           /\ run[Cycle].pc = "verify" => ~Entering
<1>1. order \in [Ids -> Rows]
  BY BrokerIs DEF Base, Typed, TypeOK
<1>2. run[Cycle].pc = "verify" => ~Entering
  BY LocalsAre, ProcsAre DEF Base, LocalsTell, Between, Fresh, Entering, In
<1> QED BY <1>1, <1>2 DEF Rows

\* An order is looked up: one that a leg remembers has now failed, or is known to be filled.
LEMMA VerifyLegs == ASSUME Base, NEW i \in Ids, Verify(i) PROVE LegsInv'
<1> SUFFICES ASSUME NEW k, k = order[i].leg PROVE LegsInv'
  OBVIOUS
<1>1. /\ run[Cycle].pc = "verify" /\ order[i].status = "PENDING_VERIFICATION"
      /\ UNCHANGED <<held, struct, pending, run, scene>>
      /\ order' = IF order[i].fate = "filled"
                  THEN [order EXCEPT ![i].status = "OPEN"]
                  ELSE [order EXCEPT ![i].status = "FAILED", ![i].fate = "lost"]
  BY DEF Verify, At, engineVars, memoryVars, worldVars
<1>2. /\ ~Entering /\ ~Entering'
      /\ order \in [Ids -> Rows] /\ order[i] \in Rows
  BY <1>1, OrderIs DEF Entering, In
<1>3. /\ \A j \in Ids \ {i} : order'[j] = order[j]
      /\ order'[i].leg = k /\ order'[i].lots = order[i].lots
      /\ \/ order[i].fate = "filled" /\ order'[i].status = "OPEN" /\ order'[i].fate = "filled"
         \/ order[i].fate # "filled" /\ order'[i].status = "FAILED" /\ order'[i].fate = "lost"
  BY <1>1, <1>2 DEF Rows
<1>4. CASE ~struct.tracked
  BY <1>1, <1>2, <1>4, NoneLive, NoDoubtsStay DEF Base, LegsInv, DropOK, At, Legs
<1>5. CASE struct.tracked
  <2>1. ASSUME NEW l \in Legs
        PROVE  LegOK(l) /\ (Remembered(l) => DoubtOK(l)) /\ ~RestsAt(i, l)
    BY <1>1, <1>5 DEF Base, LegsInv, LegInv, Live, LegOK
  <2>2. ASSUME NEW l \in Legs \ {k} PROVE held'[l] = held[l] /\ OrdersSame(l)
    <3>1. struct.pend[l] # i
      BY <2>1, IdsAre DEF Remembered, DoubtOK, Doubted
    <3> QED BY <1>1, <1>3, <3>1 DEF OrdersSame, Apart, RestsAt, FliesAt
  <2>3. ASSUME k \in Legs
        PROVE  /\ LegOK(k)' /\ (Remembered(k) => DoubtOK(k)')
               /\ Owed(k) => Owed(k)'
    <3>1. \A j \in Ids : RestsAt(j, k)' => RestsAt(j, k) /\ order'[j] = order[j]
      BY <1>3 DEF RestsAt
    <3>2. \A j \in Ids : FliesAt(j, k)' => FliesAt(j, k) /\ order'[j] = order[j]
      BY <1>3 DEF FliesAt
    <3>3. LegOK(k)'
      <4>1. LegOK(k)
        BY <2>1, <2>3
      <4>2. \A j \in Ids : FliesAt(j, k)' => struct'.tracked /\ struct'.pend[k] = j
        BY <1>1, <3>2, <4>1 DEF LegOK
      <4>3. ASSUME NEW j \in Ids, RestsAt(j, k)'
            PROVE  /\ order'[j].lots = Opening(k) /\ order'[j].status = "OPEN"
                   /\ held[k] = 0 /\ May("entries_rest")
                   /\ \A m \in Ids : RestsAt(m, k)' => m = j
        BY <3>1, <4>1, <4>3 DEF LegOK
      <4> QED BY <1>1, <4>1, <4>2, <4>3 DEF LegOK, May, Opening, IsShort
    <3>4. CASE Remembered(k) /\ struct.pend[k] = i
      <4>1. DoubtOK(k) /\ Doubted(k) = order[i] /\ Doubted(k)' = order'[i]
        BY <1>1, <2>1, <2>3, <3>4 DEF Doubted
      <4>2. DoubtOK(k)'
        BY <1>1, <1>3, <3>1, <4>1 DEF DoubtOK, May, Opening, IsShort
      <4>3. Owed(k) => Owed(k)'
        BY <1>1, <1>3, <4>1 DEF Owed, Remembered, DoubtOK, Opening, IsShort
      <4> QED BY <3>3, <4>2, <4>3
    <3>5. CASE Remembered(k) /\ struct.pend[k] # i
      <4>1. struct.pend[k] \in Ids
        BY <2>3, <3>5, MemoryIs, LegsAre DEF Base, Typed, TypeOK, Structs, Pendings, Remembered
      <4>2. DoubtOK(k) /\ Doubted(k)' = Doubted(k)
        BY <1>1, <1>3, <2>1, <2>3, <3>5, <4>1 DEF Doubted
      <4>3. DoubtOK(k)'
        BY <1>1, <3>1, <4>2 DEF DoubtOK, May, Opening, IsShort
      <4>4. Owed(k) => Owed(k)'
        BY <1>1, <4>2 DEF Owed, Remembered, Opening, IsShort
      <4> QED BY <3>3, <4>3, <4>4
    <3>6. CASE ~Remembered(k)
      BY <1>1, <3>3, <3>6 DEF Owed, Remembered, Opening, IsShort
    <3> QED BY <3>4, <3>5, <3>6
  <2> QED BY <1>1, <1>2, <1>5, <2>2, <2>3, OneLegGoes DEF Live
<1> QED BY <1>4, <1>5

\* An order about a leg is not one about another.
LEMMA OneOrderGoes ==
    ASSUME Base, Live, NEW i \in Ids, \A j \in Ids \ {i} : order'[j] = order[j],
           order'[i].leg = order[i].leg \/ order'[i].fate = "none",
           NEW l \in Legs, l # order[i].leg
    PROVE  OrdersSame(l)
<1>1. struct.tracked => struct.pend[l] # i
  BY IdsAre DEF Base, LegsInv, LegInv, Remembered, DoubtOK, Doubted
<1> QED BY <1>1 DEF OrdersSame, Apart, RestsAt, FliesAt

LEMMA NothingLives ==
    ASSUME Base, ~Live, UNCHANGED <<struct, pending, run, scene>> PROVE LegsInv'
BY NoneLive, NoDoubtsStay DEF Live, Base, LegsInv, DropOK, At, Legs, Entering, In

LEMMA ExpireStaleLegs == ASSUME Base, NEW i \in Ids, ExpireStale(i) PROVE LegsInv'
<1> SUFFICES ASSUME NEW k, k = order[i].leg PROVE LegsInv'
  OBVIOUS
<1>1. /\ run[Cycle].pc = "verify" /\ order[i].fate = "resting"
      /\ UNCHANGED <<held, struct, pending, run, scene>>
      /\ order' = [order EXCEPT ![i] = Blank]
  BY DEF ExpireStale, At, engineVars, memoryVars, worldVars
<1>2. /\ ~Entering /\ order \in [Ids -> Rows]
  BY <1>1, OrderIs
<1>3. order'[i].fate = "none" /\ \A j \in Ids \ {i} : order'[j] = order[j]
  BY <1>1, <1>2 DEF Blank
<1>4. CASE ~Live
  BY <1>1, <1>4, NothingLives
<1>5. CASE Live
  <2>1. \A l \in Legs \ {k} : held'[l] = held[l] /\ OrdersSame(l)
    BY <1>1, <1>3, <1>5, OneOrderGoes
  <2>2. ASSUME k \in Legs PROVE LegOK(k)' /\ ~(struct.tracked /\ Remembered(k)) /\ (Owed(k) => Owed(k)')
    <3>1. LegOK(k) /\ RestsAt(i, k) /\ struct.tracked
      BY <1>1, <1>2, <1>5, <2>2 DEF Base, LegsInv, LegInv, Live, RestsAt
    <3>2. ~Remembered(k)
      BY <2>2, <3>1 DEF Base, LegsInv, LegInv, DoubtOK
    <3>3. \A j \in Ids : /\ RestsAt(j, k)' => RestsAt(j, k) /\ order'[j] = order[j]
                         /\ FliesAt(j, k)' => FliesAt(j, k) /\ order'[j] = order[j]
      BY <1>3 DEF RestsAt, FliesAt
    <3>4. LegOK(k)'
      <4>1. \A j \in Ids : ~RestsAt(j, k)'
        BY <1>3, <3>1, <3>3 DEF LegOK, RestsAt
      <4>2. \A j \in Ids : FliesAt(j, k)' => struct'.tracked /\ struct'.pend[k] = j
        BY <1>1, <3>1, <3>3 DEF LegOK
      <4> QED BY <1>1, <3>1, <4>1, <4>2 DEF LegOK, Opening, IsShort
    <3> QED BY <1>1, <3>2, <3>4 DEF Owed, Remembered, Opening, IsShort
  <2> QED BY <1>1, <1>2, <1>5, <2>1, <2>2, OneLegGoes
<1> QED BY <1>4, <1>5

\* An order arrives: the leg it is about is opened by an entry that waited, or closed by an
\* exit in doubt.
LEMMA ArrivesLegs ==
    ASSUME Base, NEW i \in Ids, order[i].fate \in {"resting", "flying"}, Arrives(i) PROVE LegsInv'
<1> SUFFICES ASSUME NEW k, k = order[i].leg PROVE LegsInv'
  OBVIOUS
<1>1. /\ UNCHANGED <<struct, pending, run, scene>>
      /\ order' = [order EXCEPT ![i].fate = "filled"]
      /\ held' = [held EXCEPT ![k] = @ + order[i].lots]
  BY DEF Arrives, engineVars, memoryVars, worldVars
<1>2. order \in [Ids -> Rows] /\ order[i] \in Rows /\ k \in AllLegs
  BY OrderIs
<1>3. /\ \A j \in Ids \ {i} : order'[j] = order[j]
      /\ order'[i].leg = k /\ order'[i].fate = "filled"
      /\ order'[i].lots = order[i].lots /\ order'[i].status = order[i].status
  BY <1>1, <1>2 DEF Rows
<1>4. held \in [AllLegs -> Int] /\ order[i].lots \in Int
  BY <1>2, BrokerIs DEF Base, Typed, TypeOK, Rows
<1>5. held'[k] = held[k] + order[i].lots /\ \A l \in Legs \ {k} : held'[l] = held[l]
  BY <1>1, <1>2, <1>4, LegsAre
<1>6. \A j \in Ids : /\ RestsAt(j, k)' => RestsAt(j, k) /\ j # i /\ order'[j] = order[j]
                     /\ FliesAt(j, k)' => FliesAt(j, k) /\ j # i /\ order'[j] = order[j]
  BY <1>3 DEF RestsAt, FliesAt
<1>7. CASE ~Live
  BY <1>1, <1>7, NothingLives
<1>8. CASE Live
  <2>1. \A l \in Legs \ {k} : held'[l] = held[l] /\ OrdersSame(l)
    BY <1>3, <1>5, <1>8, OneOrderGoes
  <2>2. ASSUME k \in Legs PROVE LegOK(k) /\ Opening(k) \in {1, -1} /\ LegInv(k)
    BY <1>8, <2>2, LegsAre DEF Base, LegsInv, LegInv, Live
  <2>3. CASE k \in Legs /\ order[i].fate = "resting"
    <3>1. /\ RestsAt(i, k) /\ order[i].lots = Opening(k) /\ held[k] = 0 /\ May("entries_rest")
          /\ \A j \in Ids : RestsAt(j, k) => j = i
      BY <2>2, <2>3 DEF LegOK, RestsAt
    <3>2. ~(struct.tracked /\ Remembered(k)) /\ held'[k] = Opening(k)
      BY <1>5, <2>2, <2>3, <3>1 DEF LegInv, DoubtOK
    <3>3. LegOK(k)'
      <4>1. \A j \in Ids : ~RestsAt(j, k)'
        BY <1>6, <3>1
      <4>2. \A j \in Ids : FliesAt(j, k)' => struct'.tracked /\ struct'.pend[k] = j
        BY <1>1, <1>6, <2>2, <2>3 DEF LegOK
      <4> QED BY <3>2, <4>1, <4>2 DEF LegOK, Opening, IsShort
    <3>4. Entering => EntryOK(k)'
      <4>1. ASSUME Entering PROVE k \notin run[Cycle].todo
        BY <2>2, <2>3, <3>1, <4>1 DEF LegInv, EntryOK
      <4> QED BY <1>1, <3>1, <4>1 DEF EntryOK, May
    <3>5. ~(In(Cycle, "squareoff") /\ k \in run[Cycle].todo)
      <4>1. In(Cycle, "squareoff") => struct.tracked
        BY <1>8 DEF Live, Entering, In
      <4> QED BY <3>1, <4>1, SquareLegAhead
    <3>6. Owed(k)'
      BY <3>2 DEF Owed, Opening, IsShort
    <3> QED BY <1>1, <1>8, <2>1, <3>1, <3>2, <3>3, <3>4, <3>5, <3>6, OneLegGoes
  <2>4. CASE k \in Legs /\ order[i].fate = "flying"
    <3>1. struct.tracked /\ struct.pend[k] = i /\ ~RestsAt(i, k)
      BY <2>2, <2>4 DEF LegOK, FliesAt, RestsAt
    <3>2. Remembered(k) /\ DoubtOK(k) /\ Doubted(k) = order[i]
      BY <2>2, <2>4, <3>1, IdsAre DEF LegInv, Remembered, Doubted
    <3>3. order[i].lots = -Opening(k) /\ held[k] = Opening(k) /\ \A j \in Ids : ~RestsAt(j, k)
      BY <2>4, <3>2 DEF DoubtOK
    <3>4. held'[k] = 0
      BY <1>5, <2>2, <2>4, <3>3
    <3>5. LegOK(k)'
      <4>1. \A j \in Ids : ~RestsAt(j, k)'
        BY <1>6, <3>3
      <4>2. \A j \in Ids : FliesAt(j, k)' => struct'.tracked /\ struct'.pend[k] = j
        BY <1>1, <1>6, <2>2, <2>4 DEF LegOK
      <4> QED BY <3>4, <4>1, <4>2 DEF LegOK
    <3>6. DoubtOK(k)'
      <4>1. Doubted(k)' = order'[i] /\ \A j \in Ids : ~RestsAt(j, k)'
        BY <1>1, <1>6, <3>1, <3>3 DEF Doubted
      <4>2. order[i].status = "PENDING_VERIFICATION" /\ May("exit_doubtful")
        BY <2>4, <3>2 DEF DoubtOK
      <4> QED BY <1>1, <1>3, <3>3, <3>4, <4>1, <4>2 DEF DoubtOK, May, Opening, IsShort
    <3>7. ~Entering
      BY <3>1, CalmIs DEF Entering, In
    <3>8. ~(In(Cycle, "squareoff") /\ k \in run[Cycle].todo)
      BY <2>4, <3>1, <3>2, SquareLegAhead
    <3>9. Owed(k)'
      BY <1>1, <1>3, <3>1, <3>2 DEF Owed, Remembered, Doubted
    <3> QED BY <1>1, <1>8, <2>1, <3>4, <3>5, <3>6, <3>7, <3>8, <3>9, OneLegGoes
  <2>5. CASE k \notin Legs
    BY <1>1, <1>8, <2>1, <2>5, OneLegGoes
  <2> QED BY <2>3, <2>4, <2>5
<1> QED BY <1>7, <1>8

\* A night: what rested or was on its way has ended, and so has a structure of yesterday.
LEMMA NextDayLegs == ASSUME Base, NextDay PROVE LegsInv'
<1> USE ProcsAre
<1>1. /\ UNCHANGED <<struct, pending, run, scene>> /\ order' = AtExchange("lost")
      /\ run[Cycle].pc = "idle" /\ run[Fast].pc = "idle"
      /\ IF dte = "last" THEN held' = Flat ELSE held' = held
  BY DEF NextDay, Quiet
<1>2. Fresh(run[Cycle]) /\ Fresh(run[Fast])
  BY <1>1, LocalsAre DEF Base, LocalsTell, Between
<1>3. ~Entering /\ ~Entering'
  BY <1>1, <1>2 DEF Fresh, Entering, In
<1>4. CASE ~struct.tracked
  BY <1>1, <1>3, <1>4, NothingLives DEF Live
<1>5. CASE struct.tracked
  <2>1. \A i \in Ids : /\ order[i] \in Rows
                       /\ order'[i] = IF order[i].fate \in {"resting", "flying"}
                                      THEN [order[i] EXCEPT !.fate = "lost"] ELSE order[i]
    BY <1>1, OrderIs DEF AtExchange
  <2>2. \A i \in Ids : /\ order'[i].leg = order[i].leg /\ order'[i].lots = order[i].lots
                       /\ order'[i].status = order[i].status
                       /\ order'[i].fate \notin {"resting", "flying"}
                       /\ order[i].fate \notin {"resting", "flying"} => order'[i].fate = order[i].fate
                       /\ order[i].fate \in {"resting", "flying"} => order'[i].fate = "lost"
    BY <2>1 DEF Rows
  <2>3. \A i \in Ids, l \in Legs : ~RestsAt(i, l)' /\ ~FliesAt(i, l)'
    BY <2>2 DEF RestsAt, FliesAt
  <2>4. ASSUME NEW l \in Legs PROVE LegInv(l)'
    <3>1. LegOK(l) /\ (Remembered(l) => DoubtOK(l)) /\ ClosedOK(l) /\ OpenOK(l)
      BY <1>5 DEF Base, LegsInv, LegInv, Live
    <3>2. held'[l] = held[l] \/ (held'[l] = 0 /\ Late)
      BY <1>1, CalmIs DEF Flat
    <3>3. LegOK(l)'
      BY <1>1, <2>3, <3>1, <3>2 DEF LegOK, Opening, IsShort
    <3>4. ASSUME Remembered(l)
          PROVE  DoubtOK(l)' /\ held'[l] = held[l] /\ (Doubted(l).fate = "filled" => Doubted(l)'.fate = "filled")
      <4>1. DoubtOK(l) /\ ~Late
        BY <3>1, <3>4, CalmIs DEF DoubtOK
      <4>2. held'[l] = held[l]
        BY <3>2, <4>1
      <4>3. struct.pend[l] \in Ids
        BY <3>4, MemoryIs, LegsAre DEF Base, Typed, TypeOK, Structs, Pendings, Remembered
      <4>4. /\ Doubted(l)'.leg = Doubted(l).leg /\ Doubted(l)'.lots = Doubted(l).lots
            /\ Doubted(l)'.status = Doubted(l).status
            /\ Doubted(l).fate = "flying" => Doubted(l)'.fate = "lost"
            /\ Doubted(l).fate # "flying" => Doubted(l)'.fate = Doubted(l).fate
        BY <1>1, <2>2, <4>1, <4>3 DEF Doubted, DoubtOK
      <4>5. DoubtOK(l)'
        BY <1>1, <2>3, <4>1, <4>2, <4>4 DEF DoubtOK, May, Opening, IsShort
      <4> QED BY <4>1, <4>2, <4>4, <4>5
    <3>5. ASSUME May("positions_fail"), Owed(l) PROVE Owed(l)'
      <4>1. held'[l] = held[l]
        BY <3>2, <3>5, CalmIs
      <4> QED BY <1>1, <3>4, <3>5, <4>1 DEF Owed, Remembered, Opening, IsShort
    <3>6. \A p \in Procs : /\ ~TakenClosed(p, l) /\ ~TakenClosed(p, l)'
                           /\ ~ToClose(p, l)'
      BY <1>1, <1>2 DEF Fresh, TakenClosed, ToClose, Procs
    <3>7. ~May("entries_rest")' /\ l \in struct'.done => held'[l] = 0
      BY <1>1, <3>1, <3>2 DEF ClosedOK, May
    <3>8. May("positions_fail")' /\ l \notin struct'.done => Owed(l)'
      BY <1>1, <3>1, <3>5, <3>6 DEF OpenOK, May
    <3>9. Remembered(l)' => DoubtOK(l)'
      BY <1>1, <3>4 DEF Remembered
    <3> QED BY <1>3, <3>3, <3>6, <3>7, <3>8, <3>9, LegBecomes
  <2>5. \A p \in Procs : AtOK(p)' /\ DropOK(p)'
    BY <1>1 DEF AtOK, DropOK, At, AtLeg, Procs
  <2>6. SquareOK' /\ NoDoubts'
    BY <1>1, <1>2, NoDoubtsStay DEF SquareOK, In, Fresh, Base, LegsInv
  <2>7. Legs' = Legs
    BY <1>1 DEF Legs
  <2> QED BY <2>4, <2>5, <2>6, <2>7 DEF LegsInv
<1> QED BY <1>4, <1>5

\* The two jobs begin, and the day goes on; a restart, or a stop order that fires, is not
\* among the faults looked at here.
LEMMA OutsideLegs ==
    ASSUME Base, Typed',
           \/ StartCycle \/ TakeLock \/ FastJob \/ LateInTheDay \/ NextDay \/ Crash
           \/ RestoreStep \/ \E l \in Shorts : StopFires(l)
    PROVE  LegsInv'
<1> USE ProcsAre
<1>1. ASSUME NEW p \in Procs, NEW label \in Between, run[p].pc \in Between, Goto(p, label),
             UNCHANGED <<held, order, struct, pending, scene>>
      PROVE  LegsInv'
  <2>1. run'[p].pc = label /\ \A q \in Procs \ {p} : run'[q] = run[q]
    BY <1>1, GotoIs DEF Base
  <2> QED BY <1>1, <2>1, QuietGoes
<1>2. CASE StartCycle
  BY <1>1, <1>2 DEF StartCycle, At, Between, brokerVars, engineVars, memoryVars, worldVars
<1>3. CASE TakeLock
  BY <1>1, <1>3 DEF TakeLock, At, Between, brokerVars, engineVars, memoryVars, worldVars
<1>4. CASE FastJob
  BY <1>1, <1>4 DEF FastJob, At, Between, brokerVars, engineVars, memoryVars, worldVars
<1>5. CASE LateInTheDay
  BY <1>5, AllStays DEF LateInTheDay, brokerVars, engineVars, memoryVars
<1>6. ~Crash
  BY CalmIs DEF Crash
<1>7. ~RestoreStep
  <2>1. /\ run[Cycle].pc \notin {"restore", "rebuild", "restored"}
        /\ ~In(Cycle, "orphan") /\ ~In(Cycle, "flatten")
    BY CalmIs DEF Restoring, In
  <2> QED BY <2>1 DEF RestoreStep, FindOrphans, OrphansDone, FindHalfClosed, HalfSpreadDone,
                      HalfCondorDone, HalfClosedDone, Restored, WalkDone, At
<1>8. \A l \in Shorts : ~StopFires(l)
  BY DEF StopFires, Base, Calmly
<1> QED BY <1>2, <1>3, <1>4, <1>5, <1>6, <1>7, <1>8, NextDayLegs

-----------------------------------------------------------------------------
(* The two theorems.                                                       *)

LEMMA SceneStays == Typed /\ [Next]_vars => scene' = scene
<1> SUFFICES ASSUME Typed, [Next]_vars PROVE scene' = scene
  OBVIOUS
<1>1. CASE UNCHANGED vars
  BY <1>1 DEF vars, worldVars
<1>2. ASSUME NEW p \in Procs, LegStep(p) PROVE scene' = scene
  BY <1>2, LegStepIs
<1>3. ASSUME NEW p \in Procs, ExitStep(p) PROVE scene' = scene
  BY <1>3 DEF ExitStep, NoExitReason, ExitReason, Drop, SpreadExitPartly, CondorExitPartly, ExitPartly,
              SpreadExitFully, CondorExitFully, ExitFully, worldVars
<1>4. CASE SquareOffStep
  BY <1>4 DEF SquareOffStep, SquareOff, SquareOffSpread, SquareOffCondor, SquareOffStructure,
              SquareOffDone, worldVars
<1>5. CASE EntryStep
  BY <1>5 DEF EntryStep, NoEntry, Enter, PlaceLeg, LegRefused, SpreadLegTaken, CondorLegTaken,
              LegTaken, SpreadLegNotTaken, CondorLegNotTaken, LegNotTaken, UnwindDone, BookSpread,
              BookCondor, Book, PlaceStops, TrackSpread, TrackCondor, Track, worldVars
<1>6. CASE RestoreStep
  BY <1>6 DEF RestoreStep, FindOrphans, OrphansDone, FindHalfClosed, HalfSpreadDone,
              HalfCondorDone, HalfClosedDone, Restored, worldVars
<1>7. CASE \E i \in Ids : Verify(i) \/ ExpireStale(i) \/ Land(i) \/ Fill(i)
  BY <1>7 DEF Verify, ExpireStale, Land, Fill, Arrives, worldVars
<1>8. CASE StartCycle \/ TakeLock \/ FastJob \/ LateInTheDay \/ NextDay \/ Crash \/ \E l \in Shorts : StopFires(l)
  BY <1>8 DEF StartCycle, TakeLock, FastJob, LateInTheDay, NextDay, Crash, StopFires, worldVars
<1> QED BY <1>1, <1>2, <1>3, <1>4, <1>5, <1>6, <1>7, <1>8, StepIs

LEMMA LegsNext == Base /\ [Next]_vars => Base'
<1> SUFFICES ASSUME Base, [Next]_vars PROVE Base'
  OBVIOUS
<1>1. Typed' /\ CountInv' /\ StopInv'
  BY TypedNext, AccountsNext DEF Base
<1>2. Calmly'
  BY SceneStays DEF Base, Calmly, Calm, May
<1>3. LegsInv'
  <2>1. CASE UNCHANGED vars
    BY <2>1, AllStays DEF vars, brokerVars, engineVars, memoryVars, worldVars
  <2>2. ASSUME NEW i \in Ids, Verify(i) \/ ExpireStale(i) \/ Land(i) \/ Fill(i) PROVE LegsInv'
    BY <2>2, VerifyLegs, ExpireStaleLegs, ArrivesLegs DEF Land, Fill
  <2>3. CASE SquareOffStep
    BY <1>1, <2>3, SquareOffBegins, SquareOffCloses, SquareOffEnds
       DEF SquareOffStep, SquareOffSpread, SquareOffCondor
  <2>4. CASE Next
    BY <1>1, <2>2, <2>3, <2>4, StepIs, OutsideLegs, EntryStepLegs, LegStepLegs, ExitStepLegs
  <2> QED BY <2>1, <2>4
<1> QED BY <1>1, <1>2, <1>3 DEF Base

LEMMA LegsInit == Init /\ Calmly => Base
<1> SUFFICES ASSUME Init, Calmly PROVE Base
  OBVIOUS
<1>1. FastIsApart(scene)
  BY TypedInit, SceneIs DEF Calmly, Calm, FastIsApart, Typed, TypeOK
<1>2. Typed /\ CountInv /\ StopInv
  BY <1>1, TypedInit, AccountsInit
<1>3. /\ ~struct.tracked /\ \A p \in Procs : run[p].pc = "idle" /\ run[p].mode = "exit"
      /\ pending = NoPending
  BY IdleIs, BlanksAre DEF Init, Fresh
<1>4. ~Live /\ \A p \in Procs : DropOK(p) /\ AtOK(p)
  BY <1>3, ProcsAre DEF Live, Entering, In, DropOK, AtOK, At, AtLeg
<1>5. LegsInv
  BY <1>3, <1>4 DEF LegsInv, LegInv, Live, SquareOK, NoDoubts
<1> QED BY <1>2, <1>5 DEF Base

\* Where the environment lets a stop order fire the two properties say nothing.
LegsHold == Typed /\ (May("gtt_fires") \/ Base)

LEMMA LegsAlways == Spec /\ Calm(scene) => []LegsHold
<1>1. Init /\ Calm(scene) => LegsHold
  BY TypedInit, LegsInit DEF LegsHold, Calmly
<1>2. LegsHold /\ [Next]_vars => LegsHold'
  <2> SUFFICES ASSUME LegsHold, [Next]_vars PROVE LegsHold'
    OBVIOUS
  <2>1. Typed' /\ scene' = scene
    BY TypedNext, SceneStays DEF LegsHold
  <2> QED BY <2>1, LegsNext DEF LegsHold, May
<1> QED BY <1>1, <1>2, PTL DEF Spec

\* A leg of a structure that is still tracked is never closed twice, neither by an exit that
\* begins again after a partial one, nor by one whose order was in doubt, nor by the square-off
\* (_close_leg(), _resolve_pending_exit_order()).  This is of scenes without a restart in which
\* the faults that Calm names do not meet.
THEOREM LegsAreClosedOnce == Spec /\ Calm(scene) => []NeverOverclosed
<1>1. LegsHold => NeverOverclosed
  <2> SUFFICES ASSUME LegsHold, struct.tracked, ~May("gtt_fires"), NEW l \in Legs
               PROVE  Opening(l) * held[l] >= 0
    BY DEF NeverOverclosed
  <2>1. held[l] \in {0, Opening(l)}
    BY DEF LegsHold, Base, LegsInv, LegInv, Live, LegOK
  <2>2. Opening(l) \in {1, -1}
    BY LegsAre
  <2>3. CASE held[l] = 0
    BY <2>2, <2>3
  <2>4. CASE held[l] = Opening(l)
    <3>1. CASE Opening(l) = 1
      BY <2>4, <3>1
    <3>2. CASE Opening(l) = -1
      BY <2>4, <3>2
    <3> QED BY <2>2, <3>1, <3>2
  <2> QED BY <2>1, <2>3, <2>4
<1> QED BY <1>1, LegsAlways, PTL

\* An exit or a square-off deletes a structure only when the broker holds none of its legs:
\* what it counts as closed has been closed, also where an earlier exit closed it, where the
\* positions could not be read, and where an order in doubt turned out to be filled.
THEOREM DroppedWhenFlat == Spec /\ Calm(scene) => DroppedIsFlat
<1> DEFINE Flattened ==
        \A p \in Procs :
            At(p, "drop") /\ ~In(p, "flatten") /\ struct.tracked /\ ~struct'.tracked
            /\ ~May("entries_rest") /\ ~May("gtt_fires") =>
                \A l \in Legs : held[l] = 0
<1>1. LegsHold => Flattened
  <2> SUFFICES ASSUME LegsHold, NEW p \in Procs, At(p, "drop"), struct.tracked,
                      ~May("entries_rest"), ~May("gtt_fires"), NEW l \in Legs
               PROVE  held[l] = 0
    OBVIOUS
  <2>1. run[p].mode \in {"exit", "squareoff"}
    BY LocalsAre DEF LegsHold, LocalsTell, At
  <2>2. TakenClosed(p, l)
    BY <2>1 DEF LegsHold, Base, LegsInv, DropOK, TakenClosed
  <2>3. ClosedOK(l)
    BY DEF LegsHold, Base, LegsInv, LegInv
  <2> QED BY <2>2, <2>3 DEF ClosedOK
<1>2. LegsHold => [Flattened]_vars
  BY <1>1
<1>3. DroppedIsFlat <=> [][Flattened]_vars
  BY DEF DroppedIsFlat
<1> QED BY LegsAlways, <1>2, <1>3, PTL

-----------------------------------------------------------------------------
(* What an entry that breaks off leaves behind.                            *)

Unwinding == In(Cycle, "unwind")

\* The unwind of a spread takes a closing order in doubt for good, and tells nobody.
Tells(s) == s.kind = "spread" /\ "entry_fails" \in s.may => "exit_doubtful" \notin s.may

\* Of an entry in doubt, or one that waits, nothing is claimed.
Plain == ~May("entry_doubtful") /\ ~May("entries_rest")

\* Without a structure a leg is open only while an entry opens it or an unwind closes it.
LeftOK(l) ==
    /\ \A i \in Ids : ~FliesAt(i, l) /\ ~RestsAt(i, l)
    /\ ~Entering /\ ~Unwinding => held[l] = 0
    /\ Unwinding => held[l] = IF l \in run[Cycle].todo THEN Opening(l) ELSE 0

NothingLeft ==
    /\ \A l \in Legs : LeftOK(l)
    /\ In(Cycle, "squareoff") => run[Cycle].todo = {}

\* An unwind follows a refusal, and takes back what the entry has opened.
EntryParts ==
    /\ Unwinding => May("entry_fails")
    /\ Entering /\ run[Cycle].pc \in {"scan", "sent"} => run[Cycle].ok = Legs \ run[Cycle].todo

\* Where the operator has been told nothing is claimed.
LeftInv == EntryParts /\ (~struct.tracked /\ ~alerted => NothingLeft)

Left == Base /\ Plain /\ Tells(scene) /\ LeftInv

\* An entry on its way leaves nothing that is not its own.
LEMMA EntryLeaves == ASSUME Base', Plain', Entering' PROVE NothingLeft'
<1>1. ~struct'.tracked /\ Live' /\ ~Unwinding' /\ ~In(Cycle, "squareoff")'
  BY DEF Base, CountInv, Entering, Unwinding, In, Live
<1>2. ASSUME NEW l \in Legs' PROVE LeftOK(l)'
  <2>1. LegOK(l)'
    BY <1>1, <1>2 DEF Base, LegsInv, LegInv
  <2> QED BY <1>1, <2>1 DEF LegOK, LeftOK, Plain
<1> QED BY <1>1, <1>2 DEF NothingLeft

\* Nothing is left when no walk goes on and the broker holds nothing.
LEMMA NoneLeft ==
    ASSUME scene' = scene, ~Entering', ~Unwinding',
           \A l \in Legs : held'[l] = 0 /\ \A i \in Ids : ~FliesAt(i, l)' /\ ~RestsAt(i, l)',
           In(Cycle, "squareoff")' => run'[Cycle].todo = {}
    PROVE  NothingLeft'
<1>1. Legs' = Legs
  BY DEF Legs
<1> QED BY <1>1 DEF NothingLeft, LeftOK

LEMMA SameOrders ==
    ASSUME UNCHANGED order
    PROVE  \A i \in Ids, l \in Legs : /\ FliesAt(i, l)' <=> FliesAt(i, l)
                                      /\ RestsAt(i, l)' <=> RestsAt(i, l)
BY DEF FliesAt, RestsAt

\* The last structure goes with all its legs closed.
LEMMA DropLeaves ==
    ASSUME Left, NEW p \in Procs, Drop(p), ~alerted PROVE NothingLeft'
<1>1. /\ run[p].pc = "drop" /\ Leave(p) /\ UNCHANGED <<held, order, scene>>
  BY DEF Drop, At, brokerVars, worldVars
<1>2. struct.tracked
  <2>1. CASE p = Cycle
    BY <1>1, <2>1, CalmIs DEF At, Left
  <2>2. CASE p = Fast
    BY <1>1, <2>2, CalmIs DEF At, Left
  <2> QED BY <2>1, <2>2 DEF Procs
<1>3. run'[p].mode = "exit" /\ \A q \in Procs \ {p} : run'[q] = run[q]
  BY <1>1, LeaveIs DEF Base, Left
<1>4. run[p].mode \in {"exit", "squareoff"} /\ run[p].ok = Legs
  BY <1>1, LocalsAre DEF Left, Base, LegsInv, LocalsTell, DropOK, At
<1>5. ASSUME NEW l \in Legs
      PROVE  held[l] = 0 /\ \A i \in Ids : ~FliesAt(i, l) /\ ~RestsAt(i, l)
  <2>1. LegOK(l) /\ ClosedOK(l) /\ (Remembered(l) => DoubtOK(l))
    BY <1>2 DEF Left, Base, LegsInv, LegInv, Live
  <2>2. held[l] = 0
    BY <1>4, <2>1 DEF ClosedOK, TakenClosed, Left, Plain
  <2>3. ASSUME NEW i \in Ids, FliesAt(i, l) PROVE FALSE
    <3>1. struct.pend[l] = i /\ Doubted(l).fate = "flying"
      BY <2>1, <2>3 DEF LegOK, Doubted, FliesAt
    <3>2. held[l] = Opening(l)
      BY <2>1, <2>3, <3>1, IdsAre DEF DoubtOK, Remembered
    <3> QED BY <2>2, <3>2, LegsAre
  <2>4. \A i \in Ids : ~RestsAt(i, l)
    BY <2>1 DEF LegOK, Left, Plain
  <2> QED BY <2>2, <2>3, <2>4
<1>6. ~Entering' /\ ~Unwinding'
  BY <1>2, <1>3, ProcsAre, CalmIs DEF Entering, Unwinding, In, Left
<1>7. In(Cycle, "squareoff")' => run'[Cycle].todo = {}
  <2>1. CASE p = Cycle
    BY <1>3, <2>1 DEF In
  <2>2. CASE p = Fast
    <3>1. run'[Cycle] = run[Cycle] /\ ~Late
      BY <1>1, <1>3, <2>2, ProcsAre, CalmIs DEF At, Left
    <3> QED BY <1>2, <3>1 DEF Left, Base, LegsInv, SquareOK, In
  <2> QED BY <2>1, <2>2 DEF Procs
<1> QED BY <1>1, <1>5, <1>6, <1>7, SameOrders, NoneLeft

\* Nobody forgets that he was told, and only Drop() lets a structure go.
LEMMA OnlyDropGoes ==
    ASSUME Base, Next
    PROVE  /\ ~alerted' => ~alerted
           /\ struct.tracked /\ ~struct'.tracked => \E p \in Procs : Drop(p)
<1> DEFINE Goes == /\ ~alerted' => ~alerted
                   /\ struct.tracked /\ ~struct'.tracked => \E p \in Procs : Drop(p)
<1> HIDE DEF Goes
<1>1. UNCHANGED <<alerted, struct>> => Goes
  BY DEF Goes
<1>2. ASSUME NEW p \in Procs, LegStep(p) PROVE Goes
  <2>1. struct'.tracked = struct.tracked
    BY <1>2, LegStepIs DEF Base
  <2>2. ~alerted' => ~alerted
    BY <1>2 DEF LegStep, LegIsClosed, CloseLeg, Resolve, Place, CloseTaken, CloseFailed, CloseDoubtful
  <2> QED BY <2>1, <2>2 DEF Goes
<1>3. ASSUME NEW p \in Procs, ExitStep(p) PROVE Goes
  <2>1. alerted' = alerted
    BY <1>3 DEF ExitStep, NoExitReason, ExitReason, Drop, SpreadExitPartly, CondorExitPartly,
                ExitPartly, SpreadExitFully, CondorExitFully, ExitFully
  <2>2. CASE Drop(p)
    BY <2>1, <2>2 DEF Goes
  <2>3. CASE ~Drop(p)
    <3>1. struct' = struct \/ \E legs : struct' = [struct EXCEPT !.done = @ \cup legs, !.stops = @ \ legs]
      BY <1>3, <2>3 DEF ExitStep, NoExitReason, ExitReason, SpreadExitPartly, CondorExitPartly,
                  ExitPartly, SpreadExitFully, CondorExitFully, ExitFully, engineVars, memoryVars
    <3>2. struct \in Structs
      BY MemoryIs DEF Base, Typed, TypeOK
    <3>3. struct'.tracked = struct.tracked
      BY <3>1, <3>2 DEF Structs
    <3> QED BY <2>1, <3>3 DEF Goes
  <2> QED BY <2>2, <2>3
<1>4. CASE SquareOffStep
  <2>1. CASE SquareOff \/ SquareOffSpread \/ SquareOffCondor
    <3>1. alerted' = alerted /\ struct' = struct
      BY <2>1 DEF SquareOff, SquareOffSpread, SquareOffCondor, SquareOffStructure,
                  engineVars, memoryVars
    <3> QED BY <1>1, <3>1
  <2>2. CASE SquareOffDone
    <3>1. struct' = struct /\ (~alerted' => ~alerted)
      BY <2>2 DEF SquareOffDone, memoryVars
    <3> QED BY <3>1 DEF Goes
  <2> QED BY <1>4, <2>1, <2>2 DEF SquareOffStep
<1>5. CASE EntryStep
  <2> USE <1>5 DEF EntryStep, NoEntry, Enter, PlaceLeg, LegRefused, SpreadLegTaken,
           CondorLegTaken, LegTaken, SpreadLegNotTaken, CondorLegNotTaken, LegNotTaken, UnwindDone,
           BookSpread, BookCondor, Book, PlaceStops, TrackSpread, TrackCondor
  <2>1. CASE struct' = struct
    <3>1. alerted' = alerted
      BY DEF Track
    <3> QED BY <1>1, <2>1, <3>1
  <2>2. CASE struct' # struct
    <3>1. PICK kind : Track(kind)
      BY <2>2 DEF engineVars, memoryVars
    <3>2. struct'.tracked /\ alerted' = alerted
      BY <3>1 DEF Track, NoStruct
    <3> QED BY <3>2 DEF Goes
  <2> QED BY <2>1, <2>2
<1>6. ASSUME NEW i \in Ids, Verify(i) \/ ExpireStale(i) \/ Land(i) \/ Fill(i) PROVE Goes
  BY <1>1, <1>6 DEF Verify, ExpireStale, Land, Fill, Arrives, engineVars, memoryVars
<1>7. CASE StartCycle \/ TakeLock \/ FastJob \/ LateInTheDay \/ NextDay
  BY <1>1, <1>7 DEF StartCycle, TakeLock, FastJob, LateInTheDay, NextDay, engineVars, memoryVars
<1>8. ASSUME NEW l \in Shorts, StopFires(l) PROVE Goes
  BY <1>1, <1>8 DEF StopFires, engineVars, memoryVars
<1>9. ~Crash /\ ~RestoreStep
  <2>1. restarts = 0 /\ scene.restarts = 0 /\ ~Restoring
    BY CalmIs
  <2> QED BY <2>1 DEF Crash, RestoreStep, FindOrphans, OrphansDone, FindHalfClosed, HalfSpreadDone,
                      HalfCondorDone, HalfClosedDone, Restored, WalkDone, Restoring, At, In
<1> QED BY <1>2, <1>3, <1>4, <1>5, <1>6, <1>7, <1>8, <1>9, StepIs DEF Goes

LEMMA PartsStay ==
    ASSUME EntryParts, scene' = scene,
           run'[Cycle] = run[Cycle] \/ run'[Cycle].mode \notin {"entry", "unwind"}
    PROVE  EntryParts'
BY DEF EntryParts, Unwinding, Entering, In, May, Legs

\* The cycle goes on outside an entry, and the broker does nothing.
LEMMA LeftOutside ==
    ASSUME Left, UNCHANGED <<held, order, scene>>, struct'.tracked = struct.tracked,
           ~alerted' => ~alerted,
           ~Entering, Unwinding => run[Cycle].todo = {}, ~Entering', ~Unwinding',
           In(Cycle, "squareoff")' /\ (\A l \in Legs : held[l] = 0) /\ ~struct.tracked =>
               run'[Cycle].todo = {}
    PROVE  LeftInv'
<1>1. EntryParts'
  BY DEF EntryParts
<1>2. ASSUME ~struct'.tracked, ~alerted' PROVE NothingLeft'
  <2>1. NothingLeft
    BY <1>2 DEF Left, LeftInv
  <2>2. \A l \in Legs : held[l] = 0 /\ \A i \in Ids : ~FliesAt(i, l) /\ ~RestsAt(i, l)
    BY <2>1 DEF NothingLeft, LeftOK
  <2> QED BY <1>2, <2>2, SameOrders, NoneLeft
<1> QED BY <1>1, <1>2 DEF LeftInv

\* An entry goes on.
LEMMA LeftEntering ==
    ASSUME Left, Base', scene' = scene, Entering',
           run'[Cycle].pc \in {"scan", "sent"} => run'[Cycle].ok = Legs \ run'[Cycle].todo
    PROVE  LeftInv'
<1>1. Plain' /\ ~Unwinding' /\ Legs' = Legs
  BY DEF Left, Plain, May, Entering, Unwinding, In, Legs
<1>2. EntryParts'
  BY <1>1 DEF EntryParts
<1> QED BY <1>1, <1>2, EntryLeaves DEF LeftInv

\* An unwind begins, or goes on.
LEMMA LeftUnwinding ==
    ASSUME Left, UNCHANGED <<order, scene>>, struct'.tracked = struct.tracked, Unwinding',
           May("entry_fails"), Entering \/ Unwinding, ~alerted' => ~alerted,
           ~struct.tracked /\ ~alerted' =>
               \A l \in Legs : held'[l] = IF l \in run'[Cycle].todo THEN Opening(l) ELSE 0
    PROVE  LeftInv'
<1>1. /\ ~struct.tracked /\ Legs' = Legs /\ ~Entering' /\ ~In(Cycle, "squareoff")'
      /\ \A l \in Legs : Opening(l)' = Opening(l)
  BY CalmIs DEF Left, Legs, Entering, Unwinding, In, Opening, IsShort
<1>2. EntryParts'
  BY <1>1 DEF EntryParts, May
<1>3. ASSUME ~alerted' PROVE NothingLeft'
  <2>1. NothingLeft
    BY <1>1, <1>3 DEF Left, LeftInv
  <2>2. \A l \in Legs : \A i \in Ids : ~FliesAt(i, l) /\ ~RestsAt(i, l)
    BY <2>1 DEF NothingLeft, LeftOK
  <2> QED BY <1>1, <1>3, <2>2, SameOrders DEF NothingLeft, LeftOK
<1> QED BY <1>2, <1>3 DEF LeftInv

\* What a walk leaves when the structure is tracked is the matter of the exits.
LEMMA LeftTracked == ASSUME Base', struct'.tracked PROVE LeftInv'
<1>1. ~Entering' /\ ~Unwinding'
  BY DEF Base, CountInv, Entering, Unwinding, In
<1> QED BY <1>1 DEF LeftInv, EntryParts

\* One leg of an entry that is taken back.
LEMMA UnwindLegLeft ==
    ASSUME Left, Base', LegStep(Cycle), Unwinding PROVE LeftInv'
<1> USE ProcsAre
<1> SUFFICES ASSUME NEW k, k = run[Cycle].at PROVE LeftInv'
  OBVIOUS
<1>1. /\ run'[Cycle].mode = run[Cycle].mode /\ struct'.tracked = struct.tracked /\ scene' = scene
      /\ run[Cycle].pc # "resolve" /\ (run[Cycle].pc \in AtLeg => k \in run[Cycle].todo)
  BY LegStepIs, LocalsAre DEF Left, Base, LocalsTell, Unwinding, In
<1>2. Unwinding' /\ May("entry_fails") /\ ~struct.tracked
  BY <1>1, CalmIs DEF Unwinding, In, Left, LeftInv, EntryParts
<1>3. ~alerted' => ~alerted
  BY OnlyDropGoes DEF Left, Next, CycleStep
<1>4. ~alerted => \A l \in Legs : held[l] = IF l \in run[Cycle].todo THEN Opening(l) ELSE 0
  BY <1>2 DEF Left, LeftInv, NothingLeft, LeftOK, Unwinding
<1>5. ASSUME UNCHANGED <<order, held>>, run'[Cycle].todo = run[Cycle].todo PROVE LeftInv'
  BY <1>1, <1>2, <1>3, <1>4, <1>5, LeftUnwinding
<1>6. CASE Place(Cycle)
  <2>1. UNCHANGED <<order, held>> /\ run' = [run EXCEPT ![Cycle].pc = "sent"]
    BY <1>6 DEF Place, Goto, brokerVars
  <2>2. run'[Cycle].todo = run[Cycle].todo
    BY <2>1, LocalsAre DEF Left, Base, Typed, TypeOK, RunOK, Locals
  <2> QED BY <1>5, <2>1, <2>2
<1>7. ASSUME NEW l \in Legs, CloseLeg(Cycle, l) PROVE LeftInv'
  <2> DEFINE r == [run[Cycle] EXCEPT !.at = l, !.id = InDoubt(Cycle, l),
                    !.pc = IF InDoubt(Cycle, l) = NoOrder THEN "place" ELSE "resolve"]
  <2>1. UNCHANGED <<order, held>> /\ Become(Cycle, r)
    BY <1>7 DEF CloseLeg, brokerVars
  <2>2. r.todo = run[Cycle].todo
    BY LocalsAre DEF Left, Base, Locals
  <2> HIDE DEF r
  <2> QED BY <1>5, <2>1, <2>2, Becomes DEF Left, Base
<1>8. CASE CloseTaken(Cycle)
  <2>1. /\ order' = order /\ held' = [held EXCEPT ![k] = @ + Lots(Cycle)]
        /\ Onward(Cycle, k, TRUE) /\ k \in run[Cycle].todo
    BY <1>1, <1>8 DEF CloseTaken, Sent, At, AtLeg
  <2>2. k \in Legs /\ k \in AllLegs /\ Legs \subseteq AllLegs /\ Opening(k) \in {1, -1}
    BY <2>1, LocalsAre, LegsAre DEF Left, Base, LocalsTell
  <2>3. Lots(Cycle) = -Opening(k) /\ held \in [AllLegs -> Int]
    BY BrokerIs DEF Lots, Unwinding, In, Left, Base, Typed, TypeOK
  <2>4. run'[Cycle].todo = run[Cycle].todo \ {k}
    BY <2>1, <2>2, OnwardIs DEF Left, Base
  <2>5. held'[k] = held[k] + Lots(Cycle) /\ \A l \in Legs \ {k} : held'[l] = held[l]
    BY <2>1, <2>2, <2>3
  <2>6. ~alerted' => held'[k] = 0
    BY <1>3, <1>4, <2>1, <2>2, <2>3, <2>5
  <2>7. ~alerted' => \A l \in Legs : held'[l] = IF l \in run'[Cycle].todo THEN Opening(l) ELSE 0
    BY <1>3, <1>4, <2>4, <2>5, <2>6
  <2> QED BY <1>1, <1>2, <1>3, <2>1, <2>7, LeftUnwinding
<1>9. ASSUME alerted' PROVE LeftInv'
  <2>1. EntryParts'
    BY <1>1, <1>2 DEF EntryParts, Entering, Unwinding, In, May
  <2> QED BY <1>9, <2>1 DEF LeftInv
<1>10. CASE CloseFailed(Cycle)
  BY <1>9, <1>10 DEF CloseFailed, Unwinding
<1>11. CASE CloseDoubtful(Cycle)
  <2>1. scene.kind \in Kinds
    BY SceneIs DEF Left, Base, Typed, TypeOK
  <2>2. scene.kind = "condor"
    BY <1>2, <1>11, <2>1 DEF CloseDoubtful, Kinds, Left, Tells, May
  <2> QED BY <1>9, <1>11, <2>2 DEF CloseDoubtful, Unwinding
<1>12. ~Resolve(Cycle) /\ \A l \in Legs : ~LegIsClosed(Cycle, l)
  BY <1>1 DEF Resolve, LegIsClosed, At, Unwinding, In
<1> QED BY <1>6, <1>7, <1>8, <1>10, <1>11, <1>12 DEF LegStep

LEMMA LegStepLeft ==
    ASSUME Left, Base', NEW p \in Procs, LegStep(p) PROVE LeftInv'
<1> USE ProcsAre
<1>1. /\ run[p].pc \in Steps /\ struct'.tracked = struct.tracked
      /\ run[Cycle].pc \in AtLeg => run[Cycle].at \in run[Cycle].todo
  BY LegStepIs, LocalsAre DEF Left, Base, LocalsTell, Steps
<1>2. CASE struct.tracked
  BY <1>1, <1>2, LeftTracked
<1>3. CASE ~struct.tracked
  <2>1. p = Cycle
    BY <1>1, <1>3, CalmIs DEF Left, Procs, At, Steps, AtLeg
  <2>2. run[Cycle].mode \in {"entry", "unwind", "squareoff"}
    BY <1>1, <1>3, <2>1, CalmIs DEF Left, Closing, Steps, In
  <2>3. CASE In(Cycle, "entry")
    <3>1. run[Cycle].pc \notin {"resolve", "place"}
      BY <2>3, LocalsAre DEF Left, Base, LocalsTell, In
    <3> QED BY <2>1, <2>3, <3>1 DEF LegStep, LegIsClosed, CloseLeg, Resolve, Place, CloseTaken,
                                    CloseFailed, CloseDoubtful, Sent, At, In
  <2>4. CASE In(Cycle, "unwind")
    BY <2>1, <2>4, UnwindLegLeft DEF Unwinding
  <2>5. CASE In(Cycle, "squareoff")
    <3>1. run[Cycle].todo # {}
      BY <1>1, <2>1 DEF LegStep, LegIsClosed, CloseLeg, IsNext, Resolve, Place, CloseTaken,
                        CloseFailed, CloseDoubtful, Sent, At, AtLeg
    <3>2. alerted
      BY <1>3, <2>5, <3>1 DEF Left, LeftInv, NothingLeft
    <3>3. alerted'
      BY <2>1, <3>2, OnlyDropGoes DEF Left, Next, CycleStep
    <3>4. run'[Cycle].mode = "squareoff"
      BY <2>1, <2>5, LegStepIs DEF Left, Base, In
    <3> QED BY <3>3, <3>4 DEF LeftInv, EntryParts, Entering, Unwinding, In
  <2> QED BY <2>2, <2>3, <2>4, <2>5 DEF In
<1> QED BY <1>2, <1>3

LEMMA ExitStepLeft ==
    ASSUME Left, Base', NEW p \in Procs, ExitStep(p) PROVE LeftInv'
<1> USE ProcsAre
<1>1. CASE struct'.tracked
  BY <1>1, LeftTracked
<1>2. CASE Drop(p) /\ ~struct'.tracked
  <2>1. /\ run[p].pc = "drop" /\ Leave(p) /\ alerted' = alerted
    BY <1>2 DEF Drop, At
  <2>2. /\ run'[p].mode = "exit" /\ \A q \in Procs \ {p} : run'[q] = run[q]
        /\ struct.tracked
    BY <2>1, LeaveIs, CalmIs DEF Left, Base, Procs, At
  <2>3. ~Entering' /\ ~Unwinding'
    BY <2>2, CalmIs DEF Left, Entering, Unwinding, In
  <2> QED BY <1>2, <2>1, <2>3, DropLeaves DEF LeftInv, EntryParts
<1>3. CASE ~Drop(p) /\ ~struct'.tracked
  <2>2. ~struct.tracked
    <3>1. struct.tracked => struct'.tracked
      <4>1. struct' = struct \/ \E legs : struct' = [struct EXCEPT !.done = @ \cup legs, !.stops = @ \ legs]
        BY <1>3 DEF ExitStep, NoExitReason, ExitReason, SpreadExitPartly, CondorExitPartly,
                    ExitPartly, SpreadExitFully, CondorExitFully, ExitFully, engineVars, memoryVars
      <4>2. struct \in Structs
        BY MemoryIs DEF Left, Base, Typed, TypeOK
      <4> QED BY <4>1, <4>2 DEF Structs
    <3> QED BY <1>3, <3>1
  <2>3. p = Cycle /\ ~Closing
    <3>1. run[p].pc \in {"check", "scan"}
      BY <1>3 DEF ExitStep, NoExitReason, ExitReason, SpreadExitPartly, CondorExitPartly,
                  ExitPartly, SpreadExitFully, CondorExitFully, ExitFully, WalkDone, At
    <3> QED BY <2>2, <3>1, CalmIs DEF Left, Procs, At
  <2>4. NoExitReason(Cycle)
    BY <1>3, <2>2, <2>3 DEF ExitStep, NoExitReason, ExitReason, SpreadExitPartly, CondorExitPartly,
          ExitPartly, SpreadExitFully, CondorExitFully, ExitFully, WalkDone, Closing, At, In
  <2>5. /\ UNCHANGED <<held, order, scene, struct, alerted>> /\ run[Cycle].pc = "check" /\ Leave(Cycle)
    BY <2>4 DEF NoExitReason, At, brokerVars, engineVars, memoryVars, worldVars
  <2>6. run[Cycle].mode = "exit" /\ run'[Cycle].mode = "exit"
    BY <2>5, LeaveIs, LocalsAre DEF Left, Base, LocalsTell, Between, Fresh
  <2> QED BY <2>5, <2>6, LeftOutside DEF Entering, Unwinding, In
<1> QED BY <1>1, <1>2, <1>3

LEMMA SquareOffLeft ==
    ASSUME Left, Base', SquareOffStep PROVE LeftInv'
<1> USE ProcsAre
<1>1. CASE struct'.tracked
  BY <1>1, LeftTracked
<1>2. CASE SquareOff
  <2>1. /\ run[Cycle].pc = "idle" /\ UNCHANGED <<held, order, struct, scene, alerted>>
    BY <1>2 DEF SquareOff, At, brokerVars, engineVars, memoryVars, worldVars
  <2>2. PICK positions \in Positions :
          Become(Cycle, [Idle EXCEPT
              !.pc = "scan", !.mode = "squareoff", !.due = EndsToday,
              !.known = positions.known, !.qty = positions.qty,
              !.todo = IF struct.tracked /\ ~EndsToday THEN {}
                       ELSE {l \in Legs : positions.qty[l] # 0}])
    BY <1>2 DEF SquareOff
  <2> DEFINE todo == IF struct.tracked /\ ~EndsToday THEN {} ELSE {l \in Legs : positions.qty[l] # 0}
             r == [Idle EXCEPT !.pc = "scan", !.mode = "squareoff", !.due = EndsToday,
                               !.known = positions.known, !.qty = positions.qty, !.todo = todo]
  <2>3. r.mode = "squareoff" /\ r.todo = todo
    BY IdleIs DEF Locals
  <2>4. Become(Cycle, r)
    BY <2>2
  <2> HIDE DEF r
  <2>5. run'[Cycle].mode = "squareoff" /\ run'[Cycle].todo = todo
    BY <2>3, <2>4, Becomes DEF Left, Base
  <2>6. run[Cycle].mode = "exit"
    BY <2>1, LocalsAre DEF Left, Base, LocalsTell, Between, Fresh
  <2>7. (\A l \in Legs : held[l] = 0) => todo = {}
    <3>1. positions.qty = held \/ positions.qty = Flat
      BY DEF Positions
    <3> QED BY <3>1, LegsAre DEF Flat
  <2> HIDE DEF todo
  <2> QED BY <2>1, <2>5, <2>6, <2>7, LeftOutside DEF Entering, Unwinding, In
<1>3. CASE SquareOffDone
  <2>1. /\ In(Cycle, "squareoff") /\ Become(Cycle, Idle)
        /\ UNCHANGED <<held, order, struct, scene>>
    BY <1>3 DEF SquareOffDone, WalkDone, brokerVars, memoryVars, worldVars
  <2>2. ~alerted' => ~alerted
    BY <1>3 DEF SquareOffDone
  <2>3. run'[Cycle].mode = "exit"
    BY <2>1, Becomes, IdleIs DEF Left, Base, Fresh
  <2> QED BY <2>1, <2>2, <2>3, LeftOutside DEF Entering, Unwinding, In
<1>4. ASSUME NEW kind, SquareOffStructure(kind) PROVE struct'.tracked
  BY <1>4 DEF SquareOffStructure, memoryVars
<1> QED BY <1>1, <1>2, <1>3, <1>4 DEF SquareOffStep, SquareOffSpread, SquareOffCondor

\* An entry breaks off: what it has opened is to be taken back.
LEMMA UnwindLeft ==
    ASSUME Left, Unwind, In(Cycle, "entry"), run[Cycle].pc \in {"scan", "sent"}, May("entry_fails"),
           UNCHANGED <<held, order, scene, struct>>, alerted' = alerted
    PROVE  LeftInv'
<1>1. /\ run'[Cycle].mode = "unwind" /\ run'[Cycle].todo = run[Cycle].ok
      /\ run[Cycle].ok = Legs \ run[Cycle].todo
  BY WalkIs, ProcsAre DEF Unwind, Left, Base, LeftInv, EntryParts, Entering
<1>2. ASSUME NEW l \in Legs PROVE held[l] = IF l \in run'[Cycle].todo THEN Opening(l) ELSE 0
  <2>1. EntryOK(l)
    BY DEF Left, Base, LegsInv, LegInv, Entering
  <2> QED BY <1>1, <2>1 DEF EntryOK, Left, Plain
<1> QED BY <1>1, <1>2, LeftUnwinding DEF Entering, Unwinding, In

LEMMA EntryStepLeft ==
    ASSUME Left, Base', EntryStep PROVE LeftInv'
<1> USE ProcsAre
<1>1. CASE NoEntry
  <2>1. /\ run[Cycle].pc = "entries" /\ Become(Cycle, Idle)
        /\ UNCHANGED <<held, order, struct, scene, alerted>>
    BY <1>1 DEF NoEntry, At, brokerVars, engineVars, memoryVars, worldVars
  <2>2. run[Cycle].mode = "exit" /\ run'[Cycle].mode = "exit"
    BY <2>1, Becomes, IdleIs, LocalsAre DEF Left, Base, LocalsTell, Between, Fresh
  <2> QED BY <2>1, <2>2, LeftOutside DEF Entering, Unwinding, In
<1>2. CASE Enter
  <2>1. scene' = scene /\ Walk(Cycle, "entry", Legs, NoPositions)
    BY <1>2 DEF Enter
  <2>2. run'[Cycle].mode = "entry" /\ run'[Cycle].todo = Legs /\ run'[Cycle].ok = {}
    BY <2>1, WalkIs DEF Left, Base
  <2> QED BY <2>1, <2>2, LeftEntering DEF Entering, In
<1>3. ASSUME NEW k \in Legs, PlaceLeg(k) PROVE LeftInv'
  <2> DEFINE r == [run[Cycle] EXCEPT !.at = k, !.pc = "sent"]
  <2>1. In(Cycle, "entry") /\ run[Cycle].pc = "scan" /\ Become(Cycle, r) /\ scene' = scene
    BY <1>3 DEF PlaceLeg, IsNext, At, worldVars
  <2>2. r.mode = run[Cycle].mode /\ r.todo = run[Cycle].todo /\ r.ok = run[Cycle].ok
    BY LocalsAre DEF Left, Base, Locals
  <2> HIDE DEF r
  <2>3. run'[Cycle] = r
    BY <2>1, Becomes DEF Left, Base
  <2> QED BY <2>1, <2>2, <2>3, LeftEntering DEF Left, LeftInv, EntryParts, Entering, In
<1>4. ASSUME NEW l \in Legs, LegRefused(l) PROVE LeftInv'
  BY <1>4, UnwindLeft DEF LegRefused, IsNext, At, brokerVars, worldVars
<1>5. ASSUME NEW kind, LegTaken(kind) PROVE LeftInv'
  <2> SUFFICES ASSUME NEW k, k = run[Cycle].at PROVE LeftInv'
    OBVIOUS
  <2>1. In(Cycle, "entry") /\ run[Cycle].pc = "sent" /\ Onward(Cycle, k, TRUE) /\ scene' = scene
    BY <1>5 DEF LegTaken, EntrySent, At, worldVars
  <2>2. k \in run[Cycle].todo /\ k \in Legs /\ k \in AllLegs
    BY <2>1, LocalsAre, LegsAre DEF Left, Base, LocalsTell, AtLeg
  <2>3. /\ run'[Cycle].mode = "entry" /\ run'[Cycle].todo = run[Cycle].todo \ {k}
        /\ run'[Cycle].ok = run[Cycle].ok \cup {k}
    BY <2>1, <2>2, OnwardIs DEF Left, Base, In
  <2>4. run[Cycle].ok = Legs \ run[Cycle].todo
    BY <2>1 DEF Left, LeftInv, EntryParts, Entering
  <2> QED BY <2>1, <2>2, <2>3, <2>4, LeftEntering DEF Entering, In
<1>6. ASSUME NEW kind, LegNotTaken(kind) PROVE LeftInv'
  <2>1. /\ In(Cycle, "entry") /\ run[Cycle].pc = "sent" /\ Unwind
        /\ UNCHANGED <<held, order, scene, struct>> /\ alerted' = alerted /\ May("entry_fails")
    BY <1>6 DEF LegNotTaken, EntrySent, At, engineVars, memoryVars, worldVars, Left, Plain
  <2> QED BY <2>1, UnwindLeft
<1>7. CASE UnwindDone
  <2>1. /\ In(Cycle, "unwind") /\ run[Cycle].todo = {} /\ Become(Cycle, Idle)
        /\ UNCHANGED <<held, order, struct, scene, alerted>>
    BY <1>7 DEF UnwindDone, WalkDone, brokerVars, worldVars
  <2>2. run'[Cycle].mode = "exit"
    BY <2>1, Becomes, IdleIs DEF Left, Base, Fresh
  <2> QED BY <2>1, <2>2, LeftOutside DEF Entering, Unwinding, In
<1>8. ASSUME NEW kind, Book(kind) PROVE LeftInv'
  <2>1. In(Cycle, "entry") /\ Goto(Cycle, "booked") /\ scene' = scene
    BY <1>8 DEF Book, WalkDone, worldVars
  <2>2. run'[Cycle].mode = "entry" /\ run'[Cycle].pc = "booked"
    BY <2>1, GotoIs DEF Left, Base, In
  <2> QED BY <2>1, <2>2, LeftEntering DEF Entering, In
<1>9. CASE PlaceStops
  <2>1. PICK stops \in {{}, Shorts} : Become(Cycle, [run[Cycle] EXCEPT !.pc = "track", !.ok = stops])
    BY <1>9 DEF PlaceStops
  <2> DEFINE r == [run[Cycle] EXCEPT !.pc = "track", !.ok = stops]
  <2>2. run[Cycle].pc = "booked" /\ scene' = scene /\ Become(Cycle, r)
    BY <1>9, <2>1 DEF PlaceStops, At, worldVars
  <2>3. r.mode = run[Cycle].mode /\ r.pc = "track"
    BY LocalsAre DEF Left, Base, Locals
  <2> HIDE DEF r
  <2>4. run[Cycle].mode = "entry"
    BY <2>2, LocalsAre DEF Left, Base, LocalsTell
  <2>5. run'[Cycle].mode = "entry" /\ run'[Cycle].pc = "track"
    BY <2>2, <2>3, <2>4, Becomes DEF Left, Base
  <2> QED BY <2>2, <2>5, LeftEntering DEF Entering, In
<1>10. ASSUME NEW kind, Track(kind) PROVE LeftInv'
  BY <1>10, LeftTracked DEF Track, NoStruct
<1> QED BY <1>1, <1>2, <1>3, <1>4, <1>5, <1>6, <1>7, <1>8, <1>9, <1>10
        DEF EntryStep, SpreadLegTaken, CondorLegTaken, SpreadLegNotTaken, CondorLegNotTaken,
            BookSpread, BookCondor, TrackSpread, TrackCondor

\* The orders change at the exchange: none arrives where no structure waits for it.
LEMMA ArrivesLeft ==
    ASSUME Left, Base', NEW i \in Ids, Verify(i) \/ ExpireStale(i) \/ Land(i) \/ Fill(i) PROVE LeftInv'
<1>1. /\ UNCHANGED <<struct, run, scene, alerted>>
      /\ order \in [Ids -> Rows] /\ held \in [AllLegs -> Int]
  BY BrokerIs DEF Left, Base, Typed, TypeOK, Verify, ExpireStale, Land, Fill, Arrives,
                  engineVars, memoryVars, worldVars
<1>2. EntryParts'
  BY <1>1, PartsStay DEF Left, LeftInv
<1>3. ASSUME ~struct.tracked, ~alerted PROVE NothingLeft'
  <2>1. NothingLeft /\ Legs' = Legs
    BY <1>1, <1>3 DEF Left, LeftInv, Legs
  <2>2. \A l \in Legs, j \in Ids : ~FliesAt(j, l) /\ ~RestsAt(j, l)
    BY <2>1 DEF NothingLeft, LeftOK
  <2>3. \/ order'[i].fate \in {"filled", "lost", "none"}
        \/ order'[i].fate = order[i].fate /\ order'[i].leg = order[i].leg
    BY <1>1 DEF Verify, ExpireStale, Land, Fill, Arrives, Rows, Blank
  <2>4. \A j \in Ids \ {i} : order'[j] = order[j]
    BY <1>1 DEF Verify, ExpireStale, Land, Fill, Arrives
  <2>5. \A l \in Legs, j \in Ids : ~FliesAt(j, l)' /\ ~RestsAt(j, l)'
    BY <2>2, <2>3, <2>4 DEF FliesAt, RestsAt
  <2>6. \A l \in Legs : held'[l] = held[l]
    <3>1. CASE held' = held
      BY <3>1
    <3>2. CASE Land(i) \/ Fill(i)
      <4>1. order[i].leg \notin Legs /\ order[i].leg \in AllLegs
        BY <1>1, <2>2, <3>2 DEF Land, Fill, FliesAt, RestsAt, Rows
      <4>2. held' = [held EXCEPT ![order[i].leg] = @ + order[i].lots]
        BY <3>2 DEF Land, Fill, Arrives
      <4> QED BY <1>1, <4>1, <4>2, LegsAre
    <3> QED BY <3>1, <3>2 DEF Verify, ExpireStale
  <2>7. \A l \in Legs : Opening(l)' = Opening(l)
    BY DEF Opening, IsShort
  <2> QED BY <1>1, <2>1, <2>5, <2>6, <2>7 DEF NothingLeft, LeftOK, Entering, Unwinding, In
<1> QED BY <1>1, <1>2, <1>3 DEF LeftInv

LEMMA NextDayLeft == ASSUME Left, Base', NextDay PROVE LeftInv'
<1> USE ProcsAre
<1>1. /\ run[Cycle].pc = "idle" /\ UNCHANGED <<struct, run, scene, alerted>>
      /\ held' = Flat \/ held' = held
      /\ order' = AtExchange("lost")
  BY DEF NextDay, Quiet
<1>2. EntryParts'
  BY <1>1, PartsStay DEF Left, LeftInv
<1>3. run[Cycle].mode = "exit"
  BY <1>1, LocalsAre DEF Left, Base, LocalsTell, Between, Fresh
<1>4. ASSUME ~struct.tracked, ~alerted PROVE NothingLeft'
  <2>1. \A l \in Legs : held[l] = 0
    BY <1>3, <1>4 DEF Left, LeftInv, NothingLeft, LeftOK, Entering, Unwinding, In
  <2>2. \A l \in Legs : held'[l] = 0
    BY <1>1, <2>1, LegsAre DEF Flat
  <2>3. \A l \in Legs, i \in Ids : ~FliesAt(i, l)' /\ ~RestsAt(i, l)'
    <3>1. \A i \in Ids : order'[i].fate \notin {"flying", "resting"}
      <4>1. order \in [Ids -> Rows]
        BY BrokerIs DEF Left, Base, Typed, TypeOK
      <4> QED BY <1>1, <4>1 DEF AtExchange, Rows
    <3> QED BY <3>1 DEF FliesAt, RestsAt
  <2> QED BY <1>1, <1>3, <2>2, <2>3, NoneLeft DEF Entering, Unwinding, In
<1> QED BY <1>1, <1>2, <1>4 DEF LeftInv

\* Nothing happens to what the legs are read from.
LEMMA LeftStands ==
    ASSUME Left, UNCHANGED <<held, order, struct, run, scene, alerted>> PROVE LeftInv'
<1>1. EntryParts' /\ Legs' = Legs
  BY PartsStay DEF Left, LeftInv, Legs
<1>2. \A l \in Legs : LeftOK(l) => LeftOK(l)'
  BY DEF LeftOK, FliesAt, RestsAt, Entering, Unwinding, In, Opening, IsShort
<1> QED BY <1>1, <1>2 DEF Left, LeftInv, NothingLeft, In

LEMMA OutsideLeft ==
    ASSUME Left, Base',
           \/ StartCycle \/ TakeLock \/ FastJob \/ LateInTheDay \/ NextDay \/ Crash
           \/ RestoreStep \/ \E l \in Shorts : StopFires(l)
    PROVE  LeftInv'
<1> USE ProcsAre
<1>1. ASSUME NEW label \in Between, run[Cycle].pc \in Between, Goto(Cycle, label),
             UNCHANGED <<held, order, struct, scene, alerted>>
      PROVE  LeftInv'
  <2>1. run[Cycle].mode = "exit" /\ run'[Cycle].mode = "exit"
    BY <1>1, GotoIs, LocalsAre DEF Left, Base, LocalsTell, Fresh
  <2> QED BY <1>1, <2>1, LeftOutside DEF Entering, Unwinding, In
<1>2. CASE StartCycle
  BY <1>1, <1>2 DEF StartCycle, At, Between, brokerVars, engineVars, memoryVars, worldVars
<1>3. CASE TakeLock
  BY <1>1, <1>3 DEF TakeLock, At, Between, brokerVars, engineVars, memoryVars, worldVars
<1>4. CASE FastJob
  BY <1>4, LeftTracked DEF FastJob, engineVars, memoryVars
<1>5. CASE LateInTheDay
  <2>1. UNCHANGED <<held, order, struct, run, scene, alerted>>
    BY <1>5 DEF LateInTheDay, brokerVars, engineVars, memoryVars
  <2> QED BY <2>1, LeftStands
<1>6. ~Crash /\ ~RestoreStep
  <2>1. /\ restarts = 0 /\ scene.restarts = 0
        /\ run[Cycle].pc \notin {"restore", "rebuild", "restored"}
        /\ ~In(Cycle, "orphan") /\ ~In(Cycle, "flatten")
    BY CalmIs DEF Left, Restoring, In
  <2> QED BY <2>1 DEF Crash, RestoreStep, FindOrphans, OrphansDone, FindHalfClosed, HalfSpreadDone,
                      HalfCondorDone, HalfClosedDone, Restored, WalkDone, At
<1>7. \A l \in Shorts : ~StopFires(l)
  BY DEF StopFires, Left, Base, Calmly
<1> QED BY <1>2, <1>3, <1>4, <1>5, <1>6, <1>7, NextDayLeft

LEMMA LeftNext == Left /\ [Next]_vars => Left'
<1> SUFFICES ASSUME Left, [Next]_vars PROVE Left'
  OBVIOUS
<1>1. Base' /\ scene' = scene
  BY LegsNext, SceneStays DEF Left, Base
<1>2. Plain' /\ Tells(scene)'
  BY <1>1 DEF Left, Plain, Tells, May
<1>3. LeftInv'
  <2>1. CASE UNCHANGED vars
    BY <2>1, LeftStands DEF vars, brokerVars, engineVars, memoryVars, worldVars
  <2>2. CASE Next
    BY <1>1, <2>2, StepIs, OutsideLeft, SquareOffLeft, EntryStepLeft, LegStepLeft, ExitStepLeft,
       ArrivesLeft
  <2> QED BY <2>1, <2>2
<1> QED BY <1>1, <1>2, <1>3 DEF Left

LEMMA LeftInit == Init /\ Calmly /\ Plain /\ Tells(scene) => Left
<1> SUFFICES ASSUME Init, Calmly, Plain, Tells(scene) PROVE Left
  OBVIOUS
<1> USE ProcsAre
<1>1. /\ held = Flat /\ run[Cycle].mode = "exit" /\ order = [i \in Ids |-> Blank]
  BY IdleIs DEF Init, Fresh
<1>2. \A l \in Legs : held[l] = 0 /\ \A i \in Ids : ~FliesAt(i, l) /\ ~RestsAt(i, l)
  BY <1>1, LegsAre DEF Flat, FliesAt, RestsAt, Blank
<1>3. ~Entering /\ ~Unwinding /\ ~In(Cycle, "squareoff")
  BY <1>1 DEF Entering, Unwinding, In
<1>4. EntryParts /\ NothingLeft
  BY <1>2, <1>3 DEF EntryParts, NothingLeft, LeftOK
<1> QED BY <1>4, LegsInit DEF Left, LeftInv

\* When an entry breaks off without an order in doubt, no short leg is left without its hedge
\* and without a message to the operator (_process_credit_spread(), _process_iron_condor()):
\* each leg that was opened is closed again, or reported.  The unwind of a spread takes an
\* order in doubt for a closed leg, and reports nothing; a stop order may fire meanwhile.
THEOREM NakedLegsAreTold ==
    Spec /\ Calm(scene) /\ Tells(scene) /\ ~May("gtt_fires") => []NakedIsReported
<1> DEFINE LeftHolds == Typed /\ (~Plain \/ Left)
<1>1. Init /\ Calm(scene) /\ Tells(scene) /\ ~May("gtt_fires") => LeftHolds
  BY TypedInit, LeftInit DEF Calmly
<1>2. LeftHolds /\ [Next]_vars => LeftHolds'
  <2> SUFFICES ASSUME Typed, ~Plain, [Next]_vars PROVE Typed' /\ ~Plain'
    BY LeftNext, TypedNext
  <2> QED BY TypedNext, SceneStays DEF Plain, May
<1>3. LeftHolds => NakedIsReported
  <2> SUFFICES ASSUME Left, Quiet, ~struct.tracked, ~alerted, NEW l \in Shorts PROVE ~Naked(l)
    BY DEF NakedIsReported, Plain
  <2>1. run[Cycle].mode = "exit"
    BY LocalsAre, ProcsAre DEF Quiet, Left, Base, LocalsTell, Between, Fresh
  <2>2. held[l] = 0
    BY <2>1, LegsAre DEF Left, LeftInv, NothingLeft, LeftOK, Entering, Unwinding, In
  <2> QED BY <2>2 DEF Naked
<1> QED BY <1>1, <1>2, <1>3, PTL DEF Spec
=============================================================================
