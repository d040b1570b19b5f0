------------------------- MODULE OrderManagerProofs -------------------------
(***************************************************************************)
(* Proofs about the order lifecycle, for every value of the constants: its *)
(* types, that a closed row's order is dead, and that the lifecycle        *)
(* implements OrderLedger.                                                 *)
(***************************************************************************)
EXTENDS OrderProperties, FiniteSetTheorems, TLAPS

-----------------------------------------------------------------------------
(* Rows are never deleted, and a part of the state that does not change    *)
(* stays well typed.                                                       *)

RowsStay == Rows \subseteq Rows'

LEMMA KeepTable == ASSUME TableOK, UNCHANGED tableVars
                   PROVE  TableOK' /\ RowsStay
BY DEF TableOK, tableVars, Rows, RowsStay

LEMMA KeepBroker == ASSUME BrokerOK, UNCHANGED brokerVars PROVE BrokerOK'
BY DEF BrokerOK, brokerVars

LEMMA KeepRisk == ASSUME RiskOK, UNCHANGED riskVars PROVE RiskOK'
BY DEF RiskOK, riskVars

LEMMA KeepPlace == ASSUME PlaceOK, UNCHANGED placeVars, RowsStay PROVE PlaceOK'
BY DEF PlaceOK, placeVars, RowsStay

LEMMA KeepSync == ASSUME SyncOK, UNCHANGED syncVars, RowsStay PROVE SyncOK'
<1>1. UNCHANGED <<lock, syncPc, todo, reply, syncCur>>
  BY DEF syncVars
<1>2. ASSUME NEW s \in Syncers
      PROVE  /\ todo[s] \subseteq Rows'
             /\ syncPc[s] = "release" => syncCur[s] \in Rows'
  <2>1. todo[s] \subseteq Rows /\ (syncPc[s] = "release" => syncCur[s] \in Rows)
    BY DEF SyncOK
  <2> QED BY <2>1 DEF RowsStay
<1> QED BY <1>1, <1>2 DEF SyncOK

LEMMA KeepExpire ==
    ASSUME ExpireOK, UNCHANGED expireVars, RowsStay PROVE ExpireOK'
BY DEF ExpireOK, expireVars, RowsStay

LEMMA KeepAdmin == ASSUME AdminOK, UNCHANGED adminVars, RowsStay PROVE AdminOK'
BY DEF AdminOK, adminVars, RowsStay

\* Writing a status to a row that exists.
LEMMA StatusWrite ==
    ASSUME TableOK, NEW o \in Rows, NEW s \in Statuses \ {"absent"},
           SetStatus(o, s), UNCHANGED <<req, recorded, origin, aged>>
    PROVE  TableOK' /\ RowsStay
BY DEF TableOK, SetStatus, Rows, RowsStay

LEMMA NewRow ==
    ASSUME TableOK, PlaceOK, NEW c \in Callers, NEW o \in Ids,
           NEW s \in Statuses \ {"absent"}, CreateRow(c, o, s)
    PROVE  TableOK' /\ RowsStay /\ o \in Rows'
<1>1. pc[c] = "create"
  BY DEF CreateRow
<1>2. arg[c] \in Request
  BY <1>1 DEF PlaceOK
<1>3. argOrigin[c] \in Ids \cup {NoOrder}
  BY DEF PlaceOK
<1>4. /\ status' = [status EXCEPT ![o] = s]
      /\ req' = [req EXCEPT ![o] = arg[c]]
      /\ origin' = [origin EXCEPT ![o] = argOrigin[c]]
      /\ UNCHANGED <<recorded, aged>>
  BY DEF CreateRow, SetStatus
<1> QED BY <1>2, <1>3, <1>4 DEF TableOK, Rows, RowsStay

\* place_order() moves on with its own variables unchanged.
LEMMA PlaceGoto ==
    ASSUME PlaceOK, RowsStay, NEW c \in Callers,
           NEW label \in {"idle"} \cup Working,
           Goto(c, label), label # "idle" => pc[c] \in Working,
           UNCHANGED <<arg, argOrigin, cur>>
    PROVE  PlaceOK'
BY DEF PlaceOK, Goto, Working, RowsStay

\* Adding and releasing keep the capital a natural number per strategy.
LEMMA AddTracked ==
    ASSUME RiskOK, TableOK, NEW o \in Rows, AddIfTracked(o)
    PROVE  RiskOK'
<1>1. req[o] \in Request /\ o \in Ids
  BY DEF TableOK, Rows
<1>2. CASE TracksCapital(req[o])
  <2>1. req[o].strategy \in Strategies /\ req[o].quantity \in Nat
    BY <1>1, <1>2 DEF TracksCapital, Request
  <2> QED BY <1>1, <1>2, <2>1 DEF AddIfTracked, AddDeployedCapital, RiskOK
<1>3. CASE ~TracksCapital(req[o])
  BY <1>3, KeepRisk DEF AddIfTracked
<1> QED BY <1>2, <1>3

LEMMA ReleaseDeployed ==
    ASSUME RiskOK, TableOK, NEW o \in Rows, TracksCapital(req[o]),
           NEW n \in Nat, ReleaseDeployedCapital(o, n)
    PROVE  RiskOK'
<1>1. req[o].strategy \in Strategies /\ o \in Ids
  BY DEF TracksCapital, Request, TableOK, Rows
<1>2. OrderMax(0, deployed[req[o].strategy] - n) \in Nat
  BY <1>1 DEF RiskOK, OrderMax
<1> QED BY <1>1, <1>2 DEF ReleaseDeployedCapital, RiskOK

LEMMA ReleaseTracked ==
    ASSUME RiskOK, TableOK, NEW o \in Rows, NEW fill \in Nat,
           NEW found \in BOOLEAN, ReleaseIfTracked(o, fill, found)
    PROVE  RiskOK'
<1>1. OrderMax(0, req[o].quantity - fill) \in Nat
  BY DEF TableOK, Request, OrderMax, Rows
<1> QED BY <1>1, ReleaseDeployed, KeepRisk DEF ReleaseIfTracked

-----------------------------------------------------------------------------
(* Type correctness, one lemma for each coroutine.                         *)

LEMMA TypePlace ==
    ASSUME TypeOK, NEW c \in Callers, PlaceStep(c)
    PROVE  TypeOK'
<1> USE DEF TypeOK
<1>1. CASE PlaceCheck(c)
  <2>1. TableOK' /\ RowsStay
    BY <1>1, KeepTable DEF PlaceCheck
  <2>2. PlaceOK'
    BY <1>1, <2>1 DEF PlaceCheck, Goto, PlaceOK, Working, RowsStay
  <2> QED BY <1>1, <2>1, <2>2, KeepBroker, KeepRisk, KeepSync, KeepExpire,
             KeepAdmin DEF PlaceCheck
<1>2. CASE PlaceRejectedByRisk(c)
  <2>1. PICK o \in Ids : CreateRow(c, o, "REJECTED_BY_RISK")
    BY <1>2 DEF PlaceRejectedByRisk
  <2>2. TableOK' /\ RowsStay
    BY <2>1, NewRow DEF Statuses, Terminal
  <2>3. Goto(c, "idle") /\ UNCHANGED <<arg, argOrigin, cur, wire, live, filled>>
    BY <1>2 DEF PlaceRejectedByRisk, CreateRow
  <2>4. PlaceOK'
    BY <2>2, <2>3, PlaceGoto
  <2>5. BrokerOK'
    BY <2>3 DEF BrokerOK
  <2> QED BY <2>1, <2>2, <2>4, <2>5, KeepRisk, KeepSync, KeepExpire, KeepAdmin
          DEF CreateRow
<1>3. CASE PlaceRoute(c)
  <2>1. PICK o \in Ids : /\ CreateRow(c, o, "PENDING")
                         /\ Goto(c, "broker")
                         /\ cur' = [cur EXCEPT ![c] = o]
                         /\ wire' = [wire EXCEPT ![o] = "sent"]
    BY <1>3 DEF PlaceRoute
  <2>2. TableOK' /\ RowsStay /\ o \in Rows'
    BY <2>1, NewRow DEF Statuses, Terminal
  <2>3. UNCHANGED <<arg, argOrigin, live, filled>>
    BY <2>1 DEF CreateRow
  <2>4. PlaceOK'
    BY <2>1, <2>2, <2>3 DEF Goto, PlaceOK, Working, RowsStay
  <2>5. BrokerOK'
    BY <2>1, <2>3 DEF BrokerOK
  <2> QED BY <2>1, <2>2, <2>4, <2>5, KeepRisk, KeepSync, KeepExpire, KeepAdmin
          DEF CreateRow
<1>4. CASE PlaceRefused(c)
  <2>0. cur[c] \in Rows /\ pc[c] \in Working
    BY <1>4 DEF PlaceRefused, PlaceOK, Working
  <2>1. TableOK' /\ RowsStay
    BY <1>4, <2>0, StatusWrite DEF PlaceRefused, Statuses, Terminal
  <2>2. PlaceOK'
    BY <1>4, <2>1, PlaceGoto DEF PlaceRefused
  <2>3. BrokerOK'
    BY <1>4 DEF PlaceRefused, BrokerOK
  <2> QED BY <1>4, <2>1, <2>2, <2>3, KeepRisk, KeepSync, KeepExpire, KeepAdmin
          DEF PlaceRefused
<1>5. CASE PlaceReturned(c)
  <2>1. TableOK' /\ RowsStay
    BY <1>5, KeepTable DEF PlaceReturned
  <2>2. PlaceOK'
    BY <1>5, <2>1, PlaceGoto DEF PlaceReturned, Working
  <2>3. BrokerOK'
    BY <1>5 DEF PlaceReturned, BrokerOK
  <2> QED BY <1>5, <2>1, <2>2, <2>3, KeepRisk, KeepSync, KeepExpire, KeepAdmin
          DEF PlaceReturned
<1>6. CASE PlacePersist(c)
  <2>0. cur[c] \in Rows
    BY <1>6 DEF PlacePersist, PlaceOK, Working
  <2>1. TableOK' /\ RowsStay
    BY <1>6, <2>0 DEF PlacePersist, SetStatus, TableOK, BrokerOK, Statuses,
                      Rows, RowsStay
  <2>2. PlaceOK'
    BY <1>6, <2>1, PlaceGoto DEF PlacePersist, Working
  <2> QED BY <1>6, <2>1, <2>2, KeepBroker, KeepRisk, KeepSync, KeepExpire,
             KeepAdmin DEF PlacePersist
<1>7. CASE PlacePersistFails(c)
  <2>1. TableOK' /\ RowsStay
    BY <1>7, KeepTable DEF PlacePersistFails
  <2>2. PlaceOK'
    BY <1>7, <2>1, PlaceGoto DEF PlacePersistFails
  <2> QED BY <1>7, <2>1, <2>2, KeepBroker, KeepRisk, KeepSync, KeepExpire,
             KeepAdmin DEF PlacePersistFails
<1>8. CASE PlaceReserve(c)
  <2>0. cur[c] \in Rows
    BY <1>8 DEF PlaceReserve, PlaceOK, Working
  <2>1. TableOK' /\ RowsStay
    BY <1>8, KeepTable DEF PlaceReserve
  <2>2. PlaceOK'
    BY <1>8, <2>1, PlaceGoto DEF PlaceReserve
  <2>3. RiskOK'
    BY <1>8, <2>0, AddTracked DEF PlaceReserve
  <2> QED BY <1>8, <2>1, <2>2, <2>3, KeepBroker, KeepSync, KeepExpire, KeepAdmin
          DEF PlaceReserve
<1>9. CASE PlaceTimesOut(c)
  <2>1. TableOK' /\ RowsStay
    BY <1>9, KeepTable DEF PlaceTimesOut
  <2>2. PlaceOK'
    BY <1>9, <2>1, PlaceGoto DEF PlaceTimesOut, Working
  <2>3. BrokerOK'
    BY <1>9 DEF PlaceTimesOut, BrokerOK
  <2> QED BY <1>9, <2>1, <2>2, <2>3, KeepRisk, KeepSync, KeepExpire, KeepAdmin
          DEF PlaceTimesOut
<1>10. CASE PlaceVerify(c)
  <2>0. cur[c] \in Rows
    BY <1>10 DEF PlaceVerify, PlaceOK, Working
  <2>1. TableOK' /\ RowsStay
    BY <1>10, <2>0, StatusWrite DEF PlaceVerify, Statuses, Terminal
  <2>2. PlaceOK'
    BY <1>10, <2>1, PlaceGoto DEF PlaceVerify, Working
  <2> QED BY <1>10, <2>1, <2>2, KeepBroker, KeepRisk, KeepSync, KeepExpire,
             KeepAdmin DEF PlaceVerify
<1> QED
  BY <1>1, <1>2, <1>3, <1>4, <1>5, <1>6, <1>7, <1>8, <1>9, <1>10 DEF PlaceStep

\* A coroutine of sync_orders() leaves the table's keys alone.
LEMMA SyncWriteTyped ==
    ASSUME TypeOK, NEW s \in Syncers, NEW o \in todo[s], SyncWrite(s, o)
    PROVE  TableOK' /\ RowsStay
<1>1. o \in Rows /\ o \in Ids
  BY DEF TypeOK, SyncOK, Rows
<1>2. reply[s][o].status \in BrokerStatuses /\ reply[s][o].filled \in Nat
  BY <1>1 DEF TypeOK, SyncOK
<1>3. MapBrokerStatus(reply[s][o].status)
        \in {"COMPLETED", "CANCELLED", "REJECTED", "OPEN"}
  BY <1>2 DEF MapBrokerStatus, BrokerStatuses
<1> QED
  BY <1>1, <1>2, <1>3
  DEF SyncWrite, TypeOK, TableOK, Rows, RowsStay, Statuses, Terminal

LEMMA SyncDoneTyped ==
    ASSUME SyncOK, RowsStay, NEW s \in Syncers, NEW o \in Ids, SyncDone(s, o)
    PROVE  SyncOK'
<1>1. /\ todo' = [todo EXCEPT ![s] = @ \ {o}]
      /\ syncCur' = [syncCur EXCEPT ![s] = NoOrder]
  BY DEF SyncDone
<1>2. CASE todo[s] = {o}
  <2>1. /\ lock' = NoLock
        /\ syncPc' = [syncPc EXCEPT ![s] = "idle"]
        /\ reply' = [reply EXCEPT ![s] = NoReply]
    BY <1>2 DEF SyncDone, SyncGoto
  <2>2. NoReply \in [Ids -> [status : BrokerStatuses, filled : Nat]]
    BY DEF NoReply, BrokerStatuses
  <2> QED BY <1>1, <2>1, <2>2 DEF SyncOK, RowsStay
<1>3. CASE todo[s] # {o}
  <2>1. /\ UNCHANGED <<lock, reply>>
        /\ syncPc' = [syncPc EXCEPT ![s] = "apply"]
    BY <1>3 DEF SyncDone, SyncGoto
  <2> QED BY <1>1, <2>1 DEF SyncOK, RowsStay
<1> QED BY <1>2, <1>3

LEMMA TypeSync ==
    ASSUME TypeOK, NEW s \in Syncers, SyncStep(s)
    PROVE  TypeOK'
<1> USE DEF TypeOK
<1>1. CASE SyncNothingOpen(s)
  <2>1. TableOK' /\ RowsStay
    BY <1>1, KeepTable DEF SyncNothingOpen
  <2>2. SyncOK'
    BY <1>1, <2>1 DEF SyncNothingOpen, SyncGoto, SyncOK, RowsStay
  <2> QED BY <1>1, <2>1, <2>2, KeepBroker, KeepRisk, KeepPlace, KeepExpire,
             KeepAdmin DEF SyncNothingOpen
<1>2. CASE SyncSnapshot(s)
  <2>1. TableOK' /\ RowsStay
    BY <1>2, KeepTable DEF SyncSnapshot
  <2>2. WithStatus("OPEN") \subseteq Rows
    BY DEF WithStatus, Rows
  <2>3. Rows \subseteq Ids
    BY DEF Rows
  <2>4. SyncOK'
    BY <1>2, <2>1, <2>2, <2>3 DEF SyncSnapshot, SyncGoto, SyncOK, RowsStay
  <2> QED BY <1>2, <2>1, <2>4, KeepBroker, KeepRisk, KeepPlace, KeepExpire,
             KeepAdmin DEF SyncSnapshot
<1>3. CASE SyncFetch(s)
  <2>1. TableOK' /\ RowsStay
    BY <1>3, KeepTable DEF SyncFetch
  <2>2. [o \in Ids |-> IF o \in todo[s]
                       THEN [status |-> live[o], filled |-> filled[o]]
                       ELSE NoReply[o]]
          \in [Ids -> [status : BrokerStatuses, filled : Nat]]
    BY DEF NoReply, BrokerOK, BrokerStatuses
  <2>3. SyncOK'
    BY <1>3, <2>1, <2>2 DEF SyncFetch, SyncGoto, SyncOK, RowsStay
  <2> QED BY <1>3, <2>1, <2>3, KeepBroker, KeepRisk, KeepPlace, KeepExpire,
             KeepAdmin DEF SyncFetch
<1>4. CASE SyncFetchFails(s)
  <2>1. TableOK' /\ RowsStay
    BY <1>4, KeepTable DEF SyncFetchFails
  <2>2. SyncOK'
    BY <1>4, <2>1 DEF SyncFetchFails, SyncGoto, SyncOK, RowsStay
  <2> QED BY <1>4, <2>1, <2>2, KeepBroker, KeepRisk, KeepPlace, KeepExpire,
             KeepAdmin DEF SyncFetchFails
<1>5. CASE SyncApply(s)
  <2>1. PICK o \in todo[s] :
          /\ SyncWrite(s, o)
          /\ IF reply[s][o].status \in {"rejected", "cancelled"}
             THEN /\ SyncGoto(s, "release")
                  /\ syncCur' = [syncCur EXCEPT ![s] = o]
                  /\ UNCHANGED <<lock, todo, reply>>
             ELSE SyncDone(s, o)
    BY <1>5 DEF SyncApply
  <2>2. TableOK' /\ RowsStay
    BY <2>1, SyncWriteTyped
  <2>3. o \in Ids /\ o \in Rows
    BY DEF SyncOK
  <2>4. CASE reply[s][o].status \in {"rejected", "cancelled"}
    <3>1. SyncOK'
      BY <2>1, <2>2, <2>3, <2>4 DEF SyncGoto, SyncOK, RowsStay
    <3> QED BY <1>5, <2>2, <3>1, KeepBroker, KeepRisk, KeepPlace, KeepExpire,
               KeepAdmin DEF SyncApply
  <2>5. CASE reply[s][o].status \notin {"rejected", "cancelled"}
    <3>1. SyncOK'
      BY <2>1, <2>2, <2>3, <2>5, SyncDoneTyped
    <3> QED BY <1>5, <2>2, <3>1, KeepBroker, KeepRisk, KeepPlace, KeepExpire,
               KeepAdmin DEF SyncApply
  <2> QED BY <2>4, <2>5
<1>6. CASE SyncRelease(s)
  <2>1. TableOK' /\ RowsStay
    BY <1>6, KeepTable DEF SyncRelease
  <2>2. syncCur[s] \in Rows /\ syncCur[s] \in Ids
          /\ recorded[syncCur[s]] \in Nat
    BY <1>6 DEF SyncRelease, SyncOK, TableOK, Rows
  <2>3. SyncOK'
    BY <1>6, <2>1, <2>2, SyncDoneTyped DEF SyncRelease
  <2>4. RiskOK'
    BY <1>6, <2>2, ReleaseTracked DEF SyncRelease, ContextFound
  <2> QED BY <1>6, <2>1, <2>3, <2>4, KeepBroker, KeepPlace, KeepExpire,
             KeepAdmin DEF SyncRelease
<1> QED BY <1>1, <1>2, <1>3, <1>4, <1>5, <1>6 DEF SyncStep

LEMMA TypeExpire ==
    ASSUME TypeOK, ExpireStep
    PROVE  TypeOK'
<1> USE DEF TypeOK
<1>0. SignalCycle \in Callers /\ SignalCycle \in Syncers
  BY ConstantsOK DEF Syncers
<1>1. CASE ExpireBegin
  <2>1. TableOK' /\ RowsStay
    BY <1>1, KeepTable DEF ExpireBegin
  <2>2. WithStatus("PENDING_VERIFICATION") \subseteq Rows
    BY DEF WithStatus, Rows
  <2>3. ExpireOK'
    BY <1>1, <2>1, <2>2 DEF ExpireBegin, ExpireOK, RowsStay
  <2> QED BY <1>1, <2>1, <2>3, KeepBroker, KeepRisk, KeepPlace, KeepSync,
             KeepAdmin DEF ExpireBegin
<1>2. CASE ExpireVerifiedReserve
  <2>1. TableOK' /\ RowsStay
    BY <1>2, KeepTable DEF ExpireVerifiedReserve
  <2>2. expCur \in Rows
    BY <1>2 DEF ExpireVerifiedReserve, ExpireOK
  <2>3. ExpireOK'
    BY <1>2, <2>1 DEF ExpireVerifiedReserve, ExpireOK, RowsStay
  <2>4. RiskOK'
    BY <1>2, <2>2, AddTracked, KeepRisk DEF ExpireVerifiedReserve
  <2> QED BY <1>2, <2>1, <2>3, <2>4, KeepBroker, KeepPlace, KeepSync, KeepAdmin
          DEF ExpireVerifiedReserve
<1>3. CASE ExpireVerifyDone
  <2>1. TableOK' /\ RowsStay
    BY <1>3, KeepTable DEF ExpireVerifyDone
  <2>2. ExpireOK'
    BY <1>3, <2>1 DEF ExpireVerifyDone, ExpireOK, RowsStay
  <2>3. SyncOK'
    BY <1>0, <1>3, <2>1 DEF ExpireVerifyDone, WantSync, SyncOK, RowsStay
  <2> QED BY <1>3, <2>1, <2>2, <2>3, KeepBroker, KeepRisk, KeepPlace, KeepAdmin
          DEF ExpireVerifyDone
<1>4. CASE ExpireScan
  <2>1. TableOK' /\ RowsStay
    BY <1>4, KeepTable DEF ExpireScan
  <2>2. WithStatus("OPEN") \subseteq Rows
    BY DEF WithStatus, Rows
  <2>3. ExpireOK'
    BY <1>4, <2>1, <2>2 DEF ExpireScan, ExpireOK, RowsStay
  <2> QED BY <1>4, <2>1, <2>3, KeepBroker, KeepRisk, KeepPlace, KeepSync,
             KeepAdmin DEF ExpireScan
<1>5. CASE ExpireSkip
  <2>1. TableOK' /\ RowsStay
    BY <1>5, KeepTable DEF ExpireSkip
  <2>2. ExpireOK'
    BY <1>5, <2>1 DEF ExpireSkip, ExpireNext, ExpireOK, RowsStay
  <2> QED BY <1>5, <2>1, <2>2, KeepBroker, KeepRisk, KeepPlace, KeepSync,
             KeepAdmin DEF ExpireSkip
<1>6. CASE ExpireMark
  <2>0. expCur \in Rows /\ expCur \in Ids
    BY <1>6 DEF ExpireMark, ExpireOK, Rows
  <2>1. TableOK' /\ RowsStay
    BY <1>6, <2>0, StatusWrite DEF ExpireMark, Statuses, Terminal
  <2>2. ExpireOK'
    BY <1>6, <2>0, <2>1 DEF ExpireMark, ExpireOK, RowsStay, TableOK
  <2> QED BY <1>6, <2>1, <2>2, KeepBroker, KeepRisk, KeepPlace, KeepSync,
             KeepAdmin DEF ExpireMark
<1>7. CASE ExpireRelease
  <2>0. expCur \in Rows /\ expCur \in Ids /\ req[expCur] \in Request
    BY <1>7 DEF ExpireRelease, ExpireOK, TableOK, Rows
  <2>1. TableOK' /\ RowsStay
    BY <1>7, KeepTable DEF ExpireRelease
  <2>2. ExpireOK'
    BY <1>7, <2>1 DEF ExpireRelease, ExpireNext, ExpireOK, RowsStay
  <2>3. Remaining \in Int
    BY <2>0 DEF Remaining, Request, ExpireOK
  <2>4. RiskOK'
    <3>1. CASE UNCHANGED riskVars
      BY <3>1, KeepRisk
    <3>2. CASE /\ Remaining > 0 /\ TracksCapital(req[expCur])
               /\ ReleaseDeployedCapital(expCur, Remaining)
      BY <2>0, <2>3, <3>2, ReleaseDeployed
    <3> QED BY <1>7, <3>1, <3>2 DEF ExpireRelease
  <2>5. PlaceOK'
    <3>1. CASE UNCHANGED <<pc, arg, argOrigin>>
      BY <1>7, <2>1, <3>1, KeepPlace DEF ExpireRelease, placeVars
    <3>2. CASE /\ Remaining > 0
               /\ Goto(SignalCycle, "check")
               /\ arg' = [arg EXCEPT ![SignalCycle] =
                             [req[expCur] EXCEPT !.quantity = Remaining]]
               /\ argOrigin' = [argOrigin EXCEPT ![SignalCycle] = expCur]
      <4>1. [req[expCur] EXCEPT !.quantity = Remaining] \in Request
        BY <2>0, <2>3, <3>2 DEF Request
      <4>2. UNCHANGED cur
        BY <1>7 DEF ExpireRelease
      <4> HIDE DEF Remaining
      <4> QED BY <1>0, <2>0, <2>1, <3>2, <4>1, <4>2
              DEF Goto, PlaceOK, Working, RowsStay
    <3> QED BY <1>7, <3>1, <3>2 DEF ExpireRelease, RetryEligible
  <2> QED BY <1>7, <2>1, <2>2, <2>4, <2>5, KeepBroker, KeepSync, KeepAdmin
          DEF ExpireRelease
<1>8. ASSUME NEW o \in Ids, ExpireVerify(o) PROVE TypeOK'
  <2>0. o \in Rows
    BY <1>8 DEF ExpireVerify, ExpireOK
  <2>1. TableOK' /\ RowsStay
    <3>1. CASE SetStatus(o, "OPEN") \/ SetStatus(o, "FAILED")
      BY <1>8, <2>0, <3>1, StatusWrite DEF ExpireVerify, Statuses, Terminal
    <3>2. CASE UNCHANGED status
      BY <1>8, <3>2, KeepTable DEF ExpireVerify, tableVars
    <3> QED BY <1>8, <3>1, <3>2 DEF ExpireVerify
  <2>2. ExpireOK'
    BY <1>8, <2>0, <2>1 DEF ExpireVerify, ExpireOK, RowsStay
  <2> QED BY <1>8, <2>1, <2>2, KeepBroker, KeepRisk, KeepPlace, KeepSync,
             KeepAdmin DEF ExpireVerify
<1>9. ASSUME NEW o \in Ids, ExpireCancelOk(o) \/ ExpireCancelFails(o)
      PROVE  TypeOK'
  <2>0. o \in Rows
    BY <1>9 DEF ExpireCancelOk, ExpireCancelFails, ExpireOK
  <2>1. TableOK' /\ RowsStay
    BY <1>9, KeepTable DEF ExpireCancelOk, ExpireCancelFails
  <2>2. ExpireOK'
    BY <1>9, <2>0, <2>1
    DEF ExpireCancelOk, ExpireCancelFails, ExpireOK, RowsStay
  <2>3. SyncOK'
    BY <1>0, <1>9, <2>1
    DEF ExpireCancelOk, ExpireCancelFails, WantSync, SyncOK, RowsStay
  <2>4. BrokerOK'
    BY <1>9 DEF ExpireCancelOk, ExpireCancelFails, BrokerOK, BrokerStatuses
  <2> QED BY <1>9, <2>1, <2>2, <2>3, <2>4, KeepRisk, KeepPlace, KeepAdmin
          DEF ExpireCancelOk, ExpireCancelFails
<1> QED
  BY <1>1, <1>2, <1>3, <1>4, <1>5, <1>6, <1>7, <1>8, <1>9 DEF ExpireStep

LEMMA TypeCancel ==
    ASSUME TypeOK, NEW a \in Admins, CancelStep(a)
    PROVE  TypeOK'
<1> USE DEF TypeOK
<1>1. ASSUME NEW o \in Ids, CancelOrder(a, o) PROVE TypeOK'
  <2>1. TableOK' /\ RowsStay
    BY <1>1, KeepTable DEF CancelOrder
  <2>2. o \in Rows
    BY <1>1 DEF CancelOrder, Rows
  <2>3. AdminOK'
    BY <1>1, <2>1, <2>2 DEF CancelOrder, AdminOK, RowsStay
  <2> QED BY <1>1, <2>1, <2>3, KeepBroker, KeepRisk, KeepPlace, KeepSync,
             KeepExpire DEF CancelOrder
<1>2. CASE CancelAtBroker(a)
  <2>1. TableOK' /\ RowsStay
    BY <1>2, KeepTable DEF CancelAtBroker
  <2>2. AdminOK'
    BY <1>2, <2>1 DEF CancelAtBroker, AdminOK, RowsStay
  <2>3. BrokerOK'
    BY <1>2 DEF CancelAtBroker, BrokerOK, BrokerStatuses
  <2> QED BY <1>2, <2>1, <2>2, <2>3, KeepRisk, KeepPlace, KeepSync, KeepExpire
          DEF CancelAtBroker
<1>3. CASE CancelWrite(a)
  <2>0. admCur[a] \in Rows
    BY <1>3 DEF CancelWrite, AdminOK
  <2>1. TableOK' /\ RowsStay
    BY <1>3, <2>0, StatusWrite DEF CancelWrite, Statuses, Terminal
  <2>2. AdminOK'
    BY <1>3, <2>0, <2>1 DEF CancelWrite, AdminOK, TableOK, Rows, RowsStay
  <2> QED BY <1>3, <2>1, <2>2, KeepBroker, KeepRisk, KeepPlace, KeepSync,
             KeepExpire DEF CancelWrite
<1>4. CASE CancelRelease(a)
  <2>0. admCur[a] \in Rows /\ admFilled[a] \in Nat
    BY <1>4 DEF CancelRelease, AdminOK
  <2>1. TableOK' /\ RowsStay
    BY <1>4, KeepTable DEF CancelRelease
  <2>2. AdminOK'
    BY <1>4, <2>0, <2>1 DEF CancelRelease, AdminOK, RowsStay
  <2>3. RiskOK'
    BY <1>4, <2>0, ReleaseTracked DEF CancelRelease, ContextFound
  <2> QED BY <1>4, <2>1, <2>2, <2>3, KeepBroker, KeepPlace, KeepSync, KeepExpire
          DEF CancelRelease
<1> QED BY <1>1, <1>2, <1>3, <1>4 DEF CancelStep

LEMMA TypeEnv ==
    ASSUME TypeOK, EnvStep
    PROVE  TypeOK'
<1> USE DEF TypeOK
<1>1. CASE Crash
  <2>1. TableOK' /\ RowsStay
    BY <1>1, KeepTable DEF Crash
  <2>2. BrokerOK'
    BY <1>1 DEF Crash, BrokerOK
  <2>3. RiskOK'
    BY <1>1 DEF Crash, RiskOK
  <2>4. PlaceOK'
    BY <1>1 DEF Crash, PlaceOK, Working
  <2>5. SyncOK'
    <3>1. NoReply \in [Ids -> [status : BrokerStatuses, filled : Nat]]
      BY DEF NoReply, BrokerStatuses
    <3>2. /\ lock' = NoLock
          /\ syncPc' = [s \in Syncers |-> "idle"]
          /\ todo' = [s \in Syncers |-> {}]
          /\ reply' = [s \in Syncers |-> NoReply]
          /\ syncCur' = [s \in Syncers |-> NoOrder]
      BY <1>1 DEF Crash
    <3> HIDE DEF NoReply
    <3> QED BY <3>1, <3>2 DEF SyncOK
  <2>6. ExpireOK' /\ AdminOK'
    BY <1>1, <2>1 DEF Crash, ExpireOK, AdminOK, RowsStay
  <2> QED BY <2>1, <2>2, <2>3, <2>4, <2>5, <2>6
<1>2. ASSUME NEW o \in Ids, BrokerLand(o) \/ BrokerFill(o) \/ BrokerCloses(o)
      PROVE  TypeOK'
  <2>1. TableOK' /\ RowsStay
    BY <1>2, KeepTable DEF BrokerLand, BrokerFill, BrokerCloses
  <2>2. BrokerOK'
    BY <1>2 DEF BrokerLand, BrokerFill, BrokerCloses, BrokerOK, BrokerStatuses
  <2> QED BY <1>2, <2>1, <2>2, KeepRisk, KeepPlace, KeepSync, KeepExpire,
             KeepAdmin DEF BrokerLand, BrokerFill, BrokerCloses
<1>3. ASSUME NEW o \in Ids, Age(o) PROVE TypeOK'
  <2>1. TableOK' /\ RowsStay
    BY <1>3 DEF Age, TableOK, Rows, RowsStay
  <2> QED BY <1>3, <2>1, KeepBroker, KeepRisk, KeepPlace, KeepSync, KeepExpire,
             KeepAdmin DEF Age
<1> QED BY <1>1, <1>2, <1>3 DEF EnvStep

LEMMA TypeCall ==
    ASSUME TypeOK, NEW c \in Callers, NEW r \in Requests[c], PlaceOrder(c, r)
    PROVE  TypeOK'
<1> USE DEF TypeOK
<1>1. TableOK' /\ RowsStay
  BY KeepTable DEF PlaceOrder
<1>2. r \in Request
  BY ConstantsOK
<1>3. /\ pc[c] = "idle"
      /\ pc' = [pc EXCEPT ![c] = "check"]
      /\ arg' = [arg EXCEPT ![c] = r]
      /\ argOrigin' = [argOrigin EXCEPT ![c] = NoOrder]
      /\ UNCHANGED cur
  BY DEF PlaceOrder, Goto
<1>4. PlaceOK'
  BY <1>1, <1>2, <1>3 DEF PlaceOK, Working, RowsStay
<1> QED BY <1>1, <1>4, KeepBroker, KeepRisk, KeepSync, KeepExpire, KeepAdmin
        DEF PlaceOrder

\* Every reachable state is well typed, and every id a coroutine holds is that
\* of an existing row, whatever the environment does.
THEOREM TypeCorrect == Spec => []TypeOK
<1>1. Init => TypeOK
  <2> SUFFICES ASSUME Init PROVE TypeOK
    OBVIOUS
  <2>1. TableOK /\ BrokerOK /\ RiskOK
    BY DEF Init, TableOK, BrokerOK, RiskOK, Rows, Statuses, BrokerStatuses
  <2>2. PlaceOK /\ ExpireOK /\ AdminOK
    BY DEF Init, PlaceOK, Working, ExpireOK, AdminOK
  <2>3. NoReply \in [Ids -> [status : BrokerStatuses, filled : Nat]]
    BY DEF NoReply, BrokerStatuses
  <2>4. SyncOK
    BY <2>3 DEF Init, SyncOK
  <2> QED BY <2>1, <2>2, <2>4 DEF TypeOK
<1>2. TypeOK /\ [Next]_vars => TypeOK'
  <2> SUFFICES ASSUME TypeOK, [Next]_vars PROVE TypeOK'
    OBVIOUS
  <2>1. CASE UNCHANGED vars
    BY <2>1, KeepTable, KeepBroker, KeepRisk, KeepPlace, KeepSync, KeepExpire,
       KeepAdmin DEF TypeOK, vars
  <2>2. CASE Next
    BY <2>2, TypePlace, TypeCall, TypeSync, TypeExpire, TypeCancel, TypeEnv
    DEF Next
  <2> QED BY <2>1, <2>2
<1> QED BY <1>1, <1>2, PTL DEF Spec

-----------------------------------------------------------------------------
(***************************************************************************)
(* A closed row's order is dead and stays closed, for every value of the   *)
(* constants, provided the answer to a place call is never overtaken: no   *)
(* late landing, no lost final answer.  RowsInv is the inductive           *)
(* invariant.  Most actions touch little of what it speaks of; what they   *)
(* do to the table and to the broker is said once, by RowStep.             *)
(***************************************************************************)

Final == {"complete", "cancelled", "rejected"}

\* A row that is OPEN or closed never returns to the states before.
TrackedStay == \A o \in Ids : Tracked(o) => Tracked(o)'

\* The broker never takes back a final status.
FinalStay == \A o \in Ids : live[o] \in Final => live'[o] = live[o]

\* Only the retry of a verification moves a row out of PENDING_VERIFICATION.
VerifyStay == \A o \in Ids : status[o] = "PENDING_VERIFICATION"
                               => status'[o] = "PENDING_VERIFICATION"

\* Only the call that owns it moves a row out of PENDING, or sends it.
PendingStay == \A o \in Ids : /\ status[o] = "PENDING" => status'[o] = "PENDING"
                              /\ wire'[o] = "sent" => wire[o] = "sent"

RowStep == TrackedStay /\ FinalStay /\ VerifyStay

LEMMA StillStep ==
    ASSUME UNCHANGED <<status, wire, live>>
    PROVE  RowStep /\ PendingStay
BY DEF RowStep, TrackedStay, FinalStay, VerifyStay, PendingStay, Tracked

LEMMA StillFollows ==
    ASSUME TableFollowsBroker, UNCHANGED <<status, wire, live>>
    PROVE  TableFollowsBroker'
BY DEF TableFollowsBroker

LEMMA StillCalls ==
    ASSUME CallsOwnTheirRows, PlaceOK, PendingStay, UNCHANGED <<pc, cur>>
    PROVE  CallsOwnTheirRows'
BY DEF CallsOwnTheirRows, PendingStay, PlaceOK, Working, Rows

LEMMA StillReplies ==
    ASSUME RepliesStayTrue, SyncOK, RowStep, UNCHANGED <<syncPc, todo, reply>>
    PROVE  RepliesStayTrue'
<1> SUFFICES ASSUME NEW s \in Syncers, NEW o \in todo[s]
             PROVE  /\ Tracked(o)'
                    /\ syncPc[s] \in {"apply", "release"}
                         /\ reply[s][o].status \in Final
                       => live'[o] = reply[s][o].status
  BY DEF RepliesStayTrue, Final
<1>1. o \in Ids
  BY DEF SyncOK, Rows
<1> QED BY <1>1 DEF RepliesStayTrue, RowStep, TrackedStay, FinalStay, Final

LEMMA StillExpiry ==
    ASSUME ExpiryIsSafe, ExpireOK, RowStep, UNCHANGED <<expPc, expTodo, expCur>>
    PROVE  ExpiryIsSafe'
BY DEF ExpiryIsSafe, ExpireOK, RowStep, TrackedStay, FinalStay, VerifyStay,
       Final, Rows

LEMMA StillCancel ==
    ASSUME CancelIsSafe, AdminOK, RowStep, UNCHANGED adminVars
    PROVE  CancelIsSafe'
BY DEF CancelIsSafe, AdminOK, RowStep, TrackedStay, FinalStay, Final, Rows,
       adminVars

-----------------------------------------------------------------------------
(* What the kinds of step do to the rows.                                  *)

\* An order that rests at the broker ends there.
LEMMA OrderEnds ==
    ASSUME TypeOK, TableFollowsBroker, NEW o \in Ids, live[o] = "open",
           NEW x \in Final, live' = [live EXCEPT ![o] = x],
           UNCHANGED <<status, wire>>
    PROVE  RowStep /\ PendingStay /\ TableFollowsBroker'
<1>1. live \in [Ids -> BrokerStatuses]
  BY DEF TypeOK, BrokerOK
<1>2. TableFollowsBroker'
  BY <1>1 DEF TableFollowsBroker, Final
<1> QED BY <1>1, <1>2 DEF RowStep, TrackedStay, FinalStay, VerifyStay,
                          PendingStay, Tracked, Final

\* A tracked row is closed, or written as it was.
LEMMA RowCloses ==
    ASSUME TypeOK, TableFollowsBroker, NEW o \in Ids, Tracked(o),
           NEW x \in Terminal, live[o] # "open",
           x = "COMPLETED" => live[o] = "complete",
           SetStatus(o, x), UNCHANGED <<wire, live>>
    PROVE  RowStep /\ PendingStay /\ TableFollowsBroker'
<1>1. status' = [status EXCEPT ![o] = x] /\ status \in [Ids -> Statuses]
  BY DEF SetStatus, TypeOK, TableOK
<1>2. x # "absent" /\ x # "PENDING" /\ status[o] # "PENDING"
        /\ status[o] # "PENDING_VERIFICATION"
  BY DEF Terminal, Tracked
<1>3. TableFollowsBroker'
  BY <1>1, <1>2 DEF TableFollowsBroker
<1> QED BY <1>1, <1>2, <1>3 DEF RowStep, TrackedStay, FinalStay, VerifyStay,
                                PendingStay, Tracked

\* The fate of a row whose call is over is written: OPEN, FAILED or unknown.
LEMMA FateWritten ==
    ASSUME TypeOK, TableFollowsBroker, NEW o \in Ids,
           status[o] \in {"PENDING", "PENDING_VERIFICATION"},
           NEW x \in {"OPEN", "FAILED", "PENDING_VERIFICATION"},
           x = "FAILED" => live[o] # "open",
           SetStatus(o, x), wire'[o] # "sent",
           \A p \in Ids \ {o} : wire'[p] = wire[p], UNCHANGED live
    PROVE  /\ TrackedStay /\ FinalStay /\ TableFollowsBroker'
           /\ \A p \in Ids \ {o} : status'[p] = status[p]
<1>1. status' = [status EXCEPT ![o] = x] /\ status \in [Ids -> Statuses]
  BY DEF SetStatus, TypeOK, TableOK
<1>2. TableFollowsBroker'
  BY <1>1 DEF TableFollowsBroker, Terminal
<1> QED BY <1>1, <1>2 DEF TrackedStay, FinalStay, Tracked, Terminal
-----------------------------------------------------------------------------
(* RowsInv is inductive, one lemma for each coroutine.                     *)

\* A place call is answered before anyone gives it up.
AnswersKept == "late_landing" \notin Env /\ "response_lost" \notin Env

\* Every coroutine but the one that moved.
LEMMA OthersSafe ==
    ASSUME TypeOK, RowsInv, RowStep
    PROVE  /\ UNCHANGED syncVars => RepliesStayTrue'
           /\ UNCHANGED expireVars => ExpiryIsSafe'
           /\ UNCHANGED adminVars => CancelIsSafe'
           /\ PendingStay /\ UNCHANGED placeVars => CallsOwnTheirRows'
BY StillReplies, StillExpiry, StillCancel, StillCalls
DEF TypeOK, RowsInv, syncVars, expireVars, adminVars, placeVars

LEMMA SafePlace ==
    ASSUME TypeOK, RowsInv, AnswersKept, NEW c \in Callers, PlaceStep(c)
    PROVE  RowsInv'
<1> USE DEF RowsInv
<1>0. UNCHANGED <<syncVars, expireVars, adminVars>>
  BY DEF PlaceStep, PlaceCheck, PlaceRejectedByRisk, PlaceRoute, CreateRow,
         PlaceRefused, PlaceReturned, PlacePersist, PlacePersistFails,
         PlaceReserve, PlaceTimesOut, PlaceVerify
<1>1. SUFFICES RowStep /\ TableFollowsBroker' /\ CallsOwnTheirRows'
  BY <1>0, OthersSafe
<1>2. pc \in [Callers -> {"idle", "check", "create"} \cup Working]
        /\ cur \in [Callers -> Ids \cup {NoOrder}]
        /\ wire \in [Ids -> {"idle", "sent", "landed"}]
        /\ status \in [Ids -> Statuses]
  BY DEF TypeOK, PlaceOK, BrokerOK, TableOK
<1>3. ASSUME pc[c] \in {"broker", "persist", "verify"}
      PROVE  /\ cur[c] \in Ids /\ status[cur[c]] = "PENDING"
             /\ \A d \in Callers \ {c} :
                    pc[d] \in {"broker", "persist", "verify"} =>
                        cur[d] \in Ids /\ cur[d] # cur[c]
  BY <1>3 DEF CallsOwnTheirRows, TypeOK, PlaceOK, Working, Rows
<1>4. CASE PlaceCheck(c) \/ PlacePersistFails(c) \/ PlaceReserve(c)
  <2>1. UNCHANGED <<status, wire, live, cur>>
    BY <1>4
    DEF PlaceCheck, PlacePersistFails, PlaceReserve, tableVars, brokerVars
  <2>2. \E x \in {"idle", "create"} : pc' = [pc EXCEPT ![c] = x]
    BY <1>4 DEF PlaceCheck, PlacePersistFails, PlaceReserve, Goto
  <2>3. CallsOwnTheirRows'
    BY <1>2, <2>1, <2>2 DEF CallsOwnTheirRows
  <2> QED BY <2>1, <2>3, StillStep, StillFollows
<1>5. CASE PlaceRejectedByRisk(c) \/ PlaceRoute(c)
  <2>1. PICK o \in Ids :
          /\ status[o] = "absent"
          /\ \/ /\ status' = [status EXCEPT ![o] = "REJECTED_BY_RISK"]
                /\ pc' = [pc EXCEPT ![c] = "idle"]
                /\ UNCHANGED <<cur, wire, live>>
             \/ /\ status' = [status EXCEPT ![o] = "PENDING"]
                /\ pc' = [pc EXCEPT ![c] = "broker"]
                /\ cur' = [cur EXCEPT ![c] = o]
                /\ wire' = [wire EXCEPT ![o] = "sent"]
                /\ UNCHANGED live
    BY <1>5 DEF PlaceRejectedByRisk, PlaceRoute, CreateRow, SetStatus, Goto
  <2>2. TableFollowsBroker'
    BY <1>2, <2>1 DEF TableFollowsBroker, Terminal
  <2>3. RowStep
    BY <1>2, <2>1 DEF RowStep, TrackedStay, FinalStay, VerifyStay, Tracked,
                      Terminal
  <2>4. \A d \in Callers : pc[d] \in {"broker", "persist", "verify"}
                             => cur[d] \in Ids /\ cur[d] # o
    BY <2>1 DEF CallsOwnTheirRows, TypeOK, PlaceOK, Working, Rows
  <2>5. CallsOwnTheirRows'
    BY <1>2, <2>1, <2>4 DEF CallsOwnTheirRows
  <2> QED BY <2>2, <2>3, <2>5
<1>6. CASE PlaceReturned(c) \/ PlaceTimesOut(c)
  <2>1. /\ pc[c] = "broker"
        /\ \E x \in {"persist", "verify"} : pc' = [pc EXCEPT ![c] = x]
        /\ wire' = [wire EXCEPT ![cur[c]] = "idle"]
        /\ UNCHANGED <<status, live, cur>>
    BY <1>6
    DEF PlaceReturned, PlaceTimesOut, Goto, AnswersKept, May, tableVars
  <2>2. TableFollowsBroker'
    BY <1>2, <1>3, <2>1 DEF TableFollowsBroker, Terminal
  <2>3. RowStep
    BY <2>1 DEF RowStep, TrackedStay, FinalStay, VerifyStay, Tracked
  <2>4. CallsOwnTheirRows'
    BY <1>2, <1>3, <2>1 DEF CallsOwnTheirRows
  <2> QED BY <2>2, <2>3, <2>4
<1>7. CASE PlaceRefused(c) \/ PlacePersist(c) \/ PlaceVerify(c)
  <2>1. pc[c] \in {"broker", "persist", "verify"}
    BY <1>7 DEF PlaceRefused, PlacePersist, PlaceVerify
  <2>2. \E x \in {"idle", "reserve"} : pc' = [pc EXCEPT ![c] = x]
    BY <1>7 DEF PlaceRefused, PlacePersist, PlaceVerify, Goto
  <2>3. PICK x \in {"OPEN", "FAILED", "PENDING_VERIFICATION"} :
            /\ SetStatus(cur[c], x)
            /\ x = "FAILED" => live[cur[c]] # "open"
    <3>1. CASE PlaceRefused(c)
      BY <1>2, <1>3, <2>1, <3>1
      DEF PlaceRefused, AnswersKept, May, TableFollowsBroker
    <3>2. CASE PlacePersist(c) \/ PlaceVerify(c)
      BY <3>2 DEF PlacePersist, PlaceVerify, AtBroker
    <3> QED BY <1>7, <3>1, <3>2
  <2>4. /\ wire'[cur[c]] # "sent"
        /\ \A p \in Ids \ {cur[c]} : wire'[p] = wire[p]
        /\ UNCHANGED <<live, cur>>
    BY <1>2, <1>3, <1>7, <2>1
    DEF PlaceRefused, PlacePersist, PlaceVerify, CallsOwnTheirRows, brokerVars
  <2>5. /\ TrackedStay /\ FinalStay /\ TableFollowsBroker'
        /\ \A p \in Ids \ {cur[c]} : status'[p] = status[p]
    BY <1>3, <2>1, <2>3, <2>4, FateWritten
  <2>6. VerifyStay
    BY <1>3, <2>1, <2>5 DEF VerifyStay
  <2>7. CallsOwnTheirRows'
    BY <1>2, <1>3, <2>1, <2>2, <2>4, <2>5 DEF CallsOwnTheirRows
  <2> QED BY <2>5, <2>6, <2>7 DEF RowStep
<1> QED BY <1>4, <1>5, <1>6, <1>7 DEF PlaceStep

LEMMA SafeCall ==
    ASSUME TypeOK, RowsInv, NEW c \in Callers, NEW r \in Requests[c],
           PlaceOrder(c, r)
    PROVE  RowsInv'
<1>1. UNCHANGED <<status, wire, live, cur, syncVars, expireVars, adminVars>>
        /\ pc' = [pc EXCEPT ![c] = "check"]
  BY DEF PlaceOrder, Goto, tableVars, brokerVars
<1>2. CallsOwnTheirRows'
  BY <1>1 DEF CallsOwnTheirRows, RowsInv, TypeOK, PlaceOK
<1> QED BY <1>1, <1>2, StillStep, StillFollows, OthersSafe DEF RowsInv

LEMMA SafeSync ==
    ASSUME TypeOK, RowsInv, NEW s \in Syncers, SyncStep(s)
    PROVE  RowsInv'
<1> USE DEF RowsInv
<1>0. UNCHANGED <<wire, live, placeVars, expireVars, adminVars>>
  BY DEF SyncStep, SyncNothingOpen, SyncSnapshot, SyncFetch, SyncFetchFails,
         SyncApply, SyncRelease, brokerVars
<1>1. SUFFICES RowStep /\ PendingStay /\ TableFollowsBroker' /\ RepliesStayTrue'
  BY <1>0, OthersSafe
<1>2. /\ syncPc \in [Syncers -> {"idle", "want", "fetch", "apply", "release"}]
      /\ todo \in [Syncers -> SUBSET Ids]
      /\ reply \in [Syncers -> [Ids -> [status : BrokerStatuses, filled : Nat]]]
      /\ status \in [Ids -> Statuses]
  BY DEF TypeOK, SyncOK, TableOK
\* Dropping one order of the snapshot keeps what is known of the others.
<1>3. ASSUME NEW o \in Ids, syncPc[s] \in {"apply", "release"},
             SyncDone(s, o), RowStep
      PROVE  RepliesStayTrue'
  <2> SUFFICES ASSUME NEW t \in Syncers, NEW p \in todo'[t]
               PROVE  /\ Tracked(p)'
                      /\ syncPc'[t] \in {"apply", "release"}
                           /\ reply'[t][p].status \in Final
                         => live'[p] = reply'[t][p].status
    BY DEF RepliesStayTrue, Final
  <2>1. todo' = [todo EXCEPT ![s] = @ \ {o}]
    BY <1>3 DEF SyncDone
  <2>2. p \in todo[t] /\ p \in Ids
    BY <1>2, <2>1
  <2>3. reply'[t] = reply[t]
    BY <1>2, <1>3, <2>1 DEF SyncDone
  <2>4. syncPc'[t] \in {"apply", "release"} => syncPc[t] \in {"apply", "release"}
    BY <1>2, <1>3 DEF SyncDone, SyncGoto
  <2> QED BY <1>3, <2>2, <2>3, <2>4
          DEF RepliesStayTrue, RowStep, TrackedStay, FinalStay, Final
<1>4. CASE SyncNothingOpen(s) \/ SyncSnapshot(s) \/ SyncFetch(s)
             \/ SyncFetchFails(s)
  <2>1. UNCHANGED <<status, wire, live>>
    BY <1>4 DEF SyncNothingOpen, SyncSnapshot, SyncFetch, SyncFetchFails,
                tableVars, brokerVars
  <2>2. CASE SyncNothingOpen(s) \/ SyncSnapshot(s) \/ SyncFetchFails(s)
    <3>1. /\ \E x \in {"idle", "fetch"} : syncPc' = [syncPc EXCEPT ![s] = x]
          /\ \/ UNCHANGED todo
             \/ todo' = [todo EXCEPT ![s] = {}]
             \/ todo' = [todo EXCEPT ![s] = WithStatus("OPEN")]
          /\ UNCHANGED reply
      BY <2>2 DEF SyncNothingOpen, SyncSnapshot, SyncFetchFails, SyncGoto
    <3>2. \A p \in WithStatus("OPEN") : Tracked(p)
      BY DEF WithStatus, Tracked
    <3> QED BY <1>2, <2>1, <3>1, <3>2, StillStep, StillFollows
            DEF RepliesStayTrue, Tracked
  <2>3. CASE SyncFetch(s)
    <3>1. /\ syncPc' = [syncPc EXCEPT ![s] = "apply"]
          /\ UNCHANGED todo
          /\ \A t \in Syncers \ {s} : reply'[t] = reply[t]
          /\ \A p \in todo[s] : reply'[s][p].status = live[p]
      BY <1>2, <2>3 DEF SyncFetch, SyncGoto
    <3>2. RepliesStayTrue'
      BY <1>2, <2>1, <3>1 DEF RepliesStayTrue, Tracked
    <3> QED BY <2>1, <3>2, StillStep, StillFollows
  <2> QED BY <1>4, <2>2, <2>3
<1>5. CASE SyncApply(s)
  <2>1. PICK o \in todo[s] :
          /\ syncPc[s] = "apply"
          /\ SyncWrite(s, o)
          /\ \/ /\ SyncGoto(s, "release")
                /\ UNCHANGED <<todo, reply>>
             \/ SyncDone(s, o)
    BY <1>5 DEF SyncApply
  <2>2. o \in Ids /\ Tracked(o)
    BY <1>2 DEF RepliesStayTrue
  <2>3. RowStep /\ PendingStay /\ TableFollowsBroker'
    <3>1. CASE reply[s][o].status \in Final
      <4>1. SetStatus(o, MapBrokerStatus(reply[s][o].status))
        BY <2>1, <3>1 DEF SyncWrite, SetStatus, MapBrokerStatus, Final
      <4>2. live[o] = reply[s][o].status
        BY <2>1, <3>1 DEF RepliesStayTrue, Final
      <4>3. /\ MapBrokerStatus(live[o]) \in Terminal
            /\ MapBrokerStatus(live[o]) = "COMPLETED" => live[o] = "complete"
            /\ live[o] # "open"
        BY <3>1, <4>2 DEF MapBrokerStatus, Final, Terminal
      <4> QED BY <1>0, <2>2, <4>1, <4>2, <4>3, RowCloses
    <3>2. CASE reply[s][o].status \notin Final
      <4>1. UNCHANGED status
        BY <2>1, <3>2 DEF SyncWrite, MapBrokerStatus, Final
      <4> QED BY <1>0, <4>1, StillStep, StillFollows
    <3> QED BY <3>1, <3>2
  <2>4. RepliesStayTrue'
    <3>1. CASE SyncDone(s, o)
      BY <1>3, <2>1, <2>2, <2>3, <3>1
    <3>2. CASE SyncGoto(s, "release") /\ UNCHANGED <<todo, reply>>
      BY <1>2, <2>1, <2>3, <3>2
      DEF SyncGoto, RepliesStayTrue, RowStep, TrackedStay, FinalStay, Final
    <3> QED BY <2>1, <3>1, <3>2
  <2> QED BY <2>3, <2>4
<1>6. CASE SyncRelease(s)
  <2>1. UNCHANGED <<status, wire, live>> /\ syncPc[s] = "release"
          /\ SyncDone(s, syncCur[s]) /\ syncCur[s] \in Ids
    BY <1>6 DEF SyncRelease, tableVars, brokerVars, TypeOK, SyncOK, Rows
  <2> QED BY <1>3, <2>1, StillStep, StillFollows
<1> QED BY <1>4, <1>5, <1>6 DEF SyncStep

\* A cancel, or the failure of one, at the broker.
LEMMA MarketMoves ==
    ASSUME TypeOK, TableFollowsBroker, NEW o \in Ids,
           \/ UNCHANGED live
           \/ /\ live[o] = "open"
              /\ live' = [live EXCEPT ![o] = "cancelled"],
           UNCHANGED <<status, wire>>
    PROVE  RowStep /\ PendingStay /\ TableFollowsBroker'
BY OrderEnds, StillStep, StillFollows DEF Final

LEMMA SafeExpire ==
    ASSUME TypeOK, RowsInv, ExpireStep
    PROVE  RowsInv'
<1> USE DEF RowsInv
<1>0. UNCHANGED <<wire, adminVars>>
  BY DEF ExpireStep, ExpireBegin, ExpireVerifiedReserve, ExpireVerifyDone,
         ExpireScan, ExpireSkip, ExpireMark, ExpireRelease, ExpireVerify,
         ExpireCancelOk, ExpireCancelFails, brokerVars
<1>1. status \in [Ids -> Statuses] /\ live \in [Ids -> BrokerStatuses]
        /\ expTodo \subseteq Ids
  BY DEF TypeOK, TableOK, BrokerOK, ExpireOK, Rows
<1>2. CASE ExpireBegin \/ ExpireVerifiedReserve \/ ExpireScan \/ ExpireSkip
  <2>1. UNCHANGED <<status, wire, live, placeVars, syncVars>>
    BY <1>2 DEF ExpireBegin, ExpireVerifiedReserve, ExpireScan, ExpireSkip,
                tableVars, brokerVars
  <2>2. ExpiryIsSafe'
    <3>1. \A o \in expTodo \cup WithStatus("OPEN") \cup
                   WithStatus("PENDING_VERIFICATION") : Tracked(o)' = Tracked(o)
      BY <2>1 DEF Tracked
    <3>2. \A o \in WithStatus("OPEN") : Tracked(o)
      BY DEF WithStatus, Tracked
    <3>3. CASE ExpireBegin
      BY <2>1, <3>3 DEF ExpireBegin, WithStatus, ExpiryIsSafe
    <3>4. CASE ExpireVerifiedReserve
      BY <2>1, <3>4 DEF ExpireVerifiedReserve, ExpiryIsSafe
    <3>5. CASE ExpireScan
      BY <2>1, <3>1, <3>2, <3>5 DEF ExpireScan, ExpiryIsSafe
    <3>6. CASE ExpireSkip
      BY <2>1, <3>1, <3>6 DEF ExpireSkip, ExpireNext, ExpiryIsSafe
    <3> QED BY <1>2, <3>3, <3>4, <3>5, <3>6
  <2> QED BY <1>0, <2>1, <2>2, StillStep, StillFollows, OthersSafe
<1>3. CASE ExpireVerifyDone
  <2>1. UNCHANGED <<status, wire, live, placeVars>>
    BY <1>3 DEF ExpireVerifyDone, tableVars, brokerVars
  <2>2. ExpiryIsSafe'
    BY <1>3 DEF ExpireVerifyDone, ExpiryIsSafe
  <2>3. RepliesStayTrue'
    BY <1>3, <2>1 DEF ExpireVerifyDone, WantSync, RepliesStayTrue, Tracked,
                      TypeOK, SyncOK
  <2> QED BY <1>0, <2>1, <2>2, <2>3, StillStep, StillFollows, OthersSafe
<1>4. CASE ExpireMark
  <2>1. /\ expPc = "expire" /\ expCur \in Ids /\ Tracked(expCur)
        /\ live[expCur] = "cancelled"
    BY <1>4 DEF ExpireMark, ExpiryIsSafe, TypeOK, ExpireOK, Rows
  <2>2. RowStep /\ PendingStay /\ TableFollowsBroker'
    BY <1>4, <2>1, RowCloses DEF ExpireMark, Terminal, brokerVars
  <2>3. ExpiryIsSafe'
    BY <1>1, <1>4, <2>1, <2>2
    DEF ExpireMark, ExpiryIsSafe, RowStep, TrackedStay
  <2> QED BY <1>0, <1>4, <2>2, <2>3, OthersSafe DEF ExpireMark
<1>5. CASE ExpireRelease
  <2>1. UNCHANGED <<status, wire, live, cur, syncVars>>
          /\ (UNCHANGED pc \/ pc' = [pc EXCEPT ![SignalCycle] = "check"])
    BY <1>5 DEF ExpireRelease, Goto, tableVars, brokerVars
  <2>2. ExpiryIsSafe'
    BY <1>5, <2>1 DEF ExpireRelease, ExpireNext, ExpiryIsSafe, Tracked
  <2>3. CallsOwnTheirRows'
    BY <2>1 DEF CallsOwnTheirRows, TypeOK, PlaceOK
  <2> QED BY <1>0, <2>1, <2>2, <2>3, StillStep, StillFollows, OthersSafe
<1>6. ASSUME NEW o \in Ids, ExpireVerify(o) PROVE RowsInv'
  <2>1. o \in expTodo /\ expPc = "verify" /\ expTodo' = expTodo \ {o}
          /\ UNCHANGED <<wire, live, placeVars, syncVars>>
    BY <1>6 DEF ExpireVerify, brokerVars
  <2>2. status[o] = "PENDING_VERIFICATION"
    BY <2>1 DEF ExpiryIsSafe
  <2>3. CASE UNCHANGED status
    <3>1. UNCHANGED <<expPc, expCur>>
      BY <1>6, <2>2, <2>3, <1>1 DEF ExpireVerify, SetStatus
    <3>2. ExpiryIsSafe'
      BY <2>1, <2>3, <3>1 DEF ExpiryIsSafe
    <3> QED BY <1>0, <2>1, <2>3, <3>2, StillStep, StillFollows, OthersSafe
  <2>4. ASSUME NEW x \in {"OPEN", "FAILED"}, SetStatus(o, x),
               x = "FAILED" => live[o] # "open"
        PROVE  RowsInv'
    <3>1. wire[o] # "sent"
      BY <2>2 DEF TableFollowsBroker
    <3>2. /\ TrackedStay /\ FinalStay /\ TableFollowsBroker'
          /\ \A p \in Ids \ {o} : status'[p] = status[p]
      BY <1>1, <2>1, <2>2, <2>4, <3>1, FateWritten
    <3>3. CallsOwnTheirRows'
      BY <2>1, <2>2, <3>2
      DEF CallsOwnTheirRows, placeVars, TypeOK, PlaceOK, Working, Rows
    <3>4. RepliesStayTrue'
      BY <1>1, <2>1, <3>2
      DEF RepliesStayTrue, TrackedStay, syncVars, TypeOK, SyncOK, Rows
    <3>5. CancelIsSafe'
      BY <1>0, <2>1, <3>2
      DEF CancelIsSafe, TrackedStay, adminVars, TypeOK, AdminOK, Rows
    <3>6. expPc' \in {"verify", "reserve"}
      BY <1>6, <2>1 DEF ExpireVerify
    <3>7. ExpiryIsSafe'
      BY <1>1, <2>1, <3>2, <3>6 DEF ExpiryIsSafe
    <3> QED BY <3>2, <3>3, <3>4, <3>5, <3>7
  <2> QED BY <1>6, <2>3, <2>4 DEF ExpireVerify, AtBroker
<1>7. ASSUME NEW o \in Ids, ExpireCancelOk(o) \/ ExpireCancelFails(o)
      PROVE  RowsInv'
  <2>1. /\ o \in expTodo /\ expPc = "cancel" /\ expCur' = o
        /\ UNCHANGED <<status, wire, expTodo, placeVars, lock, todo, reply>>
        /\ WantSync
    BY <1>7 DEF ExpireCancelOk, ExpireCancelFails, tableVars
  <2>2. \/ UNCHANGED live
        \/ live[o] = "open" /\ live' = [live EXCEPT ![o] = "cancelled"]
    BY <1>7 DEF ExpireCancelOk, ExpireCancelFails
  <2>3. RowStep /\ PendingStay /\ TableFollowsBroker'
    BY <2>1, <2>2, MarketMoves
  <2>4. RepliesStayTrue'
    BY <2>1, <2>3
    DEF WantSync, RepliesStayTrue, RowStep, TrackedStay, FinalStay, Final,
        TypeOK, SyncOK, Rows
  <2>5. expPc' = "skip" \/ (expPc' = "expire" /\ live'[o] = "cancelled")
    BY <1>1, <1>7 DEF ExpireCancelOk, ExpireCancelFails
  <2>6. ExpiryIsSafe'
    BY <1>1, <2>1, <2>3, <2>5 DEF ExpiryIsSafe, RowStep, TrackedStay
  <2> QED BY <1>0, <2>1, <2>3, <2>4, <2>6, OthersSafe
<1> QED BY <1>2, <1>3, <1>4, <1>5, <1>6, <1>7 DEF ExpireStep

LEMMA SafeCancel ==
    ASSUME TypeOK, RowsInv, NEW a \in Admins, CancelStep(a)
    PROVE  RowsInv'
<1> USE DEF RowsInv
<1>0. UNCHANGED <<wire, placeVars, syncVars, expireVars>>
  BY DEF CancelStep, CancelOrder, CancelAtBroker, CancelWrite, CancelRelease,
         brokerVars
<1>1. SUFFICES RowStep /\ PendingStay /\ TableFollowsBroker' /\ CancelIsSafe'
  BY <1>0, OthersSafe
<1>2. admPc \in [Admins -> {"idle", "cancel", "write", "release"}]
        /\ admCur \in [Admins -> Ids \cup {NoOrder}]
        /\ live \in [Ids -> BrokerStatuses]
        /\ \A b \in Admins : admPc[b] # "idle" => admCur[b] \in Ids
  BY DEF TypeOK, AdminOK, BrokerOK, Rows
<1>3. ASSUME NEW o \in Ids, CancelOrder(a, o)
      PROVE  RowStep /\ PendingStay /\ TableFollowsBroker' /\ CancelIsSafe'
  <2>1. UNCHANGED <<status, wire, live>>
    BY <1>3 DEF CancelOrder, tableVars, brokerVars
  <2>2. Tracked(o)
    BY <1>3 DEF CancelOrder, Tracked
  <2>3. CancelIsSafe'
    BY <1>2, <1>3, <2>1, <2>2 DEF CancelOrder, CancelIsSafe, Tracked
  <2> QED BY <2>1, <2>3, StillStep, StillFollows
<1>4. CASE CancelAtBroker(a)
  <2>1. /\ admPc[a] = "cancel" /\ UNCHANGED <<status, wire, admCur>>
        /\ \/ UNCHANGED live
           \/ /\ live[admCur[a]] = "open"
              /\ live' = [live EXCEPT ![admCur[a]] = "cancelled"]
    BY <1>4 DEF CancelAtBroker, tableVars
  <2>2. RowStep /\ PendingStay /\ TableFollowsBroker'
    BY <1>2, <2>1, MarketMoves
  <2>3. \/ admPc' = [admPc EXCEPT ![a] = "idle"]
        \/ /\ admPc' = [admPc EXCEPT ![a] = "write"]
           /\ live'[admCur[a]] = "cancelled"
    BY <1>2, <1>4, <2>1 DEF CancelAtBroker
  <2>4. CancelIsSafe'
    BY <1>2, <2>1, <2>2, <2>3
    DEF CancelIsSafe, RowStep, TrackedStay, FinalStay, Final
  <2> QED BY <2>2, <2>4
<1>5. CASE CancelWrite(a)
  <2>1. Tracked(admCur[a]) /\ live[admCur[a]] = "cancelled"
          /\ admCur[a] \in Ids
    BY <1>2, <1>5 DEF CancelWrite, CancelIsSafe
  <2>2. RowStep /\ PendingStay /\ TableFollowsBroker'
    BY <1>5, <2>1, RowCloses DEF CancelWrite, Terminal, brokerVars
  <2>3. CancelIsSafe'
    BY <1>2, <1>5, <2>1, <2>2
    DEF CancelWrite, CancelIsSafe, RowStep, TrackedStay, FinalStay, Final
  <2> QED BY <2>2, <2>3
<1>6. CASE CancelRelease(a)
  <2>1. UNCHANGED <<status, wire, live, admCur>>
          /\ admPc' = [admPc EXCEPT ![a] = "idle"]
    BY <1>6 DEF CancelRelease, tableVars, brokerVars
  <2>2. CancelIsSafe'
    BY <1>2, <2>1 DEF CancelIsSafe, Tracked
  <2> QED BY <2>1, <2>2, StillStep, StillFollows
<1> QED BY <1>3, <1>4, <1>5, <1>6 DEF CancelStep

LEMMA SafeEnv ==
    ASSUME TypeOK, RowsInv, EnvStep
    PROVE  RowsInv'
<1> USE DEF RowsInv
<1>1. CASE Crash
  <2>1. /\ UNCHANGED <<status, live>>
        /\ wire' = [o \in Ids |-> "idle"]
        /\ pc' = [c \in Callers |-> "idle"]
        /\ todo' = [s \in Syncers |-> {}]
        /\ expPc' = "idle"
        /\ admPc' = [a \in Admins |-> "idle"]
    BY <1>1 DEF Crash, tableVars
  <2> QED BY <2>1 DEF TableFollowsBroker, CallsOwnTheirRows, RepliesStayTrue,
                      ExpiryIsSafe, CancelIsSafe
<1>2. ASSUME NEW o \in Ids, BrokerLand(o) PROVE RowsInv'
  <2>1. /\ wire[o] = "sent" /\ UNCHANGED status
        /\ wire' = [wire EXCEPT ![o] = "landed"]
        /\ live' = [live EXCEPT ![o] = "open"]
        /\ UNCHANGED <<placeVars, syncVars, expireVars, adminVars>>
    BY <1>2 DEF BrokerLand, tableVars
  <2>2. status[o] = "PENDING" /\ live[o] = "none"
    BY <2>1 DEF TableFollowsBroker
  <2>3. live \in [Ids -> BrokerStatuses]
          /\ wire \in [Ids -> {"idle", "sent", "landed"}]
    BY DEF TypeOK, BrokerOK
  <2>4. TableFollowsBroker'
    BY <2>1, <2>2, <2>3 DEF TableFollowsBroker, Terminal
  <2>5. RowStep /\ PendingStay
    BY <2>1, <2>2, <2>3 DEF RowStep, TrackedStay, FinalStay, VerifyStay,
                            PendingStay, Tracked, Final
  <2> QED BY <2>1, <2>4, <2>5, OthersSafe
<1>3. ASSUME NEW o \in Ids, BrokerFill(o) \/ BrokerCloses(o) PROVE RowsInv'
  <2>1. /\ UNCHANGED <<status, wire, placeVars, syncVars, expireVars, adminVars>>
        /\ \/ UNCHANGED live
           \/ /\ live[o] = "open"
              /\ \E x \in Final : live' = [live EXCEPT ![o] = x]
    BY <1>3 DEF BrokerFill, BrokerCloses, tableVars, Final
  <2>2. RowStep /\ PendingStay /\ TableFollowsBroker'
    BY <2>1, OrderEnds, StillStep, StillFollows
  <2> QED BY <2>1, <2>2, OthersSafe
<1>4. ASSUME NEW o \in Ids, Age(o) PROVE RowsInv'
  BY <1>4, StillStep, StillFollows, OthersSafe DEF Age, brokerVars
<1> QED BY <1>1, <1>2, <1>3, <1>4 DEF EnvStep

LEMMA SafeInit == Init => RowsInv
BY DEF Init, RowsInv, TableFollowsBroker, CallsOwnTheirRows, RepliesStayTrue,
       ExpiryIsSafe, CancelIsSafe, Terminal

LEMMA SafeStep ==
    ASSUME AnswersKept, TypeOK, RowsInv, [Next]_vars
    PROVE  RowsInv'
<1>1. CASE UNCHANGED vars
  BY <1>1, StillStep, StillFollows, OthersSafe
  DEF vars, tableVars, brokerVars, RowsInv
<1>2. CASE Next
  BY <1>2, SafePlace, SafeCall, SafeSync, SafeExpire, SafeCancel, SafeEnv
  DEF Next
<1> QED BY <1>1, <1>2

\* The rows and the calls in flight agree with the broker in every reachable
\* state, as long as the answer to a place call is not lost or overtaken.
THEOREM RowsAgree == ASSUME AnswersKept PROVE Spec => []RowsInv
<1>1. TypeOK /\ TypeOK' /\ RowsInv /\ [Next]_vars => RowsInv'
  BY SafeStep
<1> QED BY <1>1, SafeInit, TypeCorrect, PTL DEF Spec

\* A row marked terminal is an order that the broker can no longer fill: what
\* expire_stale_orders(), sync_orders(), cancel_order() and the timeout handler
\* check before they close a row is enough, whatever else interleaves.
THEOREM ClosedRowsDead == ASSUME AnswersKept PROVE Spec => []ClosedRowsAreDead
<1>1. RowsInv => ClosedRowsAreDead
  BY DEF RowsInv, TableFollowsBroker, ClosedRowsAreDead, Terminal
<1> QED BY <1>1, RowsAgree, PTL

-----------------------------------------------------------------------------
(***************************************************************************)
(* A closed row stays closed, and OrderManager implements OrderLedger, for *)
(* every value of the constants.  Both follow from what one step can do to *)
(* one row and its order at the broker, which RowsInv is needed to show.   *)
(***************************************************************************)

Entered(o) ==
    /\ status[o] = "absent" /\ UNCHANGED live
    /\ \E x \in Statuses \ {"absent"} : SetStatus(o, x)

Rested(o) ==
    /\ status[o] = "PENDING" /\ live[o] = "none"
    /\ live' = [live EXCEPT ![o] = "open"] /\ UNCHANGED status

Ended(o) ==
    /\ live[o] = "open"
    /\ \E x \in Final : live' = [live EXCEPT ![o] = x]
    /\ UNCHANGED status

Settled(o) ==
    /\ status[o] \in {"PENDING", "PENDING_VERIFICATION"} /\ UNCHANGED live
    /\ \E x \in {"OPEN", "FAILED", "PENDING_VERIFICATION"} :
           SetStatus(o, x) /\ (x = "FAILED" => live[o] # "open")

Closed(o) ==
    /\ Tracked(o) /\ live[o] # "open" /\ UNCHANGED live
    /\ \E x \in Terminal : /\ SetStatus(o, x)
                           /\ x = "COMPLETED" <=> live[o] = "complete"

Move ==
    \/ UNCHANGED <<status, live>>
    \/ \E o \in Ids : Entered(o) \/ Rested(o) \/ Ended(o) \/ Settled(o)
                        \/ Closed(o)

LEMMA MovePlace ==
    ASSUME TypeOK, RowsInv, AnswersKept, NEW c \in Callers, PlaceStep(c)
    PROVE  Move
<1>1. CASE PlaceCheck(c) \/ PlacePersistFails(c) \/ PlaceReserve(c)
             \/ PlaceReturned(c) \/ PlaceTimesOut(c)
  BY <1>1 DEF PlaceCheck, PlacePersistFails, PlaceReserve, PlaceReturned,
              PlaceTimesOut, tableVars, brokerVars, Move
<1>2. CASE PlaceRejectedByRisk(c) \/ PlaceRoute(c)
  <2>1. PICK o \in Ids : \E x \in {"PENDING", "REJECTED_BY_RISK"} :
                             CreateRow(c, o, x)
    BY <1>2 DEF PlaceRejectedByRisk, PlaceRoute
  <2>2. Entered(o)
    BY <2>1 DEF CreateRow, Entered, Statuses, Terminal
  <2> QED BY <2>2 DEF Move
<1>3. CASE PlaceRefused(c) \/ PlacePersist(c) \/ PlaceVerify(c)
  <2>1. pc[c] \in {"broker", "persist", "verify"}
    BY <1>3 DEF PlaceRefused, PlacePersist, PlaceVerify
  <2>2. cur[c] \in Ids /\ status[cur[c]] = "PENDING"
    BY <2>1 DEF RowsInv, CallsOwnTheirRows, TypeOK, PlaceOK, Working, Rows
  <2>3. Settled(cur[c])
    <3>1. CASE PlaceRefused(c)
      BY <2>2, <3>1 DEF PlaceRefused, AnswersKept, May, RowsInv,
                        TableFollowsBroker, Settled
    <3>2. CASE PlacePersist(c) \/ PlaceVerify(c)
      BY <2>2, <3>2 DEF PlacePersist, PlaceVerify, AtBroker, brokerVars, Settled
    <3> QED BY <1>3, <3>1, <3>2
  <2> QED BY <2>2, <2>3 DEF Move
<1> QED BY <1>1, <1>2, <1>3 DEF PlaceStep

LEMMA MoveSync ==
    ASSUME TypeOK, RowsInv, NEW s \in Syncers, SyncStep(s)
    PROVE  Move
<1>1. CASE SyncNothingOpen(s) \/ SyncSnapshot(s) \/ SyncFetch(s)
             \/ SyncFetchFails(s) \/ SyncRelease(s)
  BY <1>1 DEF SyncNothingOpen, SyncSnapshot, SyncFetch, SyncFetchFails,
              SyncRelease, tableVars, brokerVars, Move
<1>2. CASE SyncApply(s)
  <2>1. PICK o \in todo[s] : /\ syncPc[s] = "apply" /\ SyncWrite(s, o)
                             /\ UNCHANGED live
    BY <1>2 DEF SyncApply, brokerVars
  <2>2. o \in Ids /\ Tracked(o)
    BY DEF TypeOK, SyncOK, Rows, RowsInv, RepliesStayTrue
  <2>3. CASE reply[s][o].status \in Final
    <3>1. SetStatus(o, MapBrokerStatus(reply[s][o].status))
      BY <2>1, <2>3 DEF SyncWrite, SetStatus, MapBrokerStatus, Final
    <3>2. live[o] = reply[s][o].status
      BY <2>1, <2>3 DEF RowsInv, RepliesStayTrue, Final
    <3>3. /\ MapBrokerStatus(live[o]) \in Terminal
          /\ MapBrokerStatus(live[o]) = "COMPLETED" <=> live[o] = "complete"
          /\ live[o] # "open"
      BY <2>3, <3>2 DEF MapBrokerStatus, Final, Terminal
    <3>4. Closed(o)
      BY <2>1, <2>2, <3>1, <3>2, <3>3 DEF Closed
    <3> QED BY <2>2, <3>4 DEF Move
  <2>4. CASE reply[s][o].status \notin Final
    BY <2>1, <2>4 DEF SyncWrite, MapBrokerStatus, Final, Move
  <2> QED BY <2>3, <2>4
<1> QED BY <1>1, <1>2 DEF SyncStep

LEMMA MoveExpire ==
    ASSUME TypeOK, RowsInv, ExpireStep
    PROVE  Move
<1>1. CASE ExpireBegin \/ ExpireVerifiedReserve \/ ExpireVerifyDone
             \/ ExpireScan \/ ExpireSkip \/ ExpireRelease
  BY <1>1 DEF ExpireBegin, ExpireVerifiedReserve, ExpireVerifyDone, ExpireScan,
              ExpireSkip, ExpireRelease, tableVars, brokerVars, Move
<1>2. CASE ExpireMark
  <2>1. expCur \in Ids /\ Tracked(expCur) /\ live[expCur] = "cancelled"
    BY <1>2 DEF ExpireMark, RowsInv, ExpiryIsSafe, TypeOK, ExpireOK, Rows
  <2>2. Closed(expCur)
    BY <1>2, <2>1 DEF ExpireMark, brokerVars, Closed, Terminal
  <2> QED BY <2>1, <2>2 DEF Move
<1>3. ASSUME NEW o \in Ids, ExpireVerify(o) PROVE Move
  <2>1. status[o] = "PENDING_VERIFICATION" /\ UNCHANGED live
    BY <1>3 DEF ExpireVerify, RowsInv, ExpiryIsSafe, brokerVars
  <2>2. Settled(o) \/ UNCHANGED status
    BY <1>3, <2>1 DEF ExpireVerify, AtBroker, Settled
  <2> QED BY <2>1, <2>2 DEF Move
<1>4. ASSUME NEW o \in Ids, ExpireCancelOk(o) \/ ExpireCancelFails(o) PROVE Move
  <2>1. UNCHANGED status /\ (Ended(o) \/ UNCHANGED live)
    BY <1>4 DEF ExpireCancelOk, ExpireCancelFails, tableVars, Ended, Final
  <2> QED BY <2>1 DEF Move
<1> QED BY <1>1, <1>2, <1>3, <1>4 DEF ExpireStep

LEMMA MoveCancel ==
    ASSUME TypeOK, RowsInv, NEW a \in Admins, CancelStep(a)
    PROVE  Move
<1>1. CASE (\E o \in Ids : CancelOrder(a, o)) \/ CancelRelease(a)
  BY <1>1 DEF CancelOrder, CancelRelease, tableVars, brokerVars, Move
<1>2. admPc[a] # "idle" => admCur[a] \in Ids
  BY DEF TypeOK, AdminOK, Rows
<1>3. CASE CancelAtBroker(a)
  <2>1. UNCHANGED status /\ (Ended(admCur[a]) \/ UNCHANGED live)
    BY <1>3 DEF CancelAtBroker, tableVars, Ended, Final
  <2> QED BY <1>2, <1>3, <2>1 DEF CancelAtBroker, Move
<1>4. CASE CancelWrite(a)
  <2>1. Closed(admCur[a])
    BY <1>4 DEF CancelWrite, RowsInv, CancelIsSafe, brokerVars, Closed, Terminal
  <2> QED BY <1>2, <1>4, <2>1 DEF CancelWrite, Move
<1> QED BY <1>1, <1>3, <1>4 DEF CancelStep

LEMMA MoveEnv ==
    ASSUME RowsInv, EnvStep
    PROVE  Move
<1>1. CASE Crash
  BY <1>1 DEF Crash, tableVars, Move
<1>2. ASSUME NEW o \in Ids, BrokerLand(o) PROVE Move
  <2>1. Rested(o)
    BY <1>2 DEF BrokerLand, RowsInv, TableFollowsBroker, tableVars, Rested
  <2> QED BY <2>1 DEF Move
<1>3. ASSUME NEW o \in Ids, BrokerFill(o) \/ BrokerCloses(o) \/ Age(o)
      PROVE  Move
  <2>1. UNCHANGED status /\ (Ended(o) \/ UNCHANGED live)
    BY <1>3 DEF BrokerFill, BrokerCloses, Age, tableVars, brokerVars, Ended, Final
  <2> QED BY <2>1 DEF Move
<1> QED BY <1>1, <1>2, <1>3 DEF EnvStep

LEMMA EveryMove ==
    ASSUME TypeOK, RowsInv, AnswersKept, [Next]_vars
    PROVE  Move
<1>1. CASE UNCHANGED vars
  BY <1>1 DEF vars, tableVars, brokerVars, Move
<1>2. ASSUME NEW c \in Callers, NEW r \in Requests[c], PlaceOrder(c, r)
      PROVE  Move
  BY <1>2 DEF PlaceOrder, tableVars, brokerVars, Move
<1> QED BY <1>1, <1>2, MovePlace, MoveSync, MoveExpire, MoveCancel, MoveEnv
        DEF Next

-----------------------------------------------------------------------------
\* What expire_stale_orders(), sync_orders(), cancel_order() and the timeout handler write
\* into a row when they close it is true of the order, and no one writes it again: what
\* a coroutine read before its await is still true of the row it writes.
THEOREM ClosedRowsFinal ==
    ASSUME AnswersKept PROVE Spec => ClosedRowsAreFinal
<1>1. TypeOK /\ RowsInv /\ RowsInv' /\ [Next]_vars =>
        [/\ ClosedRowsAreDead'
         /\ \A o \in Ids :
              /\ status[o] \in Terminal => status'[o] \in Terminal
              /\ status[o] = "COMPLETED" => status'[o] = "COMPLETED"]_vars
  <2> SUFFICES ASSUME TypeOK, RowsInv, RowsInv', [Next]_vars
               PROVE  /\ ClosedRowsAreDead'
                      /\ \A o \in Ids :
                           /\ status[o] \in Terminal => status'[o] \in Terminal
                           /\ status[o] = "COMPLETED" => status'[o] = "COMPLETED"
    OBVIOUS
  <2>1. Move
    BY EveryMove
  <2>2. \A o \in Ids : status[o] = "COMPLETED" => live[o] = "complete"
    BY DEF RowsInv, TableFollowsBroker
  <2>3. ClosedRowsAreDead'
    BY DEF RowsInv, TableFollowsBroker, ClosedRowsAreDead, Terminal
  <2>4. ASSUME NEW p \in Ids
        PROVE  /\ status[p] \in Terminal => status'[p] \in Terminal
               /\ status[p] = "COMPLETED" => status'[p] = "COMPLETED"
    BY <2>1, <2>2
       DEF Move, Entered, Rested, Ended, Settled, Closed, SetStatus, Terminal,
           TypeOK, TableOK
  <2> QED BY <2>3, <2>4
<1> QED BY <1>1, TypeCorrect, RowsAgree, PTL DEF Spec, ClosedRowsAreFinal

Book == [o \in Ids |-> IF status[o] = "absent" THEN "absent"
                       ELSE IF status[o] \in Terminal THEN "closed"
                       ELSE "working"]
Market == [o \in Ids |-> IF live[o] = "none" THEN "none"
                         ELSE IF live[o] = "open" THEN "resting"
                         ELSE "gone"]

\* The table and the broker together do only what OrderLedger allows: an
\* order is booked before it can rest, closed once it cannot be filled any
\* more, and never booked again.
THEOREM LedgerImplemented == ASSUME AnswersKept PROVE Spec => ImplementsLedger
<1>1. Init => Ledger!Init
  BY DEF Init, Ledger!Init
<1>2. TypeOK /\ RowsInv /\ [Next]_vars => [Ledger!Next]_<<Book, Market>>
  <2> SUFFICES ASSUME TypeOK, RowsInv, [Next]_vars
               PROVE  Ledger!Next \/ UNCHANGED <<Book, Market>>
    OBVIOUS
  <2>1. status \in [Ids -> Statuses] /\ live \in [Ids -> BrokerStatuses]
    BY DEF TypeOK, TableOK, BrokerOK
  <2>2. CASE UNCHANGED <<status, live>>
    BY <2>2 DEF Book, Market
  <2>3. ASSUME NEW o \in Ids, Entered(o) PROVE Ledger!Enter(o)
    BY <2>1, <2>3 DEF Entered, SetStatus, Ledger!Enter
  <2>4. ASSUME NEW o \in Ids, Rested(o) PROVE Ledger!Rest(o)
    BY <2>1, <2>4 DEF Rested, Ledger!Rest, Terminal
  <2>5. ASSUME NEW o \in Ids, Ended(o) PROVE Ledger!Leave(o)
    BY <2>1, <2>5 DEF Ended, Final, Ledger!Leave
  <2>6. ASSUME NEW o \in Ids, Settled(o)
        PROVE  Ledger!Close(o) \/ UNCHANGED <<Book, Market>>
    BY <2>1, <2>6 DEF Settled, SetStatus, Ledger!Close, Book, Market, Terminal
  <2>7. ASSUME NEW o \in Ids, Closed(o)
        PROVE  Ledger!Close(o) \/ UNCHANGED <<Book, Market>>
    BY <2>1, <2>7 DEF Closed, SetStatus, Tracked, Ledger!Close, Book, Market,
                      Terminal
  <2> QED BY <2>2, <2>3, <2>4, <2>5, <2>6, <2>7, EveryMove
          DEF Move, Ledger!Next
<1> QED BY <1>1, <1>2, TypeCorrect, RowsAgree, PTL
        DEF Spec, ImplementsLedger, Ledger!Spec, Book, Market

-----------------------------------------------------------------------------
(***************************************************************************)
(* The signal cycle does one thing at a time: its expiry loop runs between *)
(* its placements, and goes on when the sync it has called is over.        *)
(***************************************************************************)

InTurn ==
    /\ expPc \notin {"idle", "cancel"} => pc[SignalCycle] = "idle"
    /\ syncPc[SignalCycle] # "idle" => expPc \in {"scan", "skip", "expire"}

LEMMA InTurnStep ==
    ASSUME TypeOK, InTurn, [Next]_vars
    PROVE  InTurn'
<1>1. /\ SignalCycle \in Callers /\ SignalCycle \in Syncers /\ SignalCycle # OrderSync
      /\ pc \in [Callers -> {"idle", "check", "create"} \cup Working]
      /\ syncPc \in [Syncers -> {"idle", "want", "fetch", "apply", "release"}]
  BY ConstantsOK DEF TypeOK, PlaceOK, SyncOK, Syncers
<1>2. CASE UNCHANGED vars
  BY <1>2 DEF vars, placeVars, syncVars, expireVars, InTurn
<1>3. ASSUME NEW c \in Callers, PlaceStep(c) PROVE InTurn'
  <2>1. UNCHANGED <<expPc, syncPc>> /\ pc[c] # "idle"
          /\ \A d \in Callers \ {c} : pc'[d] = pc[d]
    BY <1>1, <1>3
    DEF PlaceStep, PlaceCheck, PlaceRejectedByRisk, PlaceRoute, CreateRow, PlaceRefused,
        PlaceReturned, PlacePersist, PlacePersistFails, PlaceReserve, PlaceTimesOut,
        PlaceVerify, Goto, syncVars, expireVars
  <2> QED BY <1>1, <2>1 DEF InTurn
<1>4. ASSUME NEW c \in Callers, NEW r \in Requests[c], PlaceOrder(c, r) PROVE InTurn'
  BY <1>1, <1>4 DEF PlaceOrder, Goto, syncVars, expireVars, InTurn
<1>5. ASSUME NEW s \in Syncers, SyncStep(s) PROVE InTurn'
  <2>1. UNCHANGED <<expPc, pc>>
    BY <1>5 DEF SyncStep, SyncNothingOpen, SyncSnapshot, SyncFetch, SyncFetchFails,
                SyncApply, SyncRelease, placeVars, expireVars
  <2>2. \A t \in Syncers \ {s} : syncPc'[t] = syncPc[t]
    BY <1>1, <1>5
    DEF SyncStep, SyncNothingOpen, SyncSnapshot, SyncFetch, SyncFetchFails,
        SyncApply, SyncRelease, SyncDone, SyncGoto
  <2>3. s = SignalCycle => syncPc[s] # "idle"
    BY <1>1, <1>5
    DEF SyncStep, SyncNothingOpen, SyncSnapshot, SyncFetch, SyncFetchFails,
        SyncApply, SyncRelease, WantsSync
  <2> QED BY <1>1, <2>1, <2>2, <2>3 DEF InTurn
<1>6. CASE ExpireStep
  <2>1. CASE ExpireRelease
    BY <1>1, <2>1 DEF ExpireRelease, ExpireNext, syncVars, InTurn
  <2>2. CASE ~ExpireRelease
    BY <1>1, <1>6, <2>2
    DEF ExpireStep, ExpireBegin, ExpireVerifiedReserve, ExpireVerifyDone, ExpireScan,
        ExpireSkip, ExpireMark, ExpireVerify, ExpireCancelOk, ExpireCancelFails,
        ExpireNext, WantSync, SignalIdle, placeVars, syncVars, InTurn
  <2> QED BY <2>1, <2>2
<1>7. ASSUME NEW a \in Admins, CancelStep(a) PROVE InTurn'
  BY <1>7 DEF CancelStep, CancelOrder, CancelAtBroker, CancelWrite, CancelRelease,
              placeVars, syncVars, expireVars, InTurn
<1>8. CASE EnvStep
  BY <1>1, <1>8 DEF EnvStep, Crash, BrokerLand, BrokerFill, BrokerCloses, Age, placeVars,
              syncVars, expireVars, InTurn
<1> QED BY <1>2, <1>3, <1>4, <1>5, <1>6, <1>7, <1>8 DEF Next

LEMMA CycleInTurn == Spec => []InTurn
<1>1. Init => InTurn
  BY ConstantsOK DEF Init, InTurn, Syncers
<1>2. TypeOK /\ InTurn /\ [Next]_vars => InTurn'
  BY InTurnStep
<1> QED BY <1>1, <1>2, TypeCorrect, PTL DEF Spec

-----------------------------------------------------------------------------
(***************************************************************************)
(* One entry rests on a contract, when the signal cycle is the only caller *)
(* and always learns what became of its order: a row that is not OPEN when *)
(* its order rests is not seen by step 0.  Each of the five events left    *)
(* out, and a second caller, lets a second entry rest.                     *)
(***************************************************************************)

OrdersAreSeen ==
    /\ Callers = {SignalCycle} /\ AnswersKept
    /\ Env \cap {"get_orders_fails", "db_write_fails", "crash"} = {}

AtWire == {"broker", "persist", "verify"}
Resting(o) == live[o] = "open" /\ ~req[o].exit

\* Only the order of the call in progress is on its way or not yet OPEN, and from the
\* check on no entry rests on its contract.
RestInv ==
    /\ \A o \in Ids :
          /\ wire[o] = "sent" => pc[SignalCycle] = "broker" /\ cur[SignalCycle] = o
          /\ live[o] = "open" => \/ status[o] = "OPEN"
                                 \/ pc[SignalCycle] \in AtWire /\ cur[SignalCycle] = o
    /\ pc[SignalCycle] = "create" /\ ~arg[SignalCycle].exit =>
          \A o \in Ids : Resting(o) => req[o].symbol # arg[SignalCycle].symbol
    /\ pc[SignalCycle] \in AtWire /\ ~req[cur[SignalCycle]].exit =>
          \A o \in Ids \ {cur[SignalCycle]} :
              Resting(o) => req[o].symbol # req[cur[SignalCycle]].symbol
    /\ OneRestingEntryPerContract

\* What no step does: an order that rests does not leave OPEN, and none begins to rest
\* that was not PENDING.
LEMMA RestsWhileOpen ==
    ASSUME TypeOK, RowsInv, Move, NEW o \in Ids, live'[o] = "open"
    PROVE  /\ status[o] = "OPEN" => status'[o] = "OPEN"
           /\ live[o] = "open" \/ (live[o] = "none" /\ status[o] = "PENDING")
<1>1. status \in [Ids -> Statuses] /\ live \in [Ids -> BrokerStatuses]
  BY DEF TypeOK, TableOK, BrokerOK
<1>2. CASE UNCHANGED <<status, live>>
  BY <1>2
<1>3. ASSUME NEW p \in Ids, Entered(p) PROVE status[o] = "OPEN" => status'[o] = "OPEN"
  BY <1>1, <1>3 DEF Entered, SetStatus
<1>4. ASSUME NEW p \in Ids, Settled(p) PROVE status[o] = "OPEN" => status'[o] = "OPEN"
  BY <1>1, <1>4 DEF Settled, SetStatus
<1>5. ASSUME NEW p \in Ids, Closed(p) PROVE status[o] = "OPEN" => status'[o] = "OPEN"
  BY <1>1, <1>5 DEF Closed, SetStatus
<1>6. ASSUME NEW p \in Ids, Rested(p) PROVE live[o] = "open" \/ o = p
  BY <1>1, <1>6 DEF Rested
<1>7. ASSUME NEW p \in Ids, Ended(p) PROVE live[o] = "open"
  BY <1>1, <1>7 DEF Ended, Final
<1> QED BY <1>2, <1>3, <1>4, <1>5, <1>6, <1>7
        DEF Move, Entered, Rested, Ended, Settled, Closed

\* Steps of others than place_order().
LEMMA RestStays ==
    ASSUME TypeOK, RowsInv, RestInv, Move, UNCHANGED <<req, wire, cur>>,
           \/ UNCHANGED <<pc, arg>>
           \/ pc'[SignalCycle] \notin AtWire \cup {"create"}
                /\ pc[SignalCycle] \notin AtWire,
           \A o \in Ids : live'[o] = "open" => live[o] = "open"
    PROVE  RestInv'
<1>1. ASSUME NEW o \in Ids, live'[o] = "open"
      PROVE  \/ status'[o] = "OPEN"
             \/ pc'[SignalCycle] \in AtWire /\ cur'[SignalCycle] = o
  BY <1>1, RestsWhileOpen DEF RestInv
<1>2. \A o \in Ids : Resting(o)' => Resting(o)
  BY DEF Resting
<1>3. OneRestingEntryPerContract'
  BY DEF RestInv, OneRestingEntryPerContract
<1> QED BY <1>1, <1>2, <1>3 DEF RestInv, AtWire

LEMMA RestPlace ==
    ASSUME OrdersAreSeen, TypeOK, RowsInv, RestInv, Move, PlaceStep(SignalCycle)
    PROVE  RestInv'
<1> DEFINE c == SignalCycle
           p == cur[c]
<1>1. /\ c \in Callers /\ pc \in [Callers -> {"idle", "check", "create"} \cup Working]
      /\ cur \in [Callers -> Ids \cup {NoOrder}]
      /\ wire \in [Ids -> {"idle", "sent", "landed"}]
      /\ status \in [Ids -> Statuses] /\ req \in [Ids -> Request \cup {NoRequest}]
  BY ConstantsOK DEF TypeOK, PlaceOK, BrokerOK, TableOK
<1>2. pc[c] \in AtWire => p \in Ids /\ status[p] = "PENDING"
  BY <1>1 DEF RowsInv, CallsOwnTheirRows, TypeOK, PlaceOK, Working, Rows, AtWire
<1>3. CASE PlaceCheck(c)
  <2>1. /\ pc[c] = "check" /\ UNCHANGED <<arg, cur, req, status, wire, live>>
        /\ \/ pc'[c] = "idle"
           \/ pc'[c] = "create" /\ (arg[c].exit \/ RestingOn(arg[c].symbol) = {})
    BY <1>1, <1>3 DEF PlaceCheck, Goto, tableVars, brokerVars
  <2>2. \A o \in Ids : live[o] = "open" => status[o] = "OPEN"
    BY <2>1 DEF RestInv, AtWire
  <2>3. pc'[c] = "create" /\ ~arg[c].exit =>
           \A o \in Ids : Resting(o) => req[o].symbol # arg[c].symbol
    BY <2>1, <2>2 DEF RestingOn, Resting
  <2>4. OneRestingEntryPerContract'
    BY <2>1 DEF RestInv, OneRestingEntryPerContract
  <2> QED BY <2>1, <2>2, <2>3, <2>4 DEF RestInv, AtWire, Resting
<1>4. CASE PlaceRejectedByRisk(c) \/ PlaceRoute(c)
  <2>1. PICK o \in Ids :
          /\ pc[c] = "create" /\ status[o] = "absent"
          /\ req' = [req EXCEPT ![o] = arg[c]] /\ UNCHANGED live
          /\ \A q \in Ids \ {o} : status'[q] = status[q]
          /\ \/ pc'[c] = "idle" /\ UNCHANGED <<cur, wire>>
             \/ /\ pc'[c] = "broker" /\ cur'[c] = o
                /\ wire' = [wire EXCEPT ![o] = "sent"]
    BY <1>1, <1>4 DEF PlaceRejectedByRisk, PlaceRoute, CreateRow, SetStatus, Goto
  <2>2. live[o] = "none"
    BY <2>1 DEF RowsInv, TableFollowsBroker
  <2>3. \A q \in Ids : Resting(q)' => q # o /\ Resting(q) /\ req'[q] = req[q]
    BY <1>1, <2>1, <2>2 DEF Resting
  <2>4. \A q \in Ids : live'[q] = "open" => status'[q] = "OPEN"
    BY <2>1, <2>2 DEF RestInv, AtWire
  <2>5. \A q \in Ids : wire'[q] = "sent" => pc'[c] = "broker" /\ cur'[c] = q
    BY <1>1, <2>1 DEF RestInv
  <2>6. OneRestingEntryPerContract'
    BY <2>3 DEF RestInv, OneRestingEntryPerContract, Resting
  <2>7. pc'[c] = "broker" => req'[cur'[c]] = arg[c]
    BY <1>1, <2>1
  <2>8. pc'[c] \in AtWire /\ ~req'[cur'[c]].exit =>
          \A q \in Ids \ {cur'[c]} : Resting(q)' => req'[q].symbol # req'[cur'[c]].symbol
    BY <2>1, <2>3, <2>7 DEF RestInv, AtWire
  <2>9. pc'[c] # "create"
    BY <2>1
  <2> QED BY <2>4, <2>5, <2>6, <2>8, <2>9 DEF RestInv
<1>5. CASE PlaceReturned(c) \/ PlaceTimesOut(c)
  <2>1. /\ pc[c] = "broker" /\ pc'[c] \in {"persist", "verify"}
        /\ wire' = [wire EXCEPT ![p] = "idle"]
        /\ UNCHANGED <<live, req, status, cur>>
    BY <1>1, <1>5
    DEF PlaceReturned, PlaceTimesOut, Goto, OrdersAreSeen, AnswersKept, May, tableVars
  <2>2. \A o \in Ids : wire'[o] # "sent"
    BY <1>1, <1>2, <2>1 DEF RestInv, AtWire
  <2>3. OneRestingEntryPerContract'
    BY <2>1 DEF RestInv, OneRestingEntryPerContract
  <2>4. \A o \in Ids : live'[o] = "open" => \/ status'[o] = "OPEN"
                                            \/ pc'[c] \in AtWire /\ cur'[c] = o
    BY <2>1 DEF RestInv, AtWire
  <2>5. pc'[c] # "create" /\ (~req'[cur'[c]].exit =>
          \A q \in Ids \ {cur'[c]} : Resting(q)' => req'[q].symbol # req'[cur'[c]].symbol)
    BY <2>1 DEF RestInv, AtWire, Resting
  <2> QED BY <2>2, <2>3, <2>4, <2>5 DEF RestInv
<1>6. CASE PlaceRefused(c) \/ PlacePersist(c) \/ PlaceVerify(c)
  <2>1. /\ pc[c] \in AtWire /\ pc'[c] \in {"idle", "reserve"}
        /\ UNCHANGED <<live, req, cur>>
        /\ \A o \in Ids \ {p} : status'[o] = status[o] /\ wire'[o] = wire[o]
    BY <1>1, <1>6
    DEF PlaceRefused, PlacePersist, PlaceVerify, Goto, SetStatus, AtWire, brokerVars
  <2>2. live[p] = "open" => status'[p] = "OPEN"
    <3>1. CASE PlaceRefused(c)
      <4>1. wire[p] = "sent"
        BY <3>1 DEF PlaceRefused, OrdersAreSeen, AnswersKept, May
      <4> QED BY <1>2, <2>1, <4>1 DEF RowsInv, TableFollowsBroker
    <3>2. CASE PlacePersist(c)
      BY <1>1, <1>2, <2>1, <3>2 DEF PlacePersist, SetStatus
    <3>3. CASE PlaceVerify(c)
      BY <1>1, <1>2, <2>1, <3>3
      DEF PlaceVerify, SetStatus, AtBroker, OrdersAreSeen, May
    <3> QED BY <1>6, <3>1, <3>2, <3>3
  <2>3. \A o \in Ids : wire'[o] # "sent"
    <3>1. wire'[p] # "sent"
      BY <1>1, <1>2, <1>6, <2>1
      DEF PlaceRefused, PlacePersist, PlaceVerify, RestInv, brokerVars
    <3>2. \A o \in Ids \ {p} : wire[o] # "sent"
      BY DEF RestInv
    <3> QED BY <2>1, <3>1, <3>2
  <2>4. \A o \in Ids : live'[o] = "open" => status'[o] = "OPEN"
    BY <2>1, <2>2 DEF RestInv
  <2>5. OneRestingEntryPerContract'
    BY <2>1 DEF RestInv, OneRestingEntryPerContract
  <2> QED BY <2>1, <2>3, <2>4, <2>5 DEF RestInv, AtWire
<1>7. CASE PlaceReserve(c)
  <2>1. /\ pc[c] = "reserve" /\ pc'[c] = "idle" /\ UNCHANGED <<req, wire, cur, live>>
    BY <1>1, <1>7 DEF PlaceReserve, Goto, tableVars, brokerVars
  <2> QED BY <2>1, RestStays DEF AtWire
<1> QED BY <1>3, <1>4, <1>5, <1>6, <1>7
        DEF PlaceStep, PlacePersistFails, OrdersAreSeen, May

LEMMA RestStep ==
    ASSUME OrdersAreSeen, TypeOK, RowsInv, InTurn, RestInv, [Next]_vars
    PROVE  RestInv'
<1>0. Move
  BY EveryMove DEF OrdersAreSeen
<1>1. SignalCycle \in Callers /\ pc \in [Callers -> {"idle", "check", "create"} \cup Working]
  BY ConstantsOK DEF TypeOK, PlaceOK
<1>2. CASE UNCHANGED vars
  BY <1>0, <1>2, RestStays DEF vars, tableVars, brokerVars, placeVars
<1>3. ASSUME NEW c \in Callers, PlaceStep(c) PROVE RestInv'
  BY <1>0, <1>3, RestPlace DEF OrdersAreSeen
<1>4. ASSUME NEW c \in Callers, NEW r \in Requests[c], PlaceOrder(c, r) PROVE RestInv'
  <2>1. /\ c = SignalCycle /\ pc[c] = "idle" /\ pc'[c] = "check"
        /\ UNCHANGED <<req, wire, live, cur>>
    BY <1>1, <1>4 DEF PlaceOrder, Goto, tableVars, brokerVars, OrdersAreSeen
  <2> QED BY <1>0, <2>1, RestStays DEF AtWire
<1>5. ASSUME NEW s \in Syncers, SyncStep(s) PROVE RestInv'
  <2>1. UNCHANGED <<req, wire, live, pc, arg, cur>>
    BY <1>5 DEF SyncStep, SyncNothingOpen, SyncSnapshot, SyncFetch, SyncFetchFails,
                SyncApply, SyncWrite, SyncRelease, tableVars, brokerVars, placeVars
  <2> QED BY <1>0, <2>1, RestStays
<1>6. CASE ExpireStep
  <2>1. UNCHANGED <<req, wire, cur>>
    BY <1>6 DEF ExpireStep, ExpireBegin, ExpireVerifiedReserve, ExpireVerifyDone,
                ExpireScan, ExpireSkip, ExpireMark, ExpireRelease, ExpireVerify,
                ExpireCancelOk, ExpireCancelFails, tableVars, brokerVars, placeVars
  <2>2. CASE ExpireRelease
    <3>1. UNCHANGED live
      BY <2>2 DEF ExpireRelease, brokerVars
    <3>2. UNCHANGED <<pc, arg>> \/ pc'[SignalCycle] = "check"
      BY <1>1, <2>2 DEF ExpireRelease, Goto
    <3>3. pc[SignalCycle] \notin AtWire
      BY <2>2 DEF ExpireRelease, InTurn, AtWire
    <3> QED BY <1>0, <2>1, <3>1, <3>2, <3>3, RestStays DEF AtWire
  <2>3. CASE ~ExpireRelease
    <3>1. UNCHANGED <<pc, arg>>
      BY <1>6, <2>3 DEF ExpireStep, ExpireBegin, ExpireVerifiedReserve, ExpireVerifyDone,
                ExpireScan, ExpireSkip, ExpireMark, ExpireVerify,
                ExpireCancelOk, ExpireCancelFails, placeVars
    <3>2. \A o \in Ids : live'[o] = "open" => live[o] = "open"
      BY <1>6, <2>3 DEF ExpireStep, ExpireBegin, ExpireVerifiedReserve, ExpireVerifyDone,
                ExpireScan, ExpireSkip, ExpireMark, ExpireVerify,
                ExpireCancelOk, ExpireCancelFails, brokerVars, TypeOK, BrokerOK
    <3> QED BY <1>0, <2>1, <3>1, <3>2, RestStays
  <2> QED BY <2>2, <2>3
<1>7. ASSUME NEW a \in Admins, CancelStep(a) PROVE RestInv'
  <2>1. /\ UNCHANGED <<req, wire, pc, arg, cur>>
        /\ \A o \in Ids : live'[o] = "open" => live[o] = "open"
    BY <1>7 DEF CancelStep, CancelOrder, CancelAtBroker, CancelWrite, CancelRelease,
                tableVars, brokerVars, placeVars, TypeOK, BrokerOK
  <2> QED BY <1>0, <2>1, RestStays
<1>8. ASSUME NEW o \in Ids, BrokerFill(o) \/ BrokerCloses(o) \/ Age(o) PROVE RestInv'
  <2>1. /\ UNCHANGED <<req, wire, pc, arg, cur>>
        /\ \A q \in Ids : live'[q] = "open" => live[q] = "open"
    BY <1>8 DEF BrokerFill, BrokerCloses, Age, tableVars, brokerVars, placeVars,
                TypeOK, BrokerOK
  <2> QED BY <1>0, <2>1, RestStays
<1>9. ASSUME NEW o \in Ids, BrokerLand(o) PROVE RestInv'
  <2>1. /\ wire[o] = "sent" /\ wire' = [wire EXCEPT ![o] = "landed"]
        /\ live' = [live EXCEPT ![o] = "open"] /\ UNCHANGED <<req, status, pc, arg, cur>>
    BY <1>9 DEF BrokerLand, tableVars, placeVars
  <2>2. pc[SignalCycle] = "broker" /\ cur[SignalCycle] = o
    BY <2>1 DEF RestInv
  <2>3. live \in [Ids -> BrokerStatuses] /\ wire \in [Ids -> {"idle", "sent", "landed"}]
    BY DEF TypeOK, BrokerOK
  <2>4. \A q \in Ids \ {o} : live'[q] = live[q] /\ wire'[q] = wire[q]
    BY <2>1, <2>3
  <2>5. OneRestingEntryPerContract'
    BY <2>1, <2>2, <2>4 DEF RestInv, OneRestingEntryPerContract, Resting, AtWire
  <2>6. \A q \in Ids \ {o} : Resting(q)' = Resting(q)
    BY <2>1, <2>4 DEF Resting
  <2>7. \A q \in Ids : wire'[q] = "sent" => wire[q] = "sent"
    BY <2>1, <2>3
  <2>8. \A q \in Ids : live'[q] = "open" =>
            status'[q] = "OPEN" \/ (pc'[SignalCycle] \in AtWire /\ cur'[SignalCycle] = q)
    BY <2>1, <2>2, <2>4 DEF RestInv, AtWire
  <2>9. pc'[SignalCycle] # "create" /\ (~req'[cur'[SignalCycle]].exit =>
          \A q \in Ids \ {cur'[SignalCycle]} :
              Resting(q)' => req'[q].symbol # req'[cur'[SignalCycle]].symbol)
    BY <2>1, <2>2, <2>6 DEF RestInv, AtWire
  <2>10. \A q \in Ids : wire'[q] = "sent" =>
            pc'[SignalCycle] = "broker" /\ cur'[SignalCycle] = q
    BY <2>1, <2>7 DEF RestInv
  <2> QED BY <2>5, <2>8, <2>9, <2>10 DEF RestInv
<1> QED BY <1>2, <1>3, <1>4, <1>5, <1>6, <1>7, <1>8, <1>9
        DEF Next, EnvStep, Crash, OrdersAreSeen, May

\* Step 0 of place_order() and its write of the row before the broker call keep a second
\* entry off a contract on which one rests, also while the first is cancelled and retried,
\* whatever requests the cycle makes, and whoever else cancels orders and syncs rows.
THEOREM OneEntryRests ==
    ASSUME OrdersAreSeen PROVE Spec => []OneRestingEntryPerContract
<1>1. Init => RestInv
  BY ConstantsOK DEF Init, RestInv, Resting, AtWire, OneRestingEntryPerContract
<1>2. TypeOK /\ RowsInv /\ InTurn /\ RestInv /\ [Next]_vars => RestInv'
  BY RestStep
<1>3. RestInv => OneRestingEntryPerContract
  BY DEF RestInv
<1>4. Spec => []RowsInv
  BY RowsAgree DEF OrdersAreSeen
<1> QED BY <1>1, <1>2, <1>3, <1>4, CycleInTurn, TypeCorrect, PTL DEF Spec

-----------------------------------------------------------------------------
(* Counting lots.                                                          *)

LEMMA IdsAreFinite == IsFiniteSet(Ids)
<1>1. 2 * MaxRequests \in Int
  BY ConstantsOK
<1> QED BY <1>1, FS_Interval DEF Ids

LEMMA LotsOfOne ==
    ASSUME NEW o, NEW n \in Nat
    PROVE  IsFiniteSet({o} \X (1 .. n)) /\ Cardinality({o} \X (1 .. n)) = n
<1>1. IsFiniteSet({o}) /\ Cardinality({o}) = 1
  BY FS_Singleton
<1>2. IsFiniteSet(1 .. n) /\ Cardinality(1 .. n) = n
  <2>1. IsFiniteSet(1 .. n) /\ Cardinality(1 .. n) = IF 1 > n THEN 0 ELSE n - 1 + 1
    BY FS_Interval
  <2> QED BY <2>1
<1>3. /\ IsFiniteSet({o} \X (1 .. n))
      /\ Cardinality({o} \X (1 .. n)) = Cardinality({o}) * Cardinality(1 .. n)
  BY <1>1, <1>2, FS_Product
<1> QED BY <1>1, <1>2, <1>3

LEMMA LotsAreFinite ==
    ASSUME NEW S, IsFiniteSet(S), NEW f \in [S -> Nat]
    PROVE  /\ IsFiniteSet(UNION {{o} \X (1 .. f[o]) : o \in DOMAIN f})
           /\ LotsIn(f) \in Nat
<1> DEFINE of(o) == {o} \X (1 .. f[o])
           g == [o \in S |-> of(o)]
           parts == {of(o) : o \in S}
<1>1. g \in Surjection(S, parts)
  BY DEF Surjection
<1>2. IsFiniteSet(parts)
  BY <1>1, FS_Surjection
<1>3. \A T \in parts : IsFiniteSet(T)
  <2>1. ASSUME NEW o \in S PROVE IsFiniteSet(of(o))
    <3>1. f[o] \in Nat
      OBVIOUS
    <3> QED BY <3>1, LotsOfOne
  <2> QED BY <2>1
<1>4. IsFiniteSet(UNION parts)
  BY <1>2, <1>3, FS_UNION
<1>5. DOMAIN f = S
  OBVIOUS
<1>6. IsFiniteSet(UNION {{o} \X (1 .. f[o]) : o \in DOMAIN f})
  BY <1>4, <1>5
<1> QED BY <1>6, FS_CardinalityType DEF LotsIn

\* One order's lots are counted apart from those of the others.
LEMMA LotsSplit ==
    ASSUME NEW S, IsFiniteSet(S), NEW f \in [S -> Nat], NEW o \in S,
           NEW g \in [S \ {o} -> Nat], \A p \in S \ {o} : g[p] = f[p]
    PROVE  LotsIn(f) = f[o] + LotsIn(g)
<1> DEFINE A == {o} \X (1 .. f[o])
           B == UNION {{p} \X (1 .. g[p]) : p \in DOMAIN g}
           C == UNION {{p} \X (1 .. f[p]) : p \in DOMAIN f}
<1>1. IsFiniteSet(S \ {o})
  BY FS_Subset
<1>2. IsFiniteSet(B)
  BY <1>1, LotsAreFinite
<1>3. f[o] \in Nat /\ IsFiniteSet(A) /\ Cardinality(A) = f[o]
  BY LotsOfOne
<1>4. B = UNION {{p} \X (1 .. f[p]) : p \in S \ {o}}
  OBVIOUS
<1>5. C = A \cup B /\ A \cap B = {}
  BY <1>4
<1>6. LotsIn(f) = Cardinality(C) /\ LotsIn(g) = Cardinality(B)
  BY DEF LotsIn
<1> HIDE DEF A, B, C
<1>7. Cardinality(A \cup B) = Cardinality(A) + Cardinality(B) - Cardinality(A \cap B)
  BY <1>2, <1>3, FS_Union
<1>8. Cardinality(A \cap B) = 0
  BY <1>5, FS_EmptySet
<1>9. Cardinality(B) \in Nat
  BY <1>2, FS_CardinalityType
<1> QED BY <1>3, <1>5, <1>6, <1>7, <1>8, <1>9

\* A number that changes changes the sum by as much.
LEMMA LotsChange ==
    ASSUME NEW S, IsFiniteSet(S), NEW f \in [S -> Nat], NEW g \in [S -> Nat],
           NEW o \in S, \A p \in S \ {o} : g[p] = f[p]
    PROVE  LotsIn(g) - g[o] = LotsIn(f) - f[o]
<1>1. PICK h \in [S \ {o} -> Nat] : \A p \in S \ {o} : h[p] = f[p]
  <2>1. [p \in S \ {o} |-> f[p]] \in [S \ {o} -> Nat]
    OBVIOUS
  <2> QED BY <2>1
<1>2. LotsIn(f) = f[o] + LotsIn(h)
  BY <1>1, LotsSplit
<1>3. LotsIn(g) = g[o] + LotsIn(h)
  BY <1>1, LotsSplit
<1>4. LotsIn(h) \in Nat
  <2>1. IsFiniteSet(S \ {o})
    BY FS_Subset
  <2> QED BY <2>1, LotsAreFinite
<1> QED BY <1>2, <1>3, <1>4

LEMMA LotsGrow ==
    ASSUME NEW S, NEW T, IsFiniteSet(T), S \subseteq T,
           NEW f \in [S -> Nat], NEW g \in [T -> Nat], \A o \in S : f[o] <= g[o]
    PROVE  LotsIn(f) <= LotsIn(g)
<1> DEFINE A == UNION {{p} \X (1 .. f[p]) : p \in DOMAIN f}
           B == UNION {{p} \X (1 .. g[p]) : p \in DOMAIN g}
<1>1. \A o \in S : {o} \X (1 .. f[o]) \subseteq {o} \X (1 .. g[o])
  OBVIOUS
<1>2. A \subseteq B
  BY <1>1
<1>3. IsFiniteSet(B)
  BY LotsAreFinite
<1> QED BY <1>2, <1>3, FS_Subset DEF LotsIn

-----------------------------------------------------------------------------
(***************************************************************************)
(* An order and its retry fill no more than was asked for, when the sync   *)
(* that comes before the retry reaches the broker.  BoughtInv follows the  *)
(* fill that expire_stale_orders() hands to the retry: from the broker     *)
(* through the reply of a sync to the row, and from the row, read after    *)
(* three awaits, to the quantity of the second order.                      *)
(***************************************************************************)

SyncsReachTheBroker == AnswersKept /\ "get_orders_fails" \notin Env

\* Only what has not reached the broker is on its way there, and nothing is filled beyond
\* what the row asks for.
FillsHold ==
    \A o \in Ids :
        /\ wire[o] = "sent" => live[o] = "none" /\ o \in Rows
        /\ o \notin Rows => live[o] = "none"
        /\ live[o] = "none" => filled[o] = 0
        /\ live[o] = "open" => filled[o] < req[o].quantity
        /\ o \in Rows => filled[o] <= req[o].quantity

LockIsHeld ==
    \A s \in Syncers : syncPc[s] \in {"fetch", "apply", "release"} => lock = s

\* A reply that an order is dead tells all that it has filled.
RepliesTellFills ==
    \A s \in Syncers : \A o \in todo[s] :
        syncPc[s] \in {"apply", "release"} /\ reply[s][o].status \in Final
            => reply[s][o].filled = filled[o]

Booked(o) == recorded[o] = filled[o]

Fresh(o) ==
    \A s \in Syncers : o \in todo[s] /\ syncPc[s] \in {"apply", "release"}
                         => reply[s][o].filled = filled[o]

\* The sync that the signal cycle has called will book the order.
WillSee(o) == syncPc[SignalCycle] = "want" /\ status[o] = "OPEN"
WillBook(o) ==
    \/ WillSee(o)
    \/ o \in todo[SignalCycle] /\ syncPc[SignalCycle] \in {"fetch", "apply"}
    \/ /\ o \in todo[SignalCycle] /\ syncPc[SignalCycle] = "release"
       /\ o # syncCur[SignalCycle]

\* The order that was cancelled is booked once the sync after its cancellation is over.
ExpiredIsBooked ==
    expPc = "expire" =>
        /\ Booked(expCur) \/ WillBook(expCur)
        /\ Fresh(expCur) \/ WillSee(expCur)
        /\ \A a \in Admins : admPc[a] = "write" => admCur[a] # expCur

\* Order o is dead, and a request for n lots more keeps to what it asked for.
Leaves(o, n) == live[o] \in Final /\ n + filled[o] <= req[o].quantity
NotRetried(o) == \A r \in Ids : origin[r] # o

Resubmits(c) == pc[c] \in {"check", "create"} /\ argOrigin[c] # NoOrder

RetriesFit ==
    /\ \A r \in Ids :
          origin[r] # NoOrder =>
              /\ r \in Rows /\ Leaves(origin[r], req[r].quantity)
              /\ \A p \in Ids : origin[p] = origin[r] => p = r
    /\ \A c \in Callers :
          Resubmits(c) => /\ c = SignalCycle /\ Leaves(argOrigin[c], arg[c].quantity)
                          /\ NotRetried(argOrigin[c])
    /\ expPc \in {"expire", "release"} => NotRetried(expCur)
    /\ expPc = "release" => live[expCur] \in Final /\ expFilled = filled[expCur]

BoughtInv == FillsHold /\ LockIsHeld /\ RepliesTellFills /\ ExpiredIsBooked /\ RetriesFit

\* What a step does at the broker.
LEMMA BrokerChange ==
    ASSUME TypeOK, [Next]_vars
    PROVE  \/ /\ UNCHANGED <<live, filled>>
              /\ \A o \in Ids : wire'[o] = "sent" => wire[o] = "sent"
           \/ \E c \in Callers, o \in Ids :
                 /\ CreateRow(c, o, "PENDING") /\ wire' = [wire EXCEPT ![o] = "sent"]
                 /\ UNCHANGED <<live, filled>>
           \/ \E o \in Ids :
                 /\ live[o] = "open" /\ UNCHANGED <<filled, wire>>
                 /\ \E x \in Final : live' = [live EXCEPT ![o] = x]
           \/ \E o \in Ids : BrokerLand(o) \/ BrokerFill(o)
<1>1. wire \in [Ids -> {"idle", "sent", "landed"}]
  BY DEF TypeOK, BrokerOK
<1>2. CASE UNCHANGED vars
  BY <1>2 DEF vars, brokerVars
<1>3. ASSUME NEW c \in Callers, PlaceStep(c)
      PROVE  \/ /\ UNCHANGED <<live, filled>>
                /\ \A o \in Ids : wire'[o] = "sent" => wire[o] = "sent"
             \/ \E o \in Ids :
                   /\ CreateRow(c, o, "PENDING") /\ wire' = [wire EXCEPT ![o] = "sent"]
                   /\ UNCHANGED <<live, filled>>
  <2>1. CASE PlaceRoute(c)
    BY <2>1 DEF PlaceRoute, CreateRow
  <2>2. CASE ~PlaceRoute(c)
    BY <1>1, <1>3, <2>2
    DEF PlaceStep, PlaceCheck, PlaceRejectedByRisk, CreateRow, PlaceRefused, PlaceReturned,
        PlacePersist, PlacePersistFails, PlaceReserve, PlaceTimesOut, PlaceVerify, brokerVars
  <2> QED BY <2>1, <2>2
<1>4. ASSUME NEW c \in Callers, NEW r \in Requests[c], PlaceOrder(c, r)
      PROVE  UNCHANGED brokerVars
  BY <1>4 DEF PlaceOrder
<1>5. ASSUME NEW s \in Syncers, SyncStep(s) PROVE UNCHANGED brokerVars
  BY <1>5 DEF SyncStep, SyncNothingOpen, SyncSnapshot, SyncFetch, SyncFetchFails,
              SyncApply, SyncRelease
<1>6. ASSUME NEW o \in Ids, ExpireCancelOk(o) \/ ExpireCancelFails(o)
      PROVE  /\ UNCHANGED <<filled, wire>>
             /\ \/ UNCHANGED live
                \/ live[o] = "open" /\ \E x \in Final : live' = [live EXCEPT ![o] = x]
  BY <1>6 DEF ExpireCancelOk, ExpireCancelFails, Final
<1>7. CASE ExpireStep /\ ~\E o \in Ids : ExpireCancelOk(o) \/ ExpireCancelFails(o)
  <2>1. UNCHANGED brokerVars
    BY <1>7 DEF ExpireStep, ExpireBegin, ExpireVerifiedReserve, ExpireVerifyDone,
                ExpireScan, ExpireSkip, ExpireMark, ExpireRelease, ExpireVerify
  <2> QED BY <2>1 DEF brokerVars
<1>8. ASSUME NEW a \in Admins, CancelStep(a)
      PROVE  /\ UNCHANGED <<filled, wire>>
             /\ \/ UNCHANGED live
                \/ \E o \in Ids : /\ live[o] = "open"
                                  /\ \E x \in Final : live' = [live EXCEPT ![o] = x]
  <2>1. admPc[a] # "idle" => admCur[a] \in Ids
    BY DEF TypeOK, AdminOK, Rows
  <2>2. CASE CancelAtBroker(a)
    <3>1. /\ admCur[a] \in Ids /\ UNCHANGED <<filled, wire>>
          /\ \/ UNCHANGED live
             \/ live[admCur[a]] = "open" /\ live' = [live EXCEPT ![admCur[a]] = "cancelled"]
      BY <2>1, <2>2 DEF CancelAtBroker
    <3> QED BY <3>1 DEF Final
  <2>3. CASE ~CancelAtBroker(a)
    BY <1>8, <2>3 DEF CancelStep, CancelOrder, CancelWrite, CancelRelease, brokerVars
  <2> QED BY <2>2, <2>3
<1>9. CASE Crash
  BY <1>9 DEF Crash
<1>10. ASSUME NEW o \in Ids, BrokerCloses(o) \/ Age(o)
       PROVE  /\ UNCHANGED <<filled, wire>>
              /\ \/ UNCHANGED live
                 \/ live[o] = "open" /\ \E x \in Final : live' = [live EXCEPT ![o] = x]
  BY <1>10 DEF BrokerCloses, Age, brokerVars, Final
<1>11. UNCHANGED brokerVars => /\ UNCHANGED <<live, filled>>
                               /\ \A o \in Ids : wire'[o] = "sent" => wire[o] = "sent"
  BY DEF brokerVars
<1>12. CASE ExpireStep
  BY <1>6, <1>7, <1>12
<1>13. CASE EnvStep
  BY <1>9, <1>10, <1>13 DEF EnvStep
<1> QED BY <1>2, <1>3, <1>4, <1>5, <1>8, <1>11, <1>12, <1>13 DEF Next

LEMMA RowsGrow ==
    ASSUME TypeOK, [Next]_vars
    PROVE  \A o \in Rows : o \in Rows'
<1> SUFFICES \A o \in Ids : status'[o] = status[o] \/ status'[o] # "absent"
  BY DEF Rows
<1>1. status \in [Ids -> Statuses]
  BY DEF TypeOK, TableOK
<1>2. CASE UNCHANGED status
  BY <1>2
<1>3. CASE UNCHANGED vars
  BY <1>3 DEF vars, tableVars
<1>4. ASSUME NEW c \in Callers, PlaceStep(c)
      PROVE  \A o \in Ids : status'[o] = status[o] \/ status'[o] # "absent"
  BY <1>1, <1>4
  DEF PlaceStep, PlaceCheck, PlaceRejectedByRisk, PlaceRoute, CreateRow, PlaceRefused,
      PlaceReturned, PlacePersist, PlacePersistFails, PlaceReserve, PlaceTimesOut,
      PlaceVerify, SetStatus, tableVars
<1>5. ASSUME NEW c \in Callers, NEW r \in Requests[c], PlaceOrder(c, r)
      PROVE  UNCHANGED status
  BY <1>5 DEF PlaceOrder, tableVars
<1>6. ASSUME NEW s \in Syncers, SyncStep(s)
      PROVE  \A o \in Ids : status'[o] = status[o] \/ status'[o] # "absent"
  <2>1. ASSUME NEW o, SyncWrite(s, o)
        PROVE  \A p \in Ids : status'[p] = status[p] \/ status'[p] # "absent"
    BY <1>1, <2>1 DEF SyncWrite, MapBrokerStatus
  <2> QED BY <1>6, <2>1
          DEF SyncStep, SyncNothingOpen, SyncSnapshot, SyncFetch, SyncFetchFails, SyncApply,
              SyncRelease, tableVars
<1>7. CASE ExpireStep
  BY <1>1, <1>7
  DEF ExpireStep, ExpireBegin, ExpireVerifiedReserve, ExpireVerifyDone, ExpireScan,
      ExpireSkip, ExpireMark, ExpireRelease, ExpireVerify, ExpireCancelOk,
      ExpireCancelFails, SetStatus, tableVars
<1>8. ASSUME NEW a \in Admins, CancelStep(a)
      PROVE  \A o \in Ids : status'[o] = status[o] \/ status'[o] # "absent"
  BY <1>1, <1>8
  DEF CancelStep, CancelOrder, CancelAtBroker, CancelWrite, CancelRelease, SetStatus,
      tableVars
<1>9. CASE EnvStep
  BY <1>9 DEF EnvStep, Crash, BrokerLand, BrokerFill, BrokerCloses, Age, tableVars
<1> QED BY <1>2, <1>3, <1>4, <1>5, <1>6, <1>7, <1>8, <1>9 DEF Next

\* Only a new row records a request.
LEMMA RequestsChange ==
    ASSUME [Next]_vars
    PROVE  \/ UNCHANGED <<req, origin>>
           \/ \E c \in Callers, o \in Ids, x \in {"PENDING", "REJECTED_BY_RISK"} :
                  CreateRow(c, o, x) /\ \E l \in {"idle", "broker"} : Goto(c, l)
<1>1. CASE UNCHANGED vars
  BY <1>1 DEF vars, tableVars
<1>2. ASSUME NEW c \in Callers, PlaceStep(c)
      PROVE  \/ UNCHANGED <<req, origin>>
             \/ \E o \in Ids, x \in {"PENDING", "REJECTED_BY_RISK"} :
                    CreateRow(c, o, x) /\ \E l \in {"idle", "broker"} : Goto(c, l)
  BY <1>2 DEF PlaceStep, PlaceCheck, PlaceRejectedByRisk, PlaceRoute,
              PlaceRefused, PlaceReturned, PlacePersist, PlacePersistFails, PlaceReserve,
              PlaceTimesOut, PlaceVerify, tableVars
<1>3. ASSUME NEW c \in Callers, NEW r \in Requests[c], PlaceOrder(c, r)
      PROVE  UNCHANGED <<req, origin>>
  BY <1>3 DEF PlaceOrder, tableVars
<1>4. ASSUME NEW s \in Syncers, SyncStep(s) PROVE UNCHANGED <<req, origin>>
  BY <1>4 DEF SyncStep, SyncNothingOpen, SyncSnapshot, SyncFetch, SyncFetchFails,
              SyncApply, SyncWrite, SyncRelease, tableVars
<1>5. CASE ExpireStep
  BY <1>5 DEF ExpireStep, ExpireBegin, ExpireVerifiedReserve, ExpireVerifyDone, ExpireScan,
              ExpireSkip, ExpireMark, ExpireRelease, ExpireVerify, ExpireCancelOk,
              ExpireCancelFails, tableVars
<1>6. ASSUME NEW a \in Admins, CancelStep(a) PROVE UNCHANGED <<req, origin>>
  BY <1>6 DEF CancelStep, CancelOrder, CancelAtBroker, CancelWrite, CancelRelease,
              tableVars
<1>7. CASE EnvStep
  BY <1>7 DEF EnvStep, Crash, BrokerLand, BrokerFill, BrokerCloses, Age, tableVars
<1> QED BY <1>1, <1>2, <1>3, <1>4, <1>5, <1>6, <1>7 DEF Next

\* A dead order neither comes back nor fills, and a row keeps its request.
DeadStay == \A o \in Ids : live[o] \in Final => live'[o] = live[o] /\ filled'[o] = filled[o]
RequestsStay == \A o \in Rows : req'[o] = req[o] /\ origin'[o] = origin[o]

LEMMA EveryStay ==
    ASSUME TypeOK, FillsHold, [Next]_vars
    PROVE  DeadStay /\ RequestsStay
<1>1. live \in [Ids -> BrokerStatuses] /\ filled \in [Ids -> Nat]
        /\ req \in [Ids -> Request \cup {NoRequest}] /\ origin \in [Ids -> Ids \cup {NoOrder}]
  BY DEF TypeOK, BrokerOK, TableOK
<1>2. DeadStay
  <2>1. ASSUME NEW o \in Ids, BrokerLand(o) \/ BrokerFill(o) PROVE DeadStay
    BY <1>1, <2>1 DEF BrokerLand, BrokerFill, FillsHold, Final, DeadStay
  <2> QED BY <1>1, <2>1, BrokerChange DEF Final, DeadStay
<1>3. RequestsStay
  BY <1>1, RequestsChange DEF CreateRow, RequestsStay, Rows
<1> QED BY <1>2, <1>3

LEMMA FillsStep ==
    ASSUME TypeOK, TypeOK', FillsHold, [Next]_vars
    PROVE  FillsHold'
<1>1. /\ live \in [Ids -> BrokerStatuses] /\ filled \in [Ids -> Nat]
      /\ wire \in [Ids -> {"idle", "sent", "landed"}] /\ status \in [Ids -> Statuses]
      /\ \A o \in Rows : req[o].quantity \in Nat /\ req[o].quantity > 0
      /\ \A o \in Rows' : req'[o].quantity \in Nat /\ req'[o].quantity > 0
  BY DEF TypeOK, BrokerOK, TableOK, Request
<1>2. RequestsStay /\ \A o \in Rows : o \in Rows'
  BY EveryStay, RowsGrow
<1>3. ASSUME UNCHANGED <<live, filled>>,
             \A o \in Ids : wire'[o] = "sent" => wire[o] = "sent" \/ o \in Rows' \ Rows
      PROVE  FillsHold'
  BY <1>1, <1>2, <1>3 DEF FillsHold, RequestsStay
<1>4. ASSUME NEW c \in Callers, NEW o \in Ids, CreateRow(c, o, "PENDING"),
             wire' = [wire EXCEPT ![o] = "sent"], UNCHANGED <<live, filled>>
      PROVE  FillsHold'
  <2>1. o \in Rows' \ Rows
    BY <1>1, <1>4 DEF CreateRow, SetStatus, Rows
  <2> QED BY <1>1, <1>3, <1>4, <2>1
<1>5. ASSUME NEW o \in Ids, live[o] = "open", UNCHANGED <<filled, wire>>,
             NEW x \in Final, live' = [live EXCEPT ![o] = x]
      PROVE  FillsHold'
  BY <1>1, <1>2, <1>5 DEF FillsHold, RequestsStay, Final
<1>6. ASSUME NEW o \in Ids, BrokerLand(o) PROVE FillsHold'
  <2>1. /\ live[o] = "none" /\ filled[o] = 0 /\ o \in Rows /\ UNCHANGED <<filled, req, status>>
        /\ live' = [live EXCEPT ![o] = "open"] /\ wire' = [wire EXCEPT ![o] = "landed"]
    BY <1>6 DEF BrokerLand, FillsHold, tableVars
  <2>2. Rows' = Rows
    BY <2>1 DEF Rows
  <2> QED BY <1>1, <2>1, <2>2 DEF FillsHold
<1>7. ASSUME NEW o \in Ids, BrokerFill(o) PROVE FillsHold'
  <2>1. /\ live[o] = "open" /\ filled' = [filled EXCEPT ![o] = @ + 1]
        /\ UNCHANGED <<req, status, wire>>
        /\ live' = IF filled[o] + 1 >= req[o].quantity
                   THEN [live EXCEPT ![o] = "complete"] ELSE live
    BY <1>7 DEF BrokerFill, tableVars
  <2>2. o \in Rows /\ Rows' = Rows
    BY <2>1 DEF Rows, FillsHold
  <2> QED BY <1>1, <2>1, <2>2 DEF FillsHold
<1> QED BY <1>3, <1>4, <1>5, <1>6, <1>7, BrokerChange

\* Nothing is filled beyond what a row asks for.
LEMMA FillsAreHeld == Spec => []FillsHold
<1>1. Init => FillsHold
  BY DEF Init, FillsHold, Rows
<1>2. TypeOK /\ TypeOK' /\ FillsHold /\ [Next]_vars => FillsHold'
  BY FillsStep
<1> QED BY <1>1, <1>2, TypeCorrect, PTL DEF Spec

LEMMA SyncsChange ==
    ASSUME [Next]_vars
    PROVE  \/ UNCHANGED syncVars
           \/ \E s \in Syncers : SyncStep(s)
           \/ ExpireStep /\ WantSync /\ UNCHANGED <<lock, todo, reply, syncCur>>
           \/ Crash
<1>1. CASE UNCHANGED vars
  BY <1>1 DEF vars
<1>2. ASSUME NEW c \in Callers, PlaceStep(c) \/ \E r \in Requests[c] : PlaceOrder(c, r)
      PROVE  UNCHANGED syncVars
  BY <1>2 DEF PlaceStep, PlaceOrder, PlaceCheck, PlaceRejectedByRisk, PlaceRoute, CreateRow,
              PlaceRefused, PlaceReturned, PlacePersist, PlacePersistFails, PlaceReserve,
              PlaceTimesOut, PlaceVerify
<1>3. CASE ExpireStep
  BY <1>3 DEF ExpireStep, ExpireBegin, ExpireVerifiedReserve, ExpireVerifyDone, ExpireScan,
              ExpireSkip, ExpireMark, ExpireRelease, ExpireVerify, ExpireCancelOk,
              ExpireCancelFails, syncVars
<1>4. ASSUME NEW a \in Admins, CancelStep(a) PROVE UNCHANGED syncVars
  BY <1>4 DEF CancelStep, CancelOrder, CancelAtBroker, CancelWrite, CancelRelease
<1>5. CASE EnvStep
  BY <1>5 DEF EnvStep, BrokerLand, BrokerFill, BrokerCloses, Age
<1> QED BY <1>1, <1>2, <1>3, <1>4, <1>5 DEF Next

\* The lock of sync_orders() is held from the snapshot to the last row.
LEMMA LockStep ==
    ASSUME TypeOK, LockIsHeld, [Next]_vars
    PROVE  LockIsHeld'
<1>1. /\ SignalCycle \in Syncers /\ NoLock \notin Syncers
      /\ syncPc \in [Syncers -> {"idle", "want", "fetch", "apply", "release"}]
  BY ConstantsOK DEF TypeOK, SyncOK, Syncers
<1>2. CASE UNCHANGED syncVars
  BY <1>2 DEF LockIsHeld, syncVars
<1>3. ASSUME NEW s \in Syncers, SyncStep(s) PROVE LockIsHeld'
  <2>1. CASE SyncNothingOpen(s)
    BY <1>1, <2>1 DEF SyncNothingOpen, SyncGoto, LockIsHeld
  <2>2. CASE SyncSnapshot(s)
    BY <1>1, <2>2 DEF SyncSnapshot, SyncGoto, LockIsHeld
  <2>3. CASE ~SyncNothingOpen(s) /\ ~SyncSnapshot(s)
    <3>1. syncPc[s] \in {"fetch", "apply", "release"}
      BY <1>3, <2>3 DEF SyncStep, SyncFetch, SyncFetchFails, SyncApply, SyncRelease
    <3>2. \A t \in Syncers \ {s} :
             syncPc[t] \notin {"fetch", "apply", "release"} /\ syncPc'[t] = syncPc[t]
      BY <1>1, <1>3, <2>3, <3>1
      DEF SyncStep, SyncFetch, SyncFetchFails, SyncApply, SyncRelease, SyncDone, SyncGoto,
          LockIsHeld
    <3>3. syncPc'[s] = "idle" \/ lock' = lock
      BY <1>1, <1>3, <2>3
      DEF SyncStep, SyncFetch, SyncFetchFails, SyncApply, SyncRelease, SyncDone, SyncGoto
    <3> QED BY <3>1, <3>2, <3>3 DEF LockIsHeld
  <2> QED BY <2>1, <2>2, <2>3
<1>4. CASE WantSync /\ UNCHANGED <<lock, todo, reply, syncCur>>
  BY <1>1, <1>4 DEF WantSync, LockIsHeld
<1>5. CASE Crash
  BY <1>5 DEF Crash, LockIsHeld
<1> QED BY <1>2, <1>3, <1>4, <1>5, SyncsChange

LEMMA LockHeld == Spec => []LockIsHeld
<1>1. Init => LockIsHeld
  BY DEF Init, LockIsHeld
<1>2. TypeOK /\ LockIsHeld /\ [Next]_vars => LockIsHeld'
  BY LockStep
<1> QED BY <1>1, <1>2, TypeCorrect, PTL DEF Spec

LEMMA RepliesStep ==
    ASSUME TypeOK, RowsInv, FillsHold, RepliesTellFills, [Next]_vars
    PROVE  RepliesTellFills'
<1>1. /\ SignalCycle \in Syncers
      /\ syncPc \in [Syncers -> {"idle", "want", "fetch", "apply", "release"}]
      /\ todo \in [Syncers -> SUBSET Ids]
      /\ reply \in [Syncers -> [Ids -> [status : BrokerStatuses, filled : Nat]]]
  BY DEF TypeOK, SyncOK, Syncers
<1>2. ASSUME NEW s \in Syncers, NEW o \in todo[s], syncPc[s] \in {"apply", "release"},
             reply[s][o].status \in Final
      PROVE  reply[s][o].filled = filled'[o]
  <2>1. o \in Ids /\ live[o] = reply[s][o].status
    BY <1>1, <1>2 DEF RowsInv, RepliesStayTrue, Final
  <2>2. DeadStay
    BY EveryStay
  <2> QED BY <1>2, <2>1, <2>2 DEF RepliesTellFills, DeadStay
<1>3. CASE UNCHANGED syncVars
  BY <1>2, <1>3 DEF RepliesTellFills, syncVars
<1>4. ASSUME NEW s \in Syncers, SyncStep(s) PROVE RepliesTellFills'
  <2>1. \A t \in Syncers \ {s} :
            syncPc'[t] = syncPc[t] /\ todo'[t] = todo[t] /\ reply'[t] = reply[t]
    BY <1>1, <1>4
    DEF SyncStep, SyncNothingOpen, SyncSnapshot, SyncFetch, SyncFetchFails, SyncApply,
        SyncRelease, SyncDone, SyncGoto
  <2>2. CASE SyncFetch(s)
    <3>1. /\ filled' = filled /\ todo' = todo
          /\ \A o \in todo[s] : reply'[s][o].filled = filled[o]
      BY <1>1, <2>2 DEF SyncFetch, brokerVars
    <3> QED BY <1>2, <2>1, <3>1 DEF RepliesTellFills
  <2>3. CASE SyncApply(s) \/ SyncRelease(s)
    <3>1. /\ syncPc[s] \in {"apply", "release"} /\ todo'[s] \subseteq todo[s]
          /\ syncPc'[s] = "idle" \/ reply' = reply
      BY <1>1, <2>3 DEF SyncApply, SyncRelease, SyncDone, SyncGoto
    <3> QED BY <1>2, <2>1, <3>1 DEF RepliesTellFills
  <2>4. CASE SyncNothingOpen(s) \/ SyncSnapshot(s) \/ SyncFetchFails(s)
    <3>1. syncPc'[s] \in {"idle", "fetch"}
      BY <1>1, <2>4 DEF SyncNothingOpen, SyncSnapshot, SyncFetchFails, SyncGoto
    <3> QED BY <1>2, <2>1, <3>1 DEF RepliesTellFills
  <2> QED BY <1>4, <2>2, <2>3, <2>4 DEF SyncStep
<1>5. CASE WantSync /\ UNCHANGED <<lock, todo, reply, syncCur>>
  BY <1>1, <1>2, <1>5 DEF WantSync, RepliesTellFills
<1>6. CASE Crash
  BY <1>6 DEF Crash, RepliesTellFills
<1> QED BY <1>3, <1>4, <1>5, <1>6, SyncsChange

LEMMA RepliesTell == ASSUME AnswersKept PROVE Spec => []RepliesTellFills
<1>1. Init => RepliesTellFills
  BY DEF Init, RepliesTellFills
<1>2. TypeOK /\ RowsInv /\ FillsHold /\ RepliesTellFills /\ [Next]_vars
        => RepliesTellFills'
  BY RepliesStep
<1> QED BY <1>1, <1>2, TypeCorrect, FillsAreHeld, RowsAgree, PTL DEF Spec

\* Steps that are not of a sync, while the cancelled order waits for its own.
LEMMA BookedStays ==
    ASSUME ExpiredIsBooked, expPc = "expire",
           UNCHANGED <<syncPc, todo, reply, syncCur, expPc, expCur>>,
           status'[expCur] = status[expCur], recorded'[expCur] = recorded[expCur],
           filled'[expCur] = filled[expCur],
           \A a \in Admins : admPc'[a] = "write" => admCur'[a] # expCur
    PROVE  ExpiredIsBooked'
BY DEF ExpiredIsBooked, Booked, WillBook, WillSee, Fresh

\* The sync that the signal cycle waits for.
LEMMA BookedByOwnSync ==
    ASSUME SyncsReachTheBroker, TypeOK, LockIsHeld, ExpiredIsBooked, expPc = "expire",
           SyncStep(SignalCycle)
    PROVE  (Booked(expCur) \/ WillBook(expCur))' /\ (Fresh(expCur) \/ WillSee(expCur))'
<1> DEFINE e == expCur
           s == SignalCycle
<1>1. /\ s \in Syncers /\ s # OrderSync /\ NoLock \notin Syncers /\ e \in Ids
      /\ syncPc \in [Syncers -> {"idle", "want", "fetch", "apply", "release"}]
      /\ todo \in [Syncers -> SUBSET Ids] /\ recorded \in [Ids -> Nat]
      /\ syncCur \in [Syncers -> Ids \cup {NoOrder}]
      /\ reply \in [Syncers -> [Ids -> [status : BrokerStatuses, filled : Nat]]]
  BY ConstantsOK DEF TypeOK, TableOK, SyncOK, ExpireOK, Syncers, Rows
<1>2. UNCHANGED <<expCur, filled>>
  BY DEF SyncStep, SyncNothingOpen, SyncSnapshot, SyncFetch, SyncFetchFails, SyncApply,
         SyncRelease, expireVars, brokerVars
<1>3. \A t \in Syncers \ {s} :
          syncPc'[t] = syncPc[t] /\ todo'[t] = todo[t] /\ reply'[t] = reply[t]
  BY <1>1 DEF SyncStep, SyncNothingOpen, SyncSnapshot, SyncFetch, SyncFetchFails,
              SyncApply, SyncRelease, SyncDone, SyncGoto
<1>4. CASE SyncNothingOpen(s)
  <2>1. /\ syncPc[s] = "want" /\ status[e] # "OPEN" /\ syncPc'[s] = "idle"
        /\ UNCHANGED <<todo, reply, recorded>>
    BY <1>1, <1>4 DEF SyncNothingOpen, SyncGoto, WithStatus, tableVars
  <2> QED BY <1>2, <1>3, <2>1 DEF ExpiredIsBooked, Booked, WillBook, WillSee, Fresh
<1>5. CASE SyncSnapshot(s)
  <2>1. /\ syncPc[s] = "want" /\ lock = NoLock /\ syncPc'[s] = "fetch"
        /\ todo'[s] = WithStatus("OPEN") /\ UNCHANGED <<reply, recorded>>
    BY <1>1, <1>5 DEF SyncSnapshot, WantsSync, SyncGoto, tableVars
  <2>2. Fresh(e)'
    BY <1>1, <1>3, <2>1 DEF Fresh, LockIsHeld
  <2>3. (Booked(e) \/ WillBook(e))'
    BY <1>1, <1>2, <2>1 DEF ExpiredIsBooked, Booked, WillBook, WillSee, WithStatus
  <2> QED BY <2>2, <2>3
<1>6. CASE SyncFetch(s)
  <2>1. /\ syncPc[s] = "fetch" /\ syncPc'[s] = "apply" /\ UNCHANGED <<todo, recorded>>
        /\ \A o \in todo[s] : reply'[s][o].filled = filled[o]
    BY <1>1, <1>6 DEF SyncFetch, SyncGoto, tableVars
  <2>2. Fresh(e)'
    <3>1. \A t \in Syncers \ {s} : syncPc[t] \notin {"apply", "release"}
      BY <1>1, <2>1 DEF LockIsHeld
    <3> QED BY <1>1, <1>2, <1>3, <2>1, <3>1 DEF Fresh
  <2>3. (Booked(e) \/ WillBook(e))'
    BY <1>2, <2>1 DEF ExpiredIsBooked, Booked, WillBook, WillSee
  <2> QED BY <2>2, <2>3
<1>7. ASSUME syncPc[s] \in {"apply", "release"}, todo'[s] \subseteq todo[s],
             reply' = reply \/ syncPc'[s] = "idle"
      PROVE  Fresh(e) /\ Fresh(e)'
  BY <1>1, <1>2, <1>3, <1>7 DEF ExpiredIsBooked, WillSee, Fresh
<1>8. CASE SyncApply(s)
  <2>1. PICK o \in todo[s] :
          /\ syncPc[s] = "apply" /\ SyncWrite(s, o)
          /\ \/ /\ syncPc'[s] = "release" /\ syncCur'[s] = o
                /\ UNCHANGED <<todo, reply>>
             \/ SyncDone(s, o)
    BY <1>1, <1>8 DEF SyncApply, SyncGoto
  <2>2. /\ todo'[s] \subseteq todo[s] /\ (reply' = reply \/ syncPc'[s] = "idle")
        /\ recorded' = [recorded EXCEPT ![o] = reply[s][o].filled]
        /\ e \in todo[s] /\ e # o => (WillBook(e))'
    BY <1>1, <1>2, <2>1 DEF SyncDone, SyncGoto, SyncWrite, WillBook
  <2>3. Fresh(e) /\ Fresh(e)'
    BY <1>7, <2>1, <2>2
  <2>4. (Booked(e) \/ WillBook(e))'
    BY <1>1, <1>2, <2>1, <2>2, <2>3
    DEF ExpiredIsBooked, Booked, WillBook, WillSee, Fresh
  <2> QED BY <2>3, <2>4
<1>9. CASE SyncRelease(s)
  <2>1. /\ syncPc[s] = "release" /\ recorded' = recorded /\ SyncDone(s, syncCur[s])
    BY <1>9 DEF SyncRelease, tableVars
  <2>2. /\ todo'[s] \subseteq todo[s] /\ (reply' = reply \/ syncPc'[s] = "idle")
        /\ e \in todo[s] /\ e # syncCur[s] => (WillBook(e))'
    BY <1>1, <1>2, <2>1 DEF SyncDone, SyncGoto, WillBook
  <2>3. (Booked(e) \/ WillBook(e))'
    BY <1>1, <1>2, <2>1, <2>2 DEF ExpiredIsBooked, Booked, WillBook, WillSee
  <2> QED BY <1>7, <2>1, <2>2, <2>3
<1> QED BY <1>4, <1>5, <1>6, <1>8, <1>9
        DEF SyncStep, SyncFetchFails, SyncsReachTheBroker, May

\* The sync of the scheduler's job, beside it.
LEMMA BookedByOtherSync ==
    ASSUME SyncsReachTheBroker, TypeOK, RowsInv, LockIsHeld, RepliesTellFills,
           ExpiredIsBooked, expPc = "expire", SyncStep(OrderSync)
    PROVE  (Booked(expCur) \/ WillBook(expCur))' /\ (Fresh(expCur) \/ WillSee(expCur))'
<1> DEFINE e == expCur
           s == OrderSync
           c == SignalCycle
<1>1. /\ s \in Syncers /\ c \in Syncers /\ c # s /\ NoLock \notin Syncers /\ e \in Ids
      /\ syncPc \in [Syncers -> {"idle", "want", "fetch", "apply", "release"}]
      /\ todo \in [Syncers -> SUBSET Ids] /\ recorded \in [Ids -> Nat]
      /\ syncCur \in [Syncers -> Ids \cup {NoOrder}]
      /\ reply \in [Syncers -> [Ids -> [status : BrokerStatuses, filled : Nat]]]
  BY ConstantsOK DEF TypeOK, TableOK, SyncOK, ExpireOK, Syncers, Rows
<1>2. UNCHANGED <<expCur, filled>>
  BY DEF SyncStep, SyncNothingOpen, SyncSnapshot, SyncFetch, SyncFetchFails, SyncApply,
         SyncRelease, expireVars, brokerVars
<1>3. /\ syncPc'[c] = syncPc[c] /\ todo'[c] = todo[c] /\ reply'[c] = reply[c]
      /\ syncCur'[c] = syncCur[c]
  BY <1>1 DEF SyncStep, SyncNothingOpen, SyncSnapshot, SyncFetch, SyncFetchFails,
              SyncApply, SyncRelease, SyncDone, SyncGoto
<1>4. \A t \in Syncers : t = c \/ t = s
  BY DEF Syncers
<1>5. ASSUME UNCHANGED <<recorded, status>>,
             \/ syncPc'[s] \notin {"apply", "release"}
             \/ syncPc[s] \in {"apply", "release"} /\ todo'[s] \subseteq todo[s]
                  /\ reply' = reply
             \/ \A o \in todo'[s] : reply'[s][o].filled = filled[o]
      PROVE  (Booked(e) \/ WillBook(e))' /\ (Fresh(e) \/ WillSee(e))'
  <2>1. (Booked(e) \/ WillBook(e))'
    BY <1>2, <1>3, <1>5 DEF ExpiredIsBooked, Booked, WillBook, WillSee
  <2>2. (Fresh(e) \/ WillSee(e))'
    BY <1>2, <1>3, <1>4, <1>5 DEF ExpiredIsBooked, WillSee, Fresh
  <2> QED BY <2>1, <2>2
<1>6. CASE SyncNothingOpen(s) \/ SyncSnapshot(s)
  <2>1. syncPc'[s] \in {"idle", "fetch"} /\ UNCHANGED <<recorded, status>>
    BY <1>1, <1>6 DEF SyncNothingOpen, SyncSnapshot, SyncGoto, tableVars
  <2> QED BY <1>5, <2>1
<1>7. CASE SyncFetch(s)
  <2>1. /\ UNCHANGED <<recorded, status, todo>>
        /\ \A o \in todo[s] : reply'[s][o].filled = filled[o]
    BY <1>1, <1>7 DEF SyncFetch, tableVars
  <2> QED BY <1>5, <2>1
<1>8. CASE SyncRelease(s)
  <2>1. /\ UNCHANGED <<recorded, status>> /\ syncPc[s] = "release"
        /\ todo'[s] \subseteq todo[s] /\ (reply' = reply \/ syncPc'[s] = "idle")
    BY <1>1, <1>8 DEF SyncRelease, SyncDone, SyncGoto, tableVars
  <2> QED BY <1>5, <2>1
<1>9. CASE SyncApply(s)
  <2>1. PICK o \in todo[s] :
          /\ syncPc[s] = "apply" /\ SyncWrite(s, o)
          /\ \/ UNCHANGED <<todo, reply>>
             \/ SyncDone(s, o)
    BY <1>9 DEF SyncApply
  <2>2. /\ todo'[s] \subseteq todo[s] /\ (reply' = reply \/ syncPc'[s] = "idle")
        /\ recorded' = [recorded EXCEPT ![o] = reply[s][o].filled]
        /\ \A p \in Ids \ {o} : status'[p] = status[p]
        /\ reply[s][o].status \notin Final => status' = status
    BY <1>1, <2>1 DEF SyncDone, SyncGoto, SyncWrite, MapBrokerStatus, Final
  <2>3. syncPc[c] \in {"idle", "want"}
    BY <1>1, <2>1 DEF LockIsHeld
  <2>4. Fresh(e) => Fresh(e)'
    BY <1>1, <1>2, <1>3, <1>4, <2>1, <2>2, <2>3 DEF Fresh
  <2>5. CASE o # e
    <3>1. status'[e] = status[e] /\ recorded'[e] = recorded[e]
      BY <1>1, <2>2, <2>5
    <3> QED BY <1>2, <1>3, <2>4, <3>1 DEF ExpiredIsBooked, Booked, WillBook, WillSee
  <2>6. CASE o = e /\ reply[s][o].filled = filled[o]
    <3>1. Booked(e)' /\ Fresh(e)
      BY <1>1, <1>2, <1>4, <2>2, <2>3, <2>6 DEF Booked, Fresh
    <3> QED BY <2>4, <3>1
  <2>7. CASE o = e /\ reply[s][o].filled # filled[o]
    <3>1. WillSee(e)
      BY <1>1, <2>1, <2>7 DEF ExpiredIsBooked, Fresh
    <3>2. status' = status
      BY <1>1, <2>1, <2>2, <2>7 DEF RepliesTellFills
    <3>3. WillSee(e)'
      BY <1>2, <1>3, <3>1, <3>2 DEF WillSee
    <3> QED BY <3>3 DEF WillBook
  <2> QED BY <2>5, <2>6, <2>7
<1> QED BY <1>6, <1>7, <1>8, <1>9
        DEF SyncStep, SyncFetchFails, SyncsReachTheBroker, May

LEMMA ExpiryChange ==
    ASSUME [Next]_vars, expPc' \in {"expire", "release"}
    PROVE  \/ UNCHANGED expireVars
           \/ \E o \in Ids : ExpireCancelOk(o)
           \/ ExpireMark
<1>1. CASE UNCHANGED vars
  BY <1>1 DEF vars
<1>2. ASSUME NEW c \in Callers, PlaceStep(c) \/ \E r \in Requests[c] : PlaceOrder(c, r)
      PROVE  UNCHANGED expireVars
  BY <1>2 DEF PlaceStep, PlaceOrder, PlaceCheck, PlaceRejectedByRisk, PlaceRoute, CreateRow,
              PlaceRefused, PlaceReturned, PlacePersist, PlacePersistFails, PlaceReserve,
              PlaceTimesOut, PlaceVerify
<1>3. ASSUME NEW s \in Syncers, SyncStep(s) PROVE UNCHANGED expireVars
  BY <1>3 DEF SyncStep, SyncNothingOpen, SyncSnapshot, SyncFetch, SyncFetchFails,
              SyncApply, SyncRelease
<1>4. CASE ExpireStep
  BY <1>4 DEF ExpireStep, ExpireBegin, ExpireVerifiedReserve, ExpireVerifyDone, ExpireScan,
              ExpireSkip, ExpireRelease, ExpireVerify, ExpireCancelFails, ExpireNext,
              expireVars
<1>5. ASSUME NEW a \in Admins, CancelStep(a) PROVE UNCHANGED expireVars
  BY <1>5 DEF CancelStep, CancelOrder, CancelAtBroker, CancelWrite, CancelRelease
<1>6. CASE EnvStep
  BY <1>6 DEF EnvStep, Crash, BrokerLand, BrokerFill, BrokerCloses, Age
<1> QED BY <1>1, <1>2, <1>3, <1>4, <1>5, <1>6 DEF Next

LEMMA ExpiredStep ==
    ASSUME SyncsReachTheBroker, TypeOK, RowsInv, FillsHold, LockIsHeld, RepliesTellFills,
           ExpiredIsBooked, [Next]_vars
    PROVE  ExpiredIsBooked'
<1> SUFFICES ASSUME expPc' = "expire" PROVE ExpiredIsBooked'
  BY DEF ExpiredIsBooked
<1>1. /\ SignalCycle \in Syncers /\ SignalCycle # OrderSync
      /\ syncPc \in [Syncers -> {"idle", "want", "fetch", "apply", "release"}]
      /\ admPc \in [Admins -> {"idle", "cancel", "write", "release"}]
      /\ admCur \in [Admins -> Ids \cup {NoOrder}]
      /\ status \in [Ids -> Statuses] /\ recorded \in [Ids -> Nat]
  BY ConstantsOK DEF TypeOK, TableOK, SyncOK, AdminOK, Syncers
<1>2. ASSUME NEW o \in Ids, ExpireCancelOk(o) PROVE ExpiredIsBooked'
  <2>1. /\ o \in expTodo /\ live[o] = "open" /\ expCur' = o /\ expPc = "cancel"
        /\ syncPc'[SignalCycle] = "want" /\ UNCHANGED <<status, admPc, admCur>>
    BY <1>1, <1>2 DEF ExpireCancelOk, WantSync, tableVars, adminVars
  <2>2. status[o] = "OPEN"
    BY <2>1 DEF RowsInv, ExpiryIsSafe, Tracked, TableFollowsBroker
  <2>3. \A a \in Admins : admPc[a] = "write" => admCur[a] # o
    BY <2>1 DEF RowsInv, CancelIsSafe
  <2> QED BY <2>1, <2>2, <2>3 DEF ExpiredIsBooked, WillBook, WillSee
<1>3. CASE UNCHANGED expireVars
  <2>1. /\ expPc = "expire" /\ UNCHANGED <<expPc, expCur>>
        /\ expCur \in Ids /\ Tracked(expCur) /\ live[expCur] = "cancelled"
    BY <1>3 DEF expireVars, TypeOK, ExpireOK, Rows, RowsInv, ExpiryIsSafe
  <2>2. filled'[expCur] = filled[expCur]
    BY <2>1, EveryStay DEF DeadStay, Final
  <2>3. \A a \in Admins : admPc[a] = "write" => admCur[a] # expCur
    BY <2>1 DEF ExpiredIsBooked
  <2>4. CASE UNCHANGED vars
    BY <2>1, <2>2, <2>3, <2>4, BookedStays DEF vars, tableVars, syncVars, adminVars
  <2>5. ASSUME NEW c \in Callers, PlaceStep(c) PROVE ExpiredIsBooked'
    <3>1. UNCHANGED <<syncVars, adminVars>>
      BY <2>5 DEF PlaceStep, PlaceCheck, PlaceRejectedByRisk, PlaceRoute, CreateRow,
                  PlaceRefused, PlaceReturned, PlacePersist, PlacePersistFails,
                  PlaceReserve, PlaceTimesOut, PlaceVerify
    <3>2. status'[expCur] = status[expCur] /\ recorded'[expCur] = recorded[expCur]
      <4>1. CASE PlaceCheck(c) \/ PlaceReturned(c) \/ PlacePersistFails(c)
                   \/ PlaceReserve(c) \/ PlaceTimesOut(c)
        BY <4>1 DEF PlaceCheck, PlaceReturned, PlacePersistFails, PlaceReserve,
                    PlaceTimesOut, tableVars
      <4>2. CASE PlaceRejectedByRisk(c) \/ PlaceRoute(c)
        BY <1>1, <2>1, <4>2
        DEF PlaceRejectedByRisk, PlaceRoute, CreateRow, SetStatus, Tracked, Terminal
      <4>3. CASE PlaceRefused(c) \/ PlacePersist(c) \/ PlaceVerify(c)
        <5>1. pc[c] \in {"broker", "persist", "verify"} => status[cur[c]] = "PENDING"
          BY DEF RowsInv, CallsOwnTheirRows
        <5> QED BY <1>1, <2>1, <4>3, <5>1
                DEF PlaceRefused, PlacePersist, PlaceVerify, SetStatus, Tracked, Terminal
      <4> QED BY <2>5, <4>1, <4>2, <4>3 DEF PlaceStep
    <3> QED BY <2>1, <2>2, <2>3, <3>1, <3>2, BookedStays DEF syncVars, adminVars
  <2>6. ASSUME NEW c \in Callers, NEW r \in Requests[c], PlaceOrder(c, r)
        PROVE  ExpiredIsBooked'
    BY <2>1, <2>2, <2>3, <2>6, BookedStays DEF PlaceOrder, tableVars, syncVars, adminVars
  <2>7. ASSUME NEW s \in Syncers, SyncStep(s) PROVE ExpiredIsBooked'
    <3>1. (Booked(expCur) \/ WillBook(expCur))' /\ (Fresh(expCur) \/ WillSee(expCur))'
      BY <2>1, <2>7, BookedByOwnSync, BookedByOtherSync DEF Syncers
    <3>2. UNCHANGED adminVars
      BY <2>7 DEF SyncStep, SyncNothingOpen, SyncSnapshot, SyncFetch, SyncFetchFails,
                  SyncApply, SyncRelease
    <3> QED BY <2>1, <2>3, <3>1, <3>2 DEF ExpiredIsBooked, adminVars
  <2>8. CASE ExpireStep
    BY <2>1, <2>8
    DEF ExpireStep, ExpireBegin, ExpireVerifiedReserve, ExpireVerifyDone, ExpireScan,
        ExpireSkip, ExpireMark, ExpireRelease, ExpireVerify, ExpireCancelOk,
        ExpireCancelFails
  <2>9. ASSUME NEW a \in Admins, CancelStep(a) PROVE ExpiredIsBooked'
    <3>1. UNCHANGED <<syncVars, recorded>>
      BY <2>9 DEF CancelStep, CancelOrder, CancelAtBroker, CancelWrite, CancelRelease,
                  tableVars
    <3>2. status'[expCur] = status[expCur]
      BY <1>1, <2>1, <2>3, <2>9
      DEF CancelStep, CancelOrder, CancelAtBroker, CancelWrite, CancelRelease, SetStatus,
          tableVars
    <3>3. \A b \in Admins : admPc'[b] = "write" => admCur'[b] # expCur
      <4>1. CASE CancelAtBroker(a)
        BY <1>1, <2>1, <2>3, <4>1 DEF CancelAtBroker
      <4>2. CASE ~CancelAtBroker(a)
        BY <1>1, <2>3, <2>9, <4>2
        DEF CancelStep, CancelOrder, CancelWrite, CancelRelease
      <4> QED BY <4>1, <4>2
    <3> QED BY <2>1, <2>2, <3>1, <3>2, <3>3, BookedStays DEF syncVars
  <2>10. CASE EnvStep
    <3>1. UNCHANGED <<status, recorded, syncPc, todo, reply, syncCur, admPc, admCur>>
      BY <2>1, <2>10, <1>3 DEF EnvStep, Crash, BrokerLand, BrokerFill, BrokerCloses, Age,
                         tableVars, syncVars, adminVars, expireVars
    <3> QED BY <2>1, <2>2, <2>3, <3>1, BookedStays
  <2> QED BY <2>4, <2>5, <2>6, <2>7, <2>8, <2>9, <2>10 DEF Next
<1>4. CASE ExpireMark
  BY <1>4 DEF ExpireMark
<1> QED BY <1>2, <1>3, <1>4, ExpiryChange

\* A call is one that was on its way, a new one, or the resubmission of what is left.
LEMMA CallsChange ==
    ASSUME TypeOK, [Next]_vars, NEW c \in Callers, pc'[c] \in {"check", "create"}
    PROVE  \/ /\ pc[c] \in {"check", "create"}
              /\ arg'[c] = arg[c] /\ argOrigin'[c] = argOrigin[c]
           \/ argOrigin'[c] = NoOrder
           \/ /\ ExpireRelease /\ c = SignalCycle /\ argOrigin'[c] = expCur
              /\ arg'[c].quantity = Remaining
<1>1. /\ pc \in [Callers -> {"idle", "check", "create"} \cup Working]
      /\ arg \in [Callers -> Request \cup {NoRequest}]
      /\ argOrigin \in [Callers -> Ids \cup {NoOrder}]
  BY DEF TypeOK, PlaceOK
<1>2. CASE UNCHANGED vars
  BY <1>2 DEF vars, placeVars
<1>3. ASSUME NEW d \in Callers, PlaceStep(d)
      PROVE  /\ pc[c] \in {"check", "create"}
             /\ arg'[c] = arg[c] /\ argOrigin'[c] = argOrigin[c]
  BY <1>1, <1>3
  DEF PlaceStep, PlaceCheck, PlaceRejectedByRisk, PlaceRoute, CreateRow, PlaceRefused,
      PlaceReturned, PlacePersist, PlacePersistFails, PlaceReserve, PlaceTimesOut,
      PlaceVerify, Goto
<1>4. ASSUME NEW d \in Callers, NEW r \in Requests[d], PlaceOrder(d, r)
      PROVE  \/ /\ pc[c] \in {"check", "create"}
                /\ arg'[c] = arg[c] /\ argOrigin'[c] = argOrigin[c]
             \/ argOrigin'[c] = NoOrder
  BY <1>1, <1>4 DEF PlaceOrder, Goto
<1>5. ASSUME NEW s \in Syncers, SyncStep(s) PROVE UNCHANGED placeVars
  BY <1>5 DEF SyncStep, SyncNothingOpen, SyncSnapshot, SyncFetch, SyncFetchFails,
              SyncApply, SyncRelease
<1>6. CASE ExpireRelease
  <2>1. \/ UNCHANGED <<pc, arg, argOrigin>>
        \/ /\ Goto(SignalCycle, "check")
           /\ arg' = [arg EXCEPT ![SignalCycle] = [req[expCur] EXCEPT !.quantity = Remaining]]
           /\ argOrigin' = [argOrigin EXCEPT ![SignalCycle] = expCur]
    BY <1>6 DEF ExpireRelease
  <2>2. CASE UNCHANGED <<pc, arg, argOrigin>>
    BY <2>2
  <2>3. CASE /\ Goto(SignalCycle, "check")
             /\ arg' = [arg EXCEPT ![SignalCycle] =
                           [req[expCur] EXCEPT !.quantity = Remaining]]
             /\ argOrigin' = [argOrigin EXCEPT ![SignalCycle] = expCur]
    <3>1. req[expCur] \in Request
      BY <1>6 DEF ExpireRelease, TypeOK, ExpireOK, TableOK
    <3>2. [req[expCur] EXCEPT !.quantity = Remaining].quantity = Remaining
      BY <3>1 DEF Request
    <3> QED BY <1>1, <1>6, <2>3, <3>2 DEF Goto
  <2> QED BY <2>1, <2>2, <2>3
<1>7. CASE ExpireStep /\ ~ExpireRelease
  <2>1. UNCHANGED placeVars
    BY <1>7 DEF ExpireStep, ExpireBegin, ExpireVerifiedReserve, ExpireVerifyDone,
                ExpireScan, ExpireSkip, ExpireMark, ExpireVerify, ExpireCancelOk,
                ExpireCancelFails
  <2> QED BY <2>1 DEF placeVars
<1>8. ASSUME NEW a \in Admins, CancelStep(a) PROVE UNCHANGED placeVars
  BY <1>8 DEF CancelStep, CancelOrder, CancelAtBroker, CancelWrite, CancelRelease
<1>9. CASE EnvStep
  BY <1>9 DEF EnvStep, Crash, BrokerLand, BrokerFill, BrokerCloses, Age, placeVars
<1> QED BY <1>2, <1>3, <1>4, <1>5, <1>6, <1>7, <1>8, <1>9 DEF Next, placeVars

LEMMA RetriesStep ==
    ASSUME SyncsReachTheBroker, TypeOK, RowsInv, InTurn, FillsHold, ExpiredIsBooked,
           RetriesFit, [Next]_vars
    PROVE  RetriesFit'
<1> DEFINE LeavesNext(o, n) == live'[o] \in Final /\ n + filled'[o] <= req'[o].quantity
<1>1. /\ SignalCycle \in Callers /\ NoOrder \notin Ids
      /\ pc \in [Callers -> {"idle", "check", "create"} \cup Working]
      /\ argOrigin \in [Callers -> Ids \cup {NoOrder}]
      /\ req \in [Ids -> Request \cup {NoRequest}] /\ origin \in [Ids -> Ids \cup {NoOrder}]
      /\ filled \in [Ids -> Nat] /\ status \in [Ids -> Statuses]
      /\ recorded \in [Ids -> Nat] /\ \A o \in Rows : req[o] \in Request
  BY ConstantsOK DEF TypeOK, PlaceOK, TableOK, BrokerOK, Ids, NoOrder
<1>2. DeadStay /\ RequestsStay /\ Move
  BY EveryStay, EveryMove DEF SyncsReachTheBroker
<1>3. ASSUME NEW o \in Ids, NEW n, Leaves(o, n) PROVE o \in Rows /\ LeavesNext(o, n)
  <2>1. o \in Rows
    BY <1>3 DEF Leaves, Final, RowsInv, TableFollowsBroker, Rows
  <2> QED BY <1>2, <1>3, <2>1 DEF Leaves, DeadStay, RequestsStay
<1>4. \A o \in Rows : o \in Rows'
  BY <1>1, <1>2 DEF Rows, Move, Entered, Rested, Ended, Settled, Closed, SetStatus, Terminal
<1>5. ASSUME NEW c \in Callers, NEW o \in Ids, NEW x \in {"PENDING", "REJECTED_BY_RISK"},
             CreateRow(c, o, x)
      PROVE  /\ pc[c] = "create" /\ o \notin Rows /\ o \in Rows'
             /\ req' = [req EXCEPT ![o] = arg[c]]
             /\ origin' = [origin EXCEPT ![o] = argOrigin[c]]
             /\ argOrigin[c] # NoOrder =>
                  /\ c = SignalCycle /\ argOrigin[c] \in Ids
                  /\ Leaves(argOrigin[c], arg[c].quantity)
                  /\ \A r \in Ids : origin[r] # argOrigin[c]
  <2>1. /\ pc[c] = "create" /\ o \notin Rows /\ o \in Rows'
        /\ req' = [req EXCEPT ![o] = arg[c]]
        /\ origin' = [origin EXCEPT ![o] = argOrigin[c]]
    BY <1>1, <1>5 DEF CreateRow, SetStatus, Rows
  <2> QED BY <1>1, <2>1 DEF RetriesFit, Resubmits, NotRetried
<1>6. ASSUME NEW r \in Ids, origin'[r] # NoOrder
      PROVE  /\ r \in Rows' /\ LeavesNext(origin'[r], req'[r].quantity)
             /\ \A p \in Ids : origin'[p] = origin'[r] => p = r
  <2>1. CASE UNCHANGED <<req, origin>>
    BY <1>1, <1>3, <1>4, <1>6, <2>1 DEF RetriesFit
  <2>2. ASSUME NEW c \in Callers, NEW o \in Ids, NEW x \in {"PENDING", "REJECTED_BY_RISK"},
               CreateRow(c, o, x)
        PROVE  /\ r \in Rows' /\ LeavesNext(origin'[r], req'[r].quantity)
               /\ \A p \in Ids : origin'[p] = origin'[r] => p = r
    <3>1. CASE r = o
      BY <1>1, <1>3, <1>5, <1>6, <2>2, <3>1
    <3>2. CASE r # o
      <4>1. origin'[r] = origin[r] /\ req'[r] = req[r]
        BY <1>1, <1>5, <2>2, <3>2
      <4>2. r \in Rows' /\ LeavesNext(origin'[r], req'[r].quantity)
        BY <1>1, <1>3, <1>4, <1>6, <4>1 DEF RetriesFit
      <4>3. \A p \in Ids : origin'[p] = origin'[r] => p = r
        BY <1>1, <1>5, <1>6, <2>2, <3>2, <4>1 DEF RetriesFit
      <4> QED BY <4>2, <4>3
    <3> QED BY <3>1, <3>2
  <2> QED BY <2>1, <2>2, RequestsChange
<1>7. ASSUME NEW o \in Ids, NotRetried(o), NEW r \in Ids, origin'[r] = o
      PROVE  /\ pc[SignalCycle] = "create" /\ argOrigin[SignalCycle] = o
             /\ pc'[SignalCycle] \notin {"check", "create"}
  <2>1. PICK c \in Callers, p \in Ids, x \in {"PENDING", "REJECTED_BY_RISK"} :
            CreateRow(c, p, x) /\ \E l \in {"idle", "broker"} : Goto(c, l)
    BY <1>7, RequestsChange DEF NotRetried
  <2>2. pc[c] = "create" /\ origin' = [origin EXCEPT ![p] = argOrigin[c]]
          /\ pc'[c] \notin {"check", "create"}
    BY <1>1, <2>1 DEF CreateRow, Goto
  <2>3. argOrigin[c] = o
    BY <1>1, <1>7, <2>2 DEF NotRetried
  <2>4. c = SignalCycle
    BY <1>1, <2>2, <2>3 DEF RetriesFit, Resubmits
  <2> QED BY <2>2, <2>3, <2>4
<1>8. ASSUME expPc' \in {"expire", "release"}
      PROVE  /\ \A r \in Ids : origin'[r] # expCur'
             /\ expPc' = "release" => live'[expCur'] \in Final
                                        /\ expFilled' = filled'[expCur']
  <2>1. CASE UNCHANGED expireVars
    <3>1. /\ expPc \in {"expire", "release"} /\ expCur \in Ids /\ pc[SignalCycle] = "idle"
          /\ UNCHANGED <<expPc, expCur, expFilled>> /\ NotRetried(expCur)
      BY <1>8, <2>1 DEF expireVars, TypeOK, ExpireOK, Rows, InTurn, RetriesFit
    <3>2. \A r \in Ids : origin'[r] # expCur
      BY <1>7, <3>1
    <3> QED BY <1>2, <3>1, <3>2 DEF RetriesFit, DeadStay
  <2>2. ASSUME NEW o \in Ids, ExpireCancelOk(o)
        PROVE  expCur' = o /\ expPc' = "expire" /\ \A r \in Ids : origin'[r] # o
    <3>1. live[o] = "open" /\ expCur' = o /\ expPc' = "expire" /\ origin' = origin
      BY <2>2 DEF ExpireCancelOk, tableVars
    <3> QED BY <1>1, <3>1 DEF RetriesFit, Leaves, Final
  <2>3. CASE ExpireMark
    <3>1. /\ expPc = "expire" /\ expCur \in Ids /\ syncPc[SignalCycle] = "idle"
          /\ UNCHANGED <<expCur, live, filled, origin>> /\ expFilled' = recorded[expCur]
          /\ live[expCur] = "cancelled"
      BY <2>3 DEF ExpireMark, SignalIdle, brokerVars, TypeOK, ExpireOK, Rows, RowsInv,
                  ExpiryIsSafe
    <3>2. recorded[expCur] = filled[expCur]
      BY <3>1 DEF ExpiredIsBooked, Booked, WillBook, WillSee
    <3> QED BY <3>1, <3>2 DEF RetriesFit, NotRetried, Final
  <2> QED BY <1>8, <2>1, <2>2, <2>3, ExpiryChange
<1>9. ASSUME NEW c \in Callers, pc'[c] \in {"check", "create"}, argOrigin'[c] # NoOrder
      PROVE  /\ c = SignalCycle /\ LeavesNext(argOrigin'[c], arg'[c].quantity)
             /\ \A r \in Ids : origin'[r] # argOrigin'[c]
  <2>1. CASE /\ pc[c] \in {"check", "create"}
             /\ arg'[c] = arg[c] /\ argOrigin'[c] = argOrigin[c]
    <3>1. /\ c = SignalCycle /\ Leaves(argOrigin[c], arg[c].quantity)
          /\ NotRetried(argOrigin[c]) /\ argOrigin[c] \in Ids
      BY <1>1, <1>9, <2>1 DEF RetriesFit, Resubmits
    <3>2. \A r \in Ids : origin'[r] # argOrigin[c]
      BY <1>7, <1>9, <3>1
    <3> QED BY <1>3, <2>1, <3>1, <3>2
  <2>2. CASE /\ ExpireRelease /\ c = SignalCycle /\ argOrigin'[c] = expCur
             /\ arg'[c].quantity = Remaining
    <3>1. /\ expCur \in Rows /\ expCur \in Ids /\ NotRetried(expCur) /\ origin' = origin
          /\ live[expCur] \in Final /\ expFilled = filled[expCur]
      BY <2>2 DEF ExpireRelease, TypeOK, ExpireOK, Rows, RetriesFit, tableVars
    <3>2. Remaining + filled[expCur] = req[expCur].quantity
      BY <1>1, <3>1 DEF Remaining, Request
    <3>3. Leaves(expCur, Remaining)
      BY <1>1, <3>1, <3>2 DEF Leaves, Request
    <3> QED BY <1>3, <2>2, <3>1, <3>3 DEF NotRetried
  <2> QED BY <1>9, <2>1, <2>2, CallsChange
<1> QED BY <1>6, <1>8, <1>9 DEF RetriesFit, Resubmits, Leaves, NotRetried

LEMMA BoughtHolds == ASSUME SyncsReachTheBroker PROVE Spec => []BoughtInv
<1>1. Init => ExpiredIsBooked /\ RetriesFit
  BY DEF Init, ExpiredIsBooked, RetriesFit, Resubmits
<1>2. TypeOK /\ RowsInv /\ InTurn /\ FillsHold /\ LockIsHeld /\ RepliesTellFills
        /\ ExpiredIsBooked /\ RetriesFit /\ [Next]_vars
      => ExpiredIsBooked' /\ RetriesFit'
  BY ExpiredStep, RetriesStep
<1>3. Spec => [](RowsInv /\ RepliesTellFills)
  BY RowsAgree, RepliesTell, PTL DEF SyncsReachTheBroker
<1> QED BY <1>1, <1>2, <1>3, FillsAreHeld, TypeCorrect, CycleInTurn, LockHeld, PTL DEF Spec, BoughtInv

\* The lots of the retry, if there is one.
LEMMA LotsOfRetry ==
    ASSUME TypeOK, RetriesFit, NEW o \in Ids
    PROVE  LET lots == LotsIn([r \in {r \in Ids : origin[r] = o} |-> filled[r]]) IN
           \/ lots = 0
           \/ \E r \in Ids : origin[r] = o /\ lots = filled[r]
<1> DEFINE retries == {r \in Ids : origin[r] = o}
           f == [r \in retries |-> filled[r]]
<1>1. filled \in [Ids -> Nat] /\ o # NoOrder
  BY ConstantsOK DEF TypeOK, BrokerOK, Ids, NoOrder
<1>2. CASE retries = {}
  <2>1. UNION {{r} \X (1 .. f[r]) : r \in DOMAIN f} = {}
    BY <1>2
  <2> QED BY <2>1, FS_EmptySet DEF LotsIn
<1>3. ASSUME NEW r \in retries PROVE r \in Ids /\ origin[r] = o /\ LotsIn(f) = filled[r]
  <2>1. retries = {r}
    BY <1>1, <1>3 DEF RetriesFit
  <2>2. UNION {{p} \X (1 .. f[p]) : p \in DOMAIN f} = {r} \X (1 .. filled[r])
    BY <2>1
  <2>3. r \in Ids /\ origin[r] = o /\ filled[r] \in Nat
    BY <1>1, <1>3
  <2>4. Cardinality({r} \X (1 .. filled[r])) = filled[r]
    BY <2>3, LotsOfOne
  <2>5. LotsIn(f) = Cardinality({r} \X (1 .. filled[r]))
    BY <2>2 DEF LotsIn
  <2> QED BY <2>3, <2>4, <2>5
<1> QED BY <1>2, <1>3

\* What expire_stale_orders() resubmits is what the order, cancelled, has left unfilled: the
\* sync it waits for, before it reads filled_quantity, has written the final fill, whoever
\* else syncs, cancels or is told of a stale one in between; and a retry is not retried.
THEOREM BoughtOnlyOnce ==
    ASSUME SyncsReachTheBroker PROVE Spec => []NeverOverfilled
<1>1. TypeOK /\ BoughtInv => NeverOverfilled
  <2> SUFFICES ASSUME TypeOK, BoughtInv, NEW o \in Rows, origin[o] = NoOrder
               PROVE  filled[o] + LotsIn([r \in {r \in Ids : origin[r] = o} |-> filled[r]])
                          <= req[o].quantity
    BY DEF NeverOverfilled
  <2>1. o \in Ids /\ filled \in [Ids -> Nat] /\ \A r \in Rows : req[r].quantity \in Nat
    BY DEF Rows, TypeOK, BrokerOK, TableOK, Request
  <2>2. o # NoOrder
    BY ConstantsOK, <2>1 DEF Ids, NoOrder
  <2>3. filled[o] + 0 <= req[o].quantity
    BY <2>1 DEF BoughtInv, FillsHold
  <2>4. ASSUME NEW r \in Ids, origin[r] = o PROVE filled[o] + filled[r] <= req[o].quantity
    <3>1. /\ r \in Rows /\ req[r].quantity + filled[o] <= req[o].quantity
          /\ filled[r] <= req[r].quantity
      BY <2>2, <2>4 DEF BoughtInv, FillsHold, RetriesFit, Leaves
    <3> QED BY <2>1, <3>1
  <2> QED BY <2>1, <2>3, <2>4, LotsOfRetry DEF BoughtInv
<1> QED BY <1>1, BoughtHolds, TypeCorrect, PTL

-----------------------------------------------------------------------------
(***************************************************************************)
(* Capital is released at most once and counted as long as it is held, by  *)
(* any number of callers and both syncs, when no order goes stale, no one  *)
(* cancels one by hand, and neither the process nor an audit row is lost.  *)
(* Each of these four, alone, breaks it.                                   *)
(***************************************************************************)

CapitalIsTold ==
    Admins = {} /\ Env \cap {"orders_age", "context_lost", "crash"} = {}

NoneIsStale ==
    /\ aged = {} /\ expPc \in {"idle", "verify", "reserve", "scan"}
    /\ \A o \in Ids : status[o] # "EXPIRED"

Dead == {"CANCELLED", "REJECTED"}
Counted(o) == status[o] \in {"OPEN", "COMPLETED"} \cup Dead

\* Whoever works on a row works on it alone, and takes its capital when it is OPEN.
RowsHaveOneOwner ==
    /\ \A c \in Callers :
          /\ pc[c] \in AtWire => status[cur[c]] = "PENDING"
          /\ pc[c] = "reserve" => Counted(cur[c])
          /\ pc[c] \in Working =>
                \A d \in Callers : pc[d] \in Working /\ cur[d] = cur[c] => d = c
    /\ \A o \in expTodo : expPc \in {"verify", "reserve"} => status[o] = "PENDING_VERIFICATION"
    /\ expPc = "reserve" =>
          Counted(expCur) /\ \A c \in Callers : pc[c] \in Working => cur[c] # expCur
    /\ \A s \in Syncers : \A o \in todo[s] : Counted(o)

\* What a sync has still to deal with is OPEN, but for the row whose capital it is about
\* to release, for the first time.
SyncsReleaseOnce ==
    \A s \in Syncers :
        /\ syncPc[s] \in {"idle", "want"} => todo[s] = {}
        /\ syncPc[s] = "release" =>
              /\ syncCur[s] \in todo[s] /\ status[syncCur[s]] \in Dead
              /\ released[syncCur[s]] = 0
        /\ \A o \in todo[s] :
              /\ status[o] = "OPEN" \/ (syncPc[s] = "release" /\ o = syncCur[s])
              /\ syncPc[s] \in {"apply", "release"} => reply[s][o].filled <= req[o].quantity

\* What was released is what the row does not hold.
ReleasesFit ==
    \A o \in Ids :
        /\ o \in Rows => recorded[o] <= req[o].quantity
        /\ o \notin Rows => recorded[o] = 0
        /\ released[o] # 0 => /\ status[o] \in Dead /\ TracksCapital(req[o])
                              /\ released[o] + recorded[o] = req[o].quantity

\* The capital that rows hold, and that which calls are about to add.
Held(s) ==
    [o \in Ids |-> IF Counted(o) /\ TracksCapital(req[o]) /\ req[o].strategy = s
                   THEN req[o].quantity - released[o] ELSE 0]

Adding(o) == \/ expPc = "reserve" /\ expCur = o
             \/ \E c \in Callers : pc[c] = "reserve" /\ cur[c] = o

Coming(s) ==
    [o \in Ids |-> IF Adding(o) /\ TracksCapital(req[o]) /\ req[o].strategy = s
                   THEN req[o].quantity ELSE 0]

Covered ==
    \A s \in Strategies : deployed[s] + LotsIn(Coming(s)) >= LotsIn(Held(s))

LEMMA NoneIsStaleStep ==
    ASSUME CapitalIsTold, TypeOK, NoneIsStale, [Next]_vars
    PROVE  NoneIsStale'
<1>1. status \in [Ids -> Statuses]
  BY DEF TypeOK, TableOK
<1>2. CASE UNCHANGED <<aged, expPc, status>>
  BY <1>2 DEF NoneIsStale
<1>3. CASE UNCHANGED vars
  BY <1>2, <1>3 DEF vars, tableVars, expireVars
<1>4. ASSUME NEW c \in Callers, PlaceStep(c) PROVE NoneIsStale'
  <2>1. UNCHANGED <<aged, expPc>>
    BY <1>4 DEF PlaceStep, PlaceCheck, PlaceRejectedByRisk, PlaceRoute, CreateRow,
                PlaceRefused, PlaceReturned, PlacePersist, PlacePersistFails, PlaceReserve,
                PlaceTimesOut, PlaceVerify, tableVars, expireVars
  <2>2. \A o \in Ids : status'[o] = status[o] \/ status'[o] # "EXPIRED"
    BY <1>1, <1>4
    DEF PlaceStep, PlaceCheck, PlaceRejectedByRisk, PlaceRoute, CreateRow, PlaceRefused,
        PlaceReturned, PlacePersist, PlacePersistFails, PlaceReserve, PlaceTimesOut,
        PlaceVerify, SetStatus, tableVars
  <2> QED BY <2>1, <2>2 DEF NoneIsStale
<1>5. ASSUME NEW c \in Callers, NEW r \in Requests[c], PlaceOrder(c, r) PROVE NoneIsStale'
  BY <1>2, <1>5 DEF PlaceOrder, tableVars, expireVars
<1>6. ASSUME NEW s \in Syncers, SyncStep(s) PROVE NoneIsStale'
  <2>1. UNCHANGED <<aged, expPc>>
    BY <1>6 DEF SyncStep, SyncNothingOpen, SyncSnapshot, SyncFetch, SyncFetchFails,
                SyncApply, SyncWrite, SyncRelease, tableVars, expireVars
  <2>2. ASSUME NEW o, SyncWrite(s, o)
        PROVE  \A p \in Ids : status'[p] = status[p] \/ status'[p] # "EXPIRED"
    BY <1>1, <2>2 DEF SyncWrite, MapBrokerStatus
  <2>3. \A o \in Ids : status'[o] = status[o] \/ status'[o] # "EXPIRED"
    BY <1>6, <2>2
       DEF SyncStep, SyncNothingOpen, SyncSnapshot, SyncFetch, SyncFetchFails, SyncApply,
           SyncRelease, tableVars
  <2> QED BY <2>1, <2>3 DEF NoneIsStale
<1>7. CASE ExpireStep
  BY <1>1, <1>7
  DEF ExpireStep, ExpireBegin, ExpireVerifiedReserve, ExpireVerifyDone, ExpireScan,
      ExpireSkip, ExpireMark, ExpireRelease, ExpireVerify, ExpireCancelOk,
      ExpireCancelFails, SetStatus, tableVars, NoneIsStale
<1>8. CASE EnvStep
  BY <1>2, <1>8
  DEF EnvStep, Crash, BrokerLand, BrokerFill, BrokerCloses, Age, tableVars, expireVars,
      CapitalIsTold, May
<1> QED BY <1>3, <1>4, <1>5, <1>6, <1>7, <1>8 DEF Next, CapitalIsTold

\* What PlaceStep does to its own row, and that it does nothing to others.
LEMMA OwnerPlace ==
    ASSUME TypeOK, RowsHaveOneOwner, NEW c \in Callers, PlaceStep(c)
    PROVE  RowsHaveOneOwner'
<1>1. /\ pc \in [Callers -> {"idle", "check", "create"} \cup Working]
      /\ cur \in [Callers -> Ids \cup {NoOrder}] /\ status \in [Ids -> Statuses]
      /\ todo \in [Syncers -> SUBSET Ids] /\ expTodo \subseteq Rows
      /\ expPc = "reserve" => expCur \in Rows
      /\ \A s \in Syncers : todo[s] \subseteq Rows
      /\ \A d \in Callers : pc[d] \in Working => cur[d] \in Rows /\ cur[d] \in Ids
  BY DEF TypeOK, PlaceOK, TableOK, SyncOK, ExpireOK, Rows
<1>2. UNCHANGED <<todo, expPc, expTodo, expCur>>
  BY DEF PlaceStep, PlaceCheck, PlaceRejectedByRisk, PlaceRoute, CreateRow, PlaceRefused,
         PlaceReturned, PlacePersist, PlacePersistFails, PlaceReserve, PlaceTimesOut,
         PlaceVerify, syncVars, expireVars
<1>3. CASE PlaceCheck(c) \/ PlacePersistFails(c) \/ PlaceReserve(c)
             \/ PlaceReturned(c) \/ PlaceTimesOut(c)
  <2>1. /\ UNCHANGED <<status, cur>>
        /\ \/ \E x \in {"idle", "create"} : pc' = [pc EXCEPT ![c] = x]
           \/ pc[c] = "broker" /\ \E x \in {"persist", "verify"} : pc' = [pc EXCEPT ![c] = x]
    BY <1>3 DEF PlaceCheck, PlacePersistFails, PlaceReserve, PlaceReturned, PlaceTimesOut,
                Goto, tableVars
  <2> QED BY <1>1, <1>2, <2>1 DEF RowsHaveOneOwner, Counted, Dead, AtWire, Working
<1>4. CASE PlaceRejectedByRisk(c) \/ PlaceRoute(c)
  <2>1. PICK o \in Ids :
          /\ status[o] = "absent"
          /\ \/ /\ status' = [status EXCEPT ![o] = "REJECTED_BY_RISK"]
                /\ pc' = [pc EXCEPT ![c] = "idle"] /\ cur' = cur
             \/ /\ status' = [status EXCEPT ![o] = "PENDING"]
                /\ pc' = [pc EXCEPT ![c] = "broker"] /\ cur' = [cur EXCEPT ![c] = o]
    BY <1>4 DEF PlaceRejectedByRisk, PlaceRoute, CreateRow, SetStatus, Goto
  <2>2. \A p \in Rows : p # o /\ status'[p] = status[p]
    BY <1>1, <2>1 DEF Rows
  <2> QED BY <1>1, <1>2, <2>1, <2>2 DEF RowsHaveOneOwner, Counted, Dead, AtWire, Working
<1>5. CASE PlaceRefused(c) \/ PlacePersist(c) \/ PlaceVerify(c)
  <2>1. PICK x \in {"OPEN", "FAILED", "PENDING_VERIFICATION"} :
          /\ pc[c] \in AtWire /\ cur' = cur
          /\ status' = [status EXCEPT ![cur[c]] = x]
          /\ \/ pc' = [pc EXCEPT ![c] = "idle"]
             \/ pc' = [pc EXCEPT ![c] = "reserve"] /\ x = "OPEN"
    BY <1>5 DEF PlaceRefused, PlacePersist, PlaceVerify, SetStatus, Goto, AtWire
  <2>2. /\ cur[c] \in Ids /\ status[cur[c]] = "PENDING" /\ pc[c] \in Working
        /\ \A p \in Ids \ {cur[c]} : status'[p] = status[p]
    BY <1>1, <2>1 DEF RowsHaveOneOwner, AtWire, Working
  <2> QED BY <1>1, <1>2, <2>1, <2>2 DEF RowsHaveOneOwner, Counted, Dead, AtWire, Working
<1> QED BY <1>3, <1>4, <1>5 DEF PlaceStep

LEMMA OwnerSync ==
    ASSUME TypeOK, RowsHaveOneOwner, NEW s \in Syncers, SyncStep(s)
    PROVE  RowsHaveOneOwner'
<1>1. /\ status \in [Ids -> Statuses] /\ todo \in [Syncers -> SUBSET Ids]
      /\ \A c \in Callers : pc[c] \in Working => cur[c] \in Ids
  BY DEF TypeOK, PlaceOK, TableOK, SyncOK, Rows
<1>2. UNCHANGED <<pc, cur, expPc, expTodo, expCur>>
  BY DEF SyncStep, SyncNothingOpen, SyncSnapshot, SyncFetch, SyncFetchFails, SyncApply,
         SyncRelease, placeVars, expireVars
<1>3. \A o \in Ids : status'[o] = status[o] \/ (Counted(o) /\ Counted(o)')
  <2>1. CASE SyncApply(s)
    <3>1. PICK o \in todo[s] : SyncWrite(s, o)
      BY <2>1 DEF SyncApply
    <3>2. o \in Ids /\ Counted(o)
      BY <1>1 DEF RowsHaveOneOwner
    <3> QED BY <1>1, <3>1, <3>2 DEF SyncWrite, MapBrokerStatus, Counted, Dead
  <2>2. CASE ~SyncApply(s)
    BY <2>2 DEF SyncStep, SyncNothingOpen, SyncSnapshot, SyncFetch, SyncFetchFails,
                SyncRelease, tableVars
  <2> QED BY <2>1, <2>2
<1>4. \A t \in Syncers : \A o \in todo'[t] : Counted(o)'
  <2>1. ASSUME NEW t \in Syncers, NEW o \in todo'[t] PROVE o \in todo[t] \/ status'[o] = "OPEN"
    BY <1>1, <2>1
    DEF SyncStep, SyncNothingOpen, SyncSnapshot, SyncFetch, SyncFetchFails, SyncApply,
        SyncRelease, SyncDone, WithStatus, tableVars
  <2> QED BY <1>1, <1>3, <2>1 DEF RowsHaveOneOwner, Counted
<1>5. \A o \in Ids : Counted(o) => Counted(o)'
  BY <1>3 DEF Counted
<1> QED BY <1>1, <1>2, <1>3, <1>4, <1>5
        DEF RowsHaveOneOwner, Counted, Dead, AtWire, Working, TypeOK, ExpireOK, Rows

LEMMA OwnerExpire ==
    ASSUME TypeOK, NoneIsStale, RowsHaveOneOwner, ExpireStep
    PROVE  RowsHaveOneOwner'
<1>1. /\ status \in [Ids -> Statuses] /\ todo \in [Syncers -> SUBSET Ids]
      /\ \A c \in Callers : pc[c] \in Working => cur[c] \in Ids
  BY DEF TypeOK, PlaceOK, TableOK, SyncOK, Rows
<1>2. CASE ExpireBegin
  BY <1>1, <1>2 DEF ExpireBegin, WithStatus, tableVars, placeVars, syncVars,
                    RowsHaveOneOwner, Counted
<1>3. ASSUME NEW o \in Ids, ExpireVerify(o) PROVE RowsHaveOneOwner'
  <2>1. /\ expPc = "verify" /\ o \in expTodo /\ expTodo' = expTodo \ {o}
        /\ UNCHANGED <<pc, cur, todo>> /\ status[o] = "PENDING_VERIFICATION"
        /\ \/ status' = [status EXCEPT ![o] = "OPEN"] /\ expPc' = "reserve" /\ expCur' = o
           \/ status' = [status EXCEPT ![o] = "FAILED"] /\ expPc' = "verify"
           \/ status' = status /\ expPc' = "verify"
    BY <1>3 DEF ExpireVerify, SetStatus, placeVars, syncVars, RowsHaveOneOwner
  <2>2. /\ \A p \in Ids \ {o} : status'[p] = status[p]
        /\ \A c \in Callers : pc[c] \in Working => cur[c] # o
    BY <1>1, <2>1 DEF RowsHaveOneOwner, Counted, Dead, AtWire, Working
  <2> QED BY <1>1, <2>1, <2>2 DEF RowsHaveOneOwner, Counted, Dead, AtWire, Working, TypeOK,
                                   ExpireOK, Rows
<1>4. CASE ExpireVerifiedReserve \/ ExpireVerifyDone \/ ExpireScan
  BY <1>4 DEF ExpireVerifiedReserve, ExpireVerifyDone, ExpireScan, tableVars, placeVars,
              RowsHaveOneOwner, Counted, syncVars
<1> QED BY <1>2, <1>3, <1>4
        DEF ExpireStep, NoneIsStale, ExpireSkip, ExpireMark, ExpireRelease, ExpireCancelOk,
            ExpireCancelFails

LEMMA OwnerStep ==
    ASSUME CapitalIsTold, TypeOK, NoneIsStale, RowsHaveOneOwner, [Next]_vars
    PROVE  RowsHaveOneOwner'
<1>1. CASE UNCHANGED <<status, pc, cur, todo, expPc, expTodo, expCur>>
  BY <1>1 DEF RowsHaveOneOwner, Counted
<1>2. CASE UNCHANGED vars
  BY <1>1, <1>2 DEF vars, tableVars, placeVars, syncVars, expireVars
<1>3. ASSUME NEW c \in Callers, NEW r \in Requests[c], PlaceOrder(c, r)
      PROVE  RowsHaveOneOwner'
  <2>1. /\ UNCHANGED <<status, cur, todo, expPc, expTodo, expCur>>
        /\ pc' = [pc EXCEPT ![c] = "check"]
    BY <1>3 DEF PlaceOrder, Goto, tableVars, syncVars, expireVars
  <2> QED BY <2>1 DEF RowsHaveOneOwner, Counted, AtWire, Working, TypeOK, PlaceOK
<1>4. CASE EnvStep
  BY <1>1, <1>4
  DEF EnvStep, Crash, BrokerLand, BrokerFill, BrokerCloses, Age, tableVars, placeVars,
      syncVars, expireVars, CapitalIsTold, May
<1> QED BY <1>2, <1>3, <1>4, OwnerPlace, OwnerSync, OwnerExpire DEF Next, CapitalIsTold

LEMMA OneOwner == ASSUME CapitalIsTold PROVE Spec => [](NoneIsStale /\ RowsHaveOneOwner)
<1>1. Init => NoneIsStale /\ RowsHaveOneOwner
  BY DEF Init, NoneIsStale, RowsHaveOneOwner, AtWire, Working
<1>2. TypeOK /\ NoneIsStale /\ RowsHaveOneOwner /\ [Next]_vars
        => NoneIsStale' /\ RowsHaveOneOwner'
  BY NoneIsStaleStep, OwnerStep
<1> QED BY <1>1, <1>2, TypeCorrect, PTL DEF Spec

\* place_order() leaves counted rows alone, and writes a fill the broker has told.
LEMMA PlaceLeaves ==
    ASSUME TypeOK, TypeOK', FillsHold, RowsHaveOneOwner, ReleasesFit, NEW c \in Callers,
           PlaceStep(c)
    PROVE  /\ UNCHANGED <<syncVars, released>>
           /\ \A o \in Ids : Counted(o) => /\ status'[o] = status[o] /\ req'[o] = req[o]
                                           /\ recorded'[o] = recorded[o]
           /\ \A o \in Ids : /\ o \in Rows' => recorded'[o] <= req'[o].quantity
                             /\ o \notin Rows' => recorded'[o] = 0
<1>1. /\ status \in [Ids -> Statuses] /\ recorded \in [Ids -> Nat]
      /\ req \in [Ids -> Request \cup {NoRequest}]
      /\ \A d \in Callers : pc[d] \in Working => cur[d] \in Rows /\ cur[d] \in Ids
      /\ \A o \in Rows' : req'[o].quantity \in Nat
  BY DEF TypeOK, PlaceOK, TableOK, Rows, Request
<1>2. UNCHANGED <<syncVars, released>>
  BY DEF PlaceStep, PlaceCheck, PlaceRejectedByRisk, PlaceRoute, CreateRow, PlaceRefused,
         PlaceReturned, PlacePersist, PlacePersistFails, PlaceReserve, PlaceTimesOut,
         PlaceVerify, AddIfTracked, AddDeployedCapital, riskVars
<1>3. CASE PlaceCheck(c) \/ PlacePersistFails(c) \/ PlaceReserve(c)
             \/ PlaceReturned(c) \/ PlaceTimesOut(c)
  <2>1. UNCHANGED <<status, req, recorded>>
    BY <1>3 DEF PlaceCheck, PlacePersistFails, PlaceReserve, PlaceReturned, PlaceTimesOut,
                tableVars
  <2> QED BY <1>2, <2>1 DEF ReleasesFit, Rows
<1>4. CASE PlaceRejectedByRisk(c) \/ PlaceRoute(c)
  <2>1. PICK o \in Ids, x \in {"PENDING", "REJECTED_BY_RISK"} :
          /\ status[o] = "absent" /\ status' = [status EXCEPT ![o] = x]
          /\ req' = [req EXCEPT ![o] = arg[c]] /\ recorded' = recorded
    BY <1>4 DEF PlaceRejectedByRisk, PlaceRoute, CreateRow, SetStatus
  <2>2. o \in Rows' /\ recorded[o] = 0
    BY <1>1, <2>1 DEF ReleasesFit, Rows
  <2>3. \A p \in Ids \ {o} : status'[p] = status[p] /\ req'[p] = req[p]
    BY <1>1, <2>1
  <2> QED BY <1>1, <1>2, <2>1, <2>2, <2>3 DEF ReleasesFit, Rows, Counted, Dead
<1>5. CASE PlaceRefused(c) \/ PlacePersist(c) \/ PlaceVerify(c)
  <2>1. /\ pc[c] \in AtWire /\ req' = req
        /\ recorded' = recorded \/ recorded' = [recorded EXCEPT ![cur[c]] = filled[cur[c]]]
        /\ \E x \in {"OPEN", "FAILED", "PENDING_VERIFICATION"} :
              status' = [status EXCEPT ![cur[c]] = x]
    BY <1>5 DEF PlaceRefused, PlacePersist, PlaceVerify, SetStatus, AtWire
  <2>2. cur[c] \in Rows /\ cur[c] \in Ids /\ status[cur[c]] = "PENDING"
    BY <1>1, <2>1 DEF RowsHaveOneOwner, AtWire, Working
  <2>3. \A p \in Ids \ {cur[c]} : status'[p] = status[p] /\ recorded'[p] = recorded[p]
    BY <1>1, <2>1
  <2>4. cur[c] \in Rows' /\ recorded'[cur[c]] <= req[cur[c]].quantity
    BY <1>1, <2>1, <2>2 DEF ReleasesFit, FillsHold, Rows
  <2> QED BY <1>2, <2>1, <2>2, <2>3, <2>4 DEF ReleasesFit, Rows, Counted, Dead
<1> QED BY <1>3, <1>4, <1>5 DEF PlaceStep

LEMMA ReleaseSync ==
    ASSUME CapitalIsTold, TypeOK, FillsHold, LockIsHeld, SyncsReleaseOnce, ReleasesFit,
           NEW s \in Syncers, SyncStep(s)
    PROVE  SyncsReleaseOnce' /\ ReleasesFit'
<1>1. /\ status \in [Ids -> Statuses] /\ recorded \in [Ids -> Nat]
      /\ todo \in [Syncers -> SUBSET Ids] /\ released \in [Ids -> Nat]
      /\ syncPc \in [Syncers -> {"idle", "want", "fetch", "apply", "release"}]
      /\ syncCur \in [Syncers -> Ids \cup {NoOrder}]
      /\ reply \in [Syncers -> [Ids -> [status : BrokerStatuses, filled : Nat]]]
      /\ \A t \in Syncers : todo[t] \subseteq Rows
      /\ \A o \in Rows : req[o].quantity \in Nat
  BY DEF TypeOK, TableOK, RiskOK, SyncOK, Request
<1>2. UNCHANGED <<req, filled>>
  BY DEF SyncStep, SyncNothingOpen, SyncSnapshot, SyncFetch, SyncFetchFails, SyncApply,
         SyncWrite, SyncRelease, tableVars, brokerVars
<1>3. \A t \in Syncers \ {s} :
          /\ syncPc'[t] = syncPc[t] /\ todo'[t] = todo[t] /\ reply'[t] = reply[t]
          /\ syncCur'[t] = syncCur[t]
  BY <1>1 DEF SyncStep, SyncNothingOpen, SyncSnapshot, SyncFetch, SyncFetchFails,
              SyncApply, SyncRelease, SyncDone, SyncGoto
<1>4. ASSUME syncPc[s] \in {"fetch", "apply", "release"}
      PROVE  \A t \in Syncers \ {s} : syncPc[t] \in {"idle", "want"} /\ todo[t] = {}
  BY <1>1, <1>4 DEF LockIsHeld, SyncsReleaseOnce
<1>5. CASE SyncNothingOpen(s) \/ SyncSnapshot(s) \/ SyncFetch(s) \/ SyncFetchFails(s)
  <2>1. UNCHANGED <<status, recorded, released>>
    BY <1>5 DEF SyncNothingOpen, SyncSnapshot, SyncFetch, SyncFetchFails, tableVars, riskVars
  <2>2. ReleasesFit'
    BY <1>2, <2>1 DEF ReleasesFit, Rows, TracksCapital
  <2>3. /\ syncPc'[s] \in {"idle", "want"} => todo'[s] = {}
        /\ syncPc'[s] # "release"
        /\ \A o \in todo'[s] : status[o] = "OPEN"
        /\ syncPc'[s] = "apply" => \A o \in todo'[s] : reply'[s][o].filled <= req[o].quantity
    <3>1. CASE SyncNothingOpen(s)
      BY <1>1, <3>1 DEF SyncNothingOpen, SyncGoto, SyncsReleaseOnce
    <3>2. CASE SyncSnapshot(s)
      BY <1>1, <3>2 DEF SyncSnapshot, SyncGoto, WithStatus
    <3>3. CASE SyncFetch(s)
      <4>1. /\ syncPc[s] = "fetch" /\ syncPc'[s] = "apply" /\ todo' = todo
            /\ \A o \in todo[s] : reply'[s][o].filled = filled[o]
        BY <1>1, <3>3 DEF SyncFetch, SyncGoto
      <4> QED BY <1>1, <4>1 DEF FillsHold, SyncsReleaseOnce
    <3>4. CASE SyncFetchFails(s)
      BY <1>1, <3>4 DEF SyncFetchFails, SyncGoto
    <3> QED BY <1>5, <3>1, <3>2, <3>3, <3>4
  <2> QED BY <1>2, <1>3, <2>1, <2>2, <2>3 DEF SyncsReleaseOnce
<1>6. CASE SyncApply(s)
  <2>1. PICK o \in todo[s] :
          /\ syncPc[s] = "apply" /\ SyncWrite(s, o)
          /\ IF reply[s][o].status \in {"rejected", "cancelled"}
             THEN /\ syncPc'[s] = "release" /\ syncCur'[s] = o /\ UNCHANGED <<todo, reply>>
             ELSE SyncDone(s, o)
    BY <1>1, <1>6 DEF SyncApply, SyncGoto
  <2>2. /\ o \in Ids /\ o \in Rows /\ status[o] = "OPEN" /\ released[o] = 0
        /\ reply[s][o].filled <= req[o].quantity /\ released' = released
    BY <1>1, <1>6, <2>1 DEF SyncsReleaseOnce, ReleasesFit, Dead, SyncApply, riskVars
  <2>3. /\ recorded' = [recorded EXCEPT ![o] = reply[s][o].filled]
        /\ \A p \in Ids \ {o} : status'[p] = status[p]
        /\ status'[o] # "absent"
        /\ reply[s][o].status \in {"rejected", "cancelled"} => status'[o] \in Dead
    BY <1>1, <2>1, <2>2 DEF SyncWrite, MapBrokerStatus, Dead
  <2>4. ReleasesFit'
    <3>1. Rows' = Rows
      BY <2>2, <2>3 DEF Rows
    <3> QED BY <1>1, <1>2, <2>2, <2>3, <3>1 DEF ReleasesFit, TracksCapital
  <2>5. \A p \in todo[s] : status[p] = "OPEN" /\ reply[s][p].filled <= req[p].quantity
    BY <2>1 DEF SyncsReleaseOnce
  <2>6. CASE reply[s][o].status \in {"rejected", "cancelled"}
    <3>1. syncPc'[s] = "release" /\ syncCur'[s] = o /\ UNCHANGED <<todo, reply>>
      BY <2>1, <2>6
    <3>2. \A p \in todo[s] \ {o} : status'[p] = "OPEN"
      BY <1>1, <2>3, <2>5
    <3> QED BY <1>2, <1>3, <1>4, <2>1, <2>2, <2>3, <2>4, <2>5, <2>6, <3>1, <3>2
            DEF SyncsReleaseOnce
  <2>7. CASE reply[s][o].status \notin {"rejected", "cancelled"}
    <3>1. /\ todo'[s] = todo[s] \ {o} /\ syncPc'[s] \in {"idle", "apply"}
          /\ syncPc'[s] = "idle" => todo[s] = {o}
          /\ syncPc'[s] = "apply" => reply' = reply
      BY <1>1, <2>1, <2>7 DEF SyncDone, SyncGoto
    <3>2. \A p \in todo'[s] : status'[p] = "OPEN"
      BY <1>1, <2>3, <2>5, <3>1
    <3> QED BY <1>2, <1>3, <1>4, <2>1, <2>2, <2>4, <2>5, <3>1, <3>2 DEF SyncsReleaseOnce
  <2> QED BY <2>6, <2>7
<1>7. CASE SyncRelease(s)
  <2> DEFINE o == syncCur[s]
  <2>1. /\ syncPc[s] = "release" /\ SyncDone(s, o) /\ UNCHANGED <<status, recorded>>
        /\ ReleaseIfTracked(o, recorded[o], TRUE)
    BY <1>7 DEF SyncRelease, ContextFound, CapitalIsTold, May, tableVars
  <2>2. o \in todo[s] /\ o \in Ids /\ o \in Rows /\ status[o] \in Dead /\ released[o] = 0
    BY <1>1, <2>1 DEF SyncsReleaseOnce
  <2>3. /\ recorded[o] <= req[o].quantity /\ recorded[o] \in Nat /\ req[o].quantity \in Nat
    BY <1>1, <2>2 DEF ReleasesFit
  <2>4. \/ released' = released
        \/ /\ TracksCapital(req[o])
           /\ released' = [released EXCEPT ![o] = req[o].quantity - recorded[o]]
    BY <1>1, <2>1, <2>2, <2>3
    DEF ReleaseIfTracked, ReleaseDeployedCapital, OrderMax, riskVars
  <2>5. ReleasesFit'
    BY <1>1, <1>2, <2>1, <2>2, <2>3, <2>4 DEF ReleasesFit, Rows, TracksCapital
  <2>6. /\ todo'[s] = todo[s] \ {o} /\ syncPc'[s] \in {"idle", "apply"}
        /\ syncPc'[s] = "idle" => todo[s] = {o}
        /\ syncPc'[s] = "apply" => reply' = reply
    BY <1>1, <2>1 DEF SyncDone, SyncGoto
  <2>7. \A p \in todo[s] \ {o} : status[p] = "OPEN" /\ reply[s][p].filled <= req[p].quantity
    BY <2>1 DEF SyncsReleaseOnce
  <2> QED BY <1>2, <1>3, <1>4, <2>1, <2>5, <2>6, <2>7 DEF SyncsReleaseOnce
<1> QED BY <1>5, <1>6, <1>7 DEF SyncStep

LEMMA ReleaseStep ==
    ASSUME CapitalIsTold, TypeOK, TypeOK', NoneIsStale, InTurn, FillsHold, LockIsHeld,
           RowsHaveOneOwner, SyncsReleaseOnce, ReleasesFit, [Next]_vars
    PROVE  SyncsReleaseOnce' /\ ReleasesFit'
<1>1. /\ status \in [Ids -> Statuses] /\ released \in [Ids -> Nat]
      /\ SignalCycle \in Syncers
      /\ syncPc \in [Syncers -> {"idle", "want", "fetch", "apply", "release"}]
      /\ todo \in [Syncers -> SUBSET Ids]
  BY DEF TypeOK, TableOK, RiskOK, SyncOK, Syncers
<1>2. \A s \in Syncers : \A o \in todo[s] : Counted(o) /\ o \in Ids
  BY <1>1 DEF RowsHaveOneOwner
<1>3. ASSUME UNCHANGED <<syncPc, todo, reply, syncCur, released>>,
             \A o \in Ids : Counted(o) => /\ status'[o] = status[o] /\ req'[o] = req[o]
                                          /\ recorded'[o] = recorded[o],
             \A o \in Ids : /\ o \in Rows' => recorded'[o] <= req'[o].quantity
                            /\ o \notin Rows' => recorded'[o] = 0
      PROVE  SyncsReleaseOnce' /\ ReleasesFit'
  <2>1. SyncsReleaseOnce'
    BY <1>2, <1>3 DEF SyncsReleaseOnce
  <2>2. ReleasesFit'
    BY <1>3 DEF ReleasesFit, Counted, Dead
  <2> QED BY <2>1, <2>2
<1>4. CASE UNCHANGED <<syncPc, todo, reply, syncCur, released, status, req, recorded>>
  BY <1>3, <1>4 DEF ReleasesFit, Rows
<1>5. CASE UNCHANGED vars
  BY <1>4, <1>5 DEF vars, tableVars, riskVars, syncVars
<1>6. ASSUME NEW c \in Callers, PlaceStep(c) PROVE SyncsReleaseOnce' /\ ReleasesFit'
  BY <1>3, <1>6, PlaceLeaves DEF syncVars
<1>7. ASSUME NEW c \in Callers, NEW r \in Requests[c], PlaceOrder(c, r)
      PROVE  SyncsReleaseOnce' /\ ReleasesFit'
  BY <1>4, <1>7 DEF PlaceOrder, tableVars, riskVars, syncVars
<1>8. CASE ExpireStep
  <2>1. CASE ExpireBegin \/ ExpireVerifiedReserve \/ ExpireScan
    BY <1>4, <2>1
    DEF ExpireBegin, ExpireVerifiedReserve, ExpireScan, AddIfTracked, AddDeployedCapital,
        tableVars, riskVars, syncVars
  <2>2. ASSUME NEW o \in Ids, ExpireVerify(o) PROVE SyncsReleaseOnce' /\ ReleasesFit'
    <3>1. /\ UNCHANGED <<syncPc, todo, reply, syncCur, released, req, recorded>>
          /\ status[o] = "PENDING_VERIFICATION"
          /\ \/ status' = [status EXCEPT ![o] = "OPEN"]
             \/ status' = [status EXCEPT ![o] = "FAILED"]
             \/ status' = status
      BY <2>2 DEF ExpireVerify, SetStatus, riskVars, syncVars, RowsHaveOneOwner
    <3>2. Rows' = Rows /\ \A p \in Ids \ {o} : status'[p] = status[p]
      BY <1>1, <3>1 DEF Rows
    <3> QED BY <1>3, <3>1, <3>2 DEF Counted, Dead, ReleasesFit
  <2>3. CASE ExpireVerifyDone
    <3>1. /\ UNCHANGED <<todo, reply, syncCur, released, status, req, recorded>>
          /\ syncPc' = [syncPc EXCEPT ![SignalCycle] = "want"] /\ expPc = "verify"
      BY <2>3 DEF ExpireVerifyDone, WantSync, tableVars, riskVars
    <3>2. todo[SignalCycle] = {}
      BY <1>1, <3>1 DEF InTurn, SyncsReleaseOnce
    <3>3. ReleasesFit'
      BY <3>1 DEF ReleasesFit, Rows
    <3> QED BY <1>1, <3>1, <3>2, <3>3 DEF SyncsReleaseOnce
  <2> QED BY <1>8, <2>1, <2>2, <2>3
          DEF ExpireStep, NoneIsStale, ExpireSkip, ExpireMark, ExpireRelease,
              ExpireCancelOk, ExpireCancelFails
<1>9. CASE EnvStep
  BY <1>4, <1>9
  DEF EnvStep, Crash, BrokerLand, BrokerFill, BrokerCloses, Age, tableVars, riskVars,
      syncVars, CapitalIsTold, May
<1> QED BY <1>5, <1>6, <1>7, <1>8, <1>9, ReleaseSync DEF Next, CapitalIsTold

LEMMA ReleasedOnce ==
    ASSUME CapitalIsTold PROVE Spec => [](SyncsReleaseOnce /\ ReleasesFit)
<1>1. Init => SyncsReleaseOnce /\ ReleasesFit
  BY DEF Init, SyncsReleaseOnce, ReleasesFit, Rows
<1>2. TypeOK /\ TypeOK' /\ NoneIsStale /\ InTurn /\ FillsHold /\ LockIsHeld
        /\ RowsHaveOneOwner /\ SyncsReleaseOnce /\ ReleasesFit /\ [Next]_vars
      => SyncsReleaseOnce' /\ ReleasesFit'
  BY ReleaseStep
<1> QED BY <1>1, <1>2, TypeCorrect, CycleInTurn, FillsAreHeld, LockHeld, OneOwner, PTL
        DEF Spec

SumsTyped ==
    \A s \in Strategies : Held(s) \in [Ids -> Nat] /\ Coming(s) \in [Ids -> Nat]

LEMMA HeldTyped == ASSUME TypeOK, ReleasesFit PROVE SumsTyped
<1>1. /\ released \in [Ids -> Nat] /\ recorded \in [Ids -> Nat]
      /\ \A o \in Rows : req[o].quantity \in Nat
      /\ \A o \in Ids : Adding(o) => o \in Rows
  BY DEF TypeOK, TableOK, RiskOK, PlaceOK, ExpireOK, Request, Adding, Working
<1>2. \A o \in Ids : Counted(o) =>
          o \in Rows /\ req[o].quantity - released[o] \in Nat
  BY <1>1 DEF Counted, Dead, Rows, ReleasesFit
<1> QED BY <1>1, <1>2 DEF SumsTyped, Held, Coming

\* Each kind of step that the two sums can tell: none,
LEMMA CoveredStays ==
    ASSUME Covered, UNCHANGED deployed,
           \A o \in Ids : /\ Counted(o)' <=> Counted(o)
                          /\ Adding(o)' <=> Adding(o)
                          /\ Counted(o) \/ Adding(o) =>
                                req'[o] = req[o] /\ released'[o] = released[o]
    PROVE  Covered'
<1> SUFFICES ASSUME NEW s \in Strategies PROVE Held(s)' = Held(s) /\ Coming(s)' = Coming(s)
  BY DEF Covered
<1> QED BY DEF Held, Coming, TracksCapital

\* a row that comes to hold capital that is about to be added,
LEMMA CoveredOpens ==
    ASSUME TypeOK, ReleasesFit, SumsTyped, SumsTyped', Covered, NEW o \in Rows,
           UNCHANGED <<deployed, req, released>>,
           ~Counted(o), Counted(o)', ~Adding(o), Adding(o)',
           \A p \in Ids \ {o} : (Counted(p)' <=> Counted(p)) /\ (Adding(p)' <=> Adding(p))
    PROVE  Covered'
<1> SUFFICES ASSUME NEW s \in Strategies
             PROVE  deployed[s] + LotsIn(Coming(s)') >= LotsIn(Held(s)')
  BY DEF Covered
<1> DEFINE h == Held(s)
           c == Coming(s)
           h1 == Held(s)'
           c1 == Coming(s)'
<1>1. h \in [Ids -> Nat] /\ c \in [Ids -> Nat] /\ h1 \in [Ids -> Nat] /\ c1 \in [Ids -> Nat]
  BY DEF SumsTyped
<1>2. \A p \in Ids \ {o} : h1[p] = h[p] /\ c1[p] = c[p]
  BY DEF Held, Coming
<1>3. o \in Ids /\ released[o] = 0 /\ req[o].quantity \in Nat
  BY DEF ReleasesFit, Counted, Dead, TypeOK, TableOK, Rows, Request
<1>4. h[o] = 0 /\ c[o] = 0 /\ h1[o] = c1[o]
  BY <1>3 DEF Held, Coming
<1>5. deployed[s] \in Nat /\ deployed[s] + LotsIn(c) >= LotsIn(h)
  BY DEF Covered, TypeOK, RiskOK
<1> HIDE DEF h, c, h1, c1
<1>6. LotsIn(h1) - h1[o] = LotsIn(h) - h[o] /\ LotsIn(c1) - c1[o] = LotsIn(c) - c[o]
  BY <1>1, <1>2, LotsChange, IdsAreFinite
<1>7. LotsIn(h) \in Nat /\ LotsIn(c) \in Nat /\ LotsIn(h1) \in Nat /\ LotsIn(c1) \in Nat
  BY <1>1, LotsAreFinite, IdsAreFinite
<1>8. deployed[s] + LotsIn(c1) >= LotsIn(h1)
  BY <1>1, <1>3, <1>4, <1>5, <1>6, <1>7
<1> QED BY <1>8 DEF h1, c1

\* a call that adds the capital of its row,
LEMMA CoveredAdds ==
    ASSUME TypeOK, SumsTyped, SumsTyped', Covered, NEW o \in Rows,
           AddIfTracked(o), UNCHANGED <<status, req>>, Adding(o), ~Adding(o)',
           \A p \in Ids \ {o} : Adding(p)' <=> Adding(p)
    PROVE  Covered'
<1> SUFFICES ASSUME NEW s \in Strategies
             PROVE  deployed'[s] + LotsIn(Coming(s)') >= LotsIn(Held(s)')
  BY DEF Covered
<1> DEFINE c == Coming(s)
           c1 == Coming(s)'
<1>1. /\ o \in Ids /\ req[o].quantity \in Nat /\ deployed \in [Strategies -> Nat]
      /\ c \in [Ids -> Nat] /\ c1 \in [Ids -> Nat] /\ Held(s) \in [Ids -> Nat]
  BY DEF SumsTyped, TypeOK, TableOK, RiskOK, Rows, Request
<1>2. released' = released /\ Held(s)' = Held(s)
  <2>1. released' = released
    BY DEF AddIfTracked, AddDeployedCapital, riskVars
  <2> QED BY <2>1 DEF Held, Counted
<1>3. (\A p \in Ids \ {o} : c1[p] = c[p]) /\ c1[o] = 0
  BY <1>1 DEF Coming
<1>4. deployed'[s] = deployed[s] + c[o]
  BY <1>1 DEF AddIfTracked, AddDeployedCapital, riskVars, Coming
<1>5. deployed[s] \in Nat /\ deployed[s] + LotsIn(c) >= LotsIn(Held(s))
  BY <1>1 DEF Covered
<1> HIDE DEF c, c1
<1>6. LotsIn(c1) - c1[o] = LotsIn(c) - c[o]
  BY <1>1, <1>3, LotsChange, IdsAreFinite
<1>7. LotsIn(Held(s)) \in Nat /\ LotsIn(c) \in Nat /\ LotsIn(c1) \in Nat
  BY <1>1, LotsAreFinite, IdsAreFinite
<1>8. deployed'[s] + LotsIn(c1) >= LotsIn(Held(s))
  BY <1>1, <1>3, <1>4, <1>5, <1>6, <1>7
<1> QED BY <1>2, <1>8 DEF c1

\* and the release of what a dead row has not filled.
LEMMA CoveredReleases ==
    ASSUME TypeOK, ReleasesFit, SumsTyped, SumsTyped', Covered, NEW o \in Ids,
           status[o] \in Dead, released[o] = 0, ReleaseIfTracked(o, recorded[o], TRUE),
           UNCHANGED <<status, req>>, \A p \in Ids : Adding(p)' <=> Adding(p)
    PROVE  Covered'
<1> SUFFICES ASSUME NEW s \in Strategies
             PROVE  deployed'[s] + LotsIn(Coming(s)') >= LotsIn(Held(s)')
  BY DEF Covered
<1> DEFINE h == Held(s)
           h1 == Held(s)'
           n == OrderMax(0, req[o].quantity - recorded[o])
<1>1. /\ deployed \in [Strategies -> Nat] /\ h \in [Ids -> Nat] /\ h1 \in [Ids -> Nat]
      /\ Coming(s) \in [Ids -> Nat] /\ released \in [Ids -> Nat] /\ n \in Nat
  BY DEF SumsTyped, TypeOK, TableOK, RiskOK, Rows, Request, OrderMax, Dead
<1>2. Coming(s)' = Coming(s)
  BY DEF Coming
<1>3. deployed[s] \in Nat /\ deployed[s] + LotsIn(Coming(s)) >= LotsIn(h)
  BY <1>1 DEF Covered
<1>4. LotsIn(h) \in Nat /\ LotsIn(Coming(s)) \in Nat
  BY <1>1, LotsAreFinite, IdsAreFinite
<1>5. CASE TracksCapital(req[o]) /\ req[o].strategy = s
  <2>1. /\ deployed'[s] = OrderMax(0, deployed[s] - n)
        /\ released' = [released EXCEPT ![o] = released[o] + n]
    BY <1>1, <1>5 DEF ReleaseIfTracked, ReleaseDeployedCapital
  <2>2. \A p \in Ids \ {o} : h1[p] = h[p]
    BY <1>1, <2>1 DEF Held, Counted
  <2>3. h[o] = req[o].quantity - released[o] /\ h1[o] = req[o].quantity - (released[o] + n)
    BY <1>1, <1>5, <2>1 DEF Held, Counted
  <2>4. req[o].quantity \in Nat /\ h1[o] = h[o] - n
    BY <1>1, <2>3 DEF TypeOK, TableOK, Rows, Request, Dead
  <2> HIDE DEF h, h1, n
  <2>5. LotsIn(h1) - h1[o] = LotsIn(h) - h[o] /\ LotsIn(h1) \in Nat
    <3>1. LotsIn(h1) - h1[o] = LotsIn(h) - h[o]
      BY <1>1, <2>2, LotsChange, IdsAreFinite
    <3>2. LotsIn(h1) \in Nat
      BY <1>1, LotsAreFinite, IdsAreFinite
    <3> QED BY <3>1, <3>2
  <2>6. h[o] \in Nat /\ h1[o] \in Nat
    BY <1>1
  <2>7. LotsIn(h1) = LotsIn(h) - n
    BY <1>1, <1>4, <2>4, <2>5, <2>6
  <2>8. deployed'[s] >= deployed[s] - n
    BY <1>1, <1>3, <2>1 DEF OrderMax
  <2>9. deployed'[s] \in Nat
    BY <1>1, <1>3, <2>1 DEF OrderMax
  <2>10. deployed'[s] + LotsIn(Coming(s)) >= LotsIn(h1)
    BY <1>1, <1>3, <1>4, <2>5, <2>7, <2>8, <2>9
  <2> QED BY <1>2, <2>10 DEF h1
<1>6. CASE ~(TracksCapital(req[o]) /\ req[o].strategy = s)
  <2>1. deployed'[s] = deployed[s]
    BY <1>1, <1>6 DEF ReleaseIfTracked, ReleaseDeployedCapital, riskVars
  <2>2. h1 = h
    <3>1. \A p \in Ids \ {o} : released'[p] = released[p]
      BY <1>1 DEF ReleaseIfTracked, ReleaseDeployedCapital, riskVars
    <3> QED BY <1>6, <3>1 DEF Held, Counted
  <2> QED BY <1>2, <1>3, <2>1, <2>2
<1> QED BY <1>5, <1>6

\* Every step is one of these four.
LEMMA CoveredPlace ==
    ASSUME TypeOK, TypeOK', FillsHold, RowsHaveOneOwner, ReleasesFit, SumsTyped, SumsTyped',
           Covered, NEW c \in Callers, PlaceStep(c)
    PROVE  Covered'
<1>1. /\ status \in [Ids -> Statuses] /\ pc \in [Callers -> {"idle", "check", "create"} \cup Working]
      /\ cur \in [Callers -> Ids \cup {NoOrder}] /\ req \in [Ids -> Request \cup {NoRequest}]
      /\ \A d \in Callers : pc[d] \in Working => cur[d] \in Rows /\ cur[d] \in Ids
  BY DEF TypeOK, PlaceOK, TableOK, Rows
<1>2. UNCHANGED <<expPc, expCur>>
  BY DEF PlaceStep, PlaceCheck, PlaceRejectedByRisk, PlaceRoute, CreateRow, PlaceRefused,
         PlaceReturned, PlacePersist, PlacePersistFails, PlaceReserve, PlaceTimesOut,
         PlaceVerify, expireVars
<1>3. \A o \in Ids : Counted(o) => Counted(o)' /\ req'[o] = req[o] /\ released'[o] = released[o]
  BY PlaceLeaves DEF Counted
<1>4. CASE PlaceCheck(c) \/ PlacePersistFails(c) \/ PlaceReturned(c) \/ PlaceTimesOut(c)
  <2>1. /\ UNCHANGED <<status, cur, req, deployed, released>> /\ pc[c] # "reserve"
        /\ \E x \in {"idle", "create", "persist", "verify"} : pc' = [pc EXCEPT ![c] = x]
    BY <1>4 DEF PlaceCheck, PlacePersistFails, PlaceReturned, PlaceTimesOut, Goto,
                tableVars, riskVars
  <2>2. \A o \in Ids : Adding(o)' <=> Adding(o)
    BY <1>1, <1>2, <2>1 DEF Adding
  <2> QED BY <2>1, <2>2, CoveredStays DEF Counted
<1>5. CASE PlaceRejectedByRisk(c) \/ PlaceRoute(c)
  <2>1. PICK o \in Ids :
          /\ status[o] = "absent" /\ pc[c] = "create" /\ UNCHANGED <<deployed, released>>
          /\ req' = [req EXCEPT ![o] = arg[c]]
          /\ \/ /\ status' = [status EXCEPT ![o] = "REJECTED_BY_RISK"]
                /\ pc' = [pc EXCEPT ![c] = "idle"] /\ cur' = cur
             \/ /\ status' = [status EXCEPT ![o] = "PENDING"]
                /\ pc' = [pc EXCEPT ![c] = "broker"] /\ cur' = [cur EXCEPT ![c] = o]
    BY <1>5 DEF PlaceRejectedByRisk, PlaceRoute, CreateRow, SetStatus, Goto, riskVars
  <2>2. \A p \in Rows : p # o /\ status'[p] = status[p] /\ req'[p] = req[p]
    BY <1>1, <2>1 DEF Rows
  <2>3. \A p \in Ids : Adding(p)' <=> Adding(p)
    BY <1>1, <1>2, <2>1 DEF Adding
  <2>4. \A p \in Ids : (Counted(p)' <=> Counted(p)) /\ (Counted(p) => p \in Rows)
    BY <1>1, <2>1 DEF Counted, Dead, Rows
  <2>5. \A p \in Ids : Adding(p) => p \in Rows
    BY <1>1 DEF Adding, Working, TypeOK, ExpireOK
  <2> QED BY <2>1, <2>2, <2>3, <2>4, <2>5, CoveredStays
<1>6. CASE PlaceRefused(c) \/ PlacePersist(c) \/ PlaceVerify(c)
  <2>1. PICK x \in {"OPEN", "FAILED", "PENDING_VERIFICATION"} :
          /\ pc[c] \in AtWire /\ UNCHANGED <<cur, req, deployed, released>>
          /\ status' = [status EXCEPT ![cur[c]] = x]
          /\ pc' = [pc EXCEPT ![c] = IF x = "OPEN" THEN "reserve" ELSE "idle"]
    BY <1>6 DEF PlaceRefused, PlacePersist, PlaceVerify, SetStatus, Goto, AtWire, riskVars
  <2>2. /\ cur[c] \in Ids /\ cur[c] \in Rows /\ status[cur[c]] = "PENDING" /\ pc[c] \in Working
        /\ \A p \in Ids \ {cur[c]} : status'[p] = status[p]
        /\ ~Counted(cur[c]) /\ pc[c] # "reserve"
    BY <1>1, <2>1 DEF RowsHaveOneOwner, AtWire, Working, Counted, Dead
  <2>3. ~Adding(cur[c])
    BY <1>1, <2>2 DEF Adding, RowsHaveOneOwner, Working
  <2>4. \A p \in Ids \ {cur[c]} : (Counted(p)' <=> Counted(p)) /\ (Adding(p)' <=> Adding(p))
    BY <1>1, <1>2, <2>1, <2>2 DEF Adding, Counted
  <2>5. CASE x = "OPEN"
    <3>1. Counted(cur[c])' /\ Adding(cur[c])'
      BY <1>1, <2>1, <2>2, <2>5 DEF Counted, Adding
    <3> QED BY <2>1, <2>2, <2>3, <2>4, <3>1, CoveredOpens
  <2>6. CASE x # "OPEN"
    <3>1. ~Counted(cur[c])' /\ ~Adding(cur[c])'
      BY <1>1, <1>2, <2>1, <2>2, <2>3, <2>6 DEF Counted, Adding, Dead
    <3> QED BY <2>1, <2>2, <2>3, <2>4, <3>1, CoveredStays
  <2> QED BY <2>5, <2>6
<1>7. CASE PlaceReserve(c)
  <2>1. /\ pc[c] = "reserve" /\ AddIfTracked(cur[c]) /\ UNCHANGED <<status, req, cur>>
        /\ pc' = [pc EXCEPT ![c] = "idle"] /\ cur[c] \in Rows
    BY <1>1, <1>7 DEF PlaceReserve, Goto, tableVars, Working
  <2>2. Adding(cur[c]) /\ ~Adding(cur[c])'
    BY <1>1, <1>2, <2>1 DEF Adding, RowsHaveOneOwner, Working
  <2>3. \A p \in Ids \ {cur[c]} : Adding(p)' <=> Adding(p)
    BY <1>1, <1>2, <2>1 DEF Adding
  <2> QED BY <2>1, <2>2, <2>3, CoveredAdds
<1> QED BY <1>4, <1>5, <1>6, <1>7 DEF PlaceStep

LEMMA CoveredSync ==
    ASSUME CapitalIsTold, TypeOK, RowsHaveOneOwner, SyncsReleaseOnce, ReleasesFit, SumsTyped,
           SumsTyped', Covered, NEW s \in Syncers, SyncStep(s)
    PROVE  Covered'
<1>1. /\ status \in [Ids -> Statuses] /\ todo \in [Syncers -> SUBSET Ids]
  BY DEF TypeOK, TableOK, SyncOK
<1>2. UNCHANGED <<pc, cur, expPc, expCur, req>>
  BY DEF SyncStep, SyncNothingOpen, SyncSnapshot, SyncFetch, SyncFetchFails, SyncApply,
         SyncWrite, SyncRelease, placeVars, expireVars, tableVars
<1>3. \A o \in Ids : Adding(o)' <=> Adding(o)
  BY <1>2 DEF Adding
<1>4. CASE SyncApply(s)
  <2>1. UNCHANGED <<deployed, released>>
    BY <1>4 DEF SyncApply, riskVars
  <2>2. PICK o \in todo[s] : SyncWrite(s, o)
    BY <1>4 DEF SyncApply
  <2>3. o \in Ids /\ Counted(o)
    BY <1>1 DEF RowsHaveOneOwner
  <2>4. \A p \in Ids : Counted(p)' <=> Counted(p)
    BY <1>1, <2>2, <2>3 DEF SyncWrite, MapBrokerStatus, Counted, Dead
  <2> QED BY <1>2, <1>3, <2>1, <2>4, CoveredStays
<1>5. CASE SyncRelease(s)
  <2>1. /\ syncPc[s] = "release" /\ UNCHANGED <<status, req>>
        /\ ReleaseIfTracked(syncCur[s], recorded[syncCur[s]], TRUE)
    BY <1>5 DEF SyncRelease, ContextFound, CapitalIsTold, May, tableVars
  <2>2. syncCur[s] \in Ids /\ status[syncCur[s]] \in Dead /\ released[syncCur[s]] = 0
    BY <1>1, <2>1 DEF SyncsReleaseOnce
  <2> QED BY <1>3, <2>1, <2>2, CoveredReleases
<1>6. CASE UNCHANGED <<status, req, deployed, released>>
  BY <1>3, <1>6, CoveredStays DEF Counted
<1> QED BY <1>4, <1>5, <1>6
        DEF SyncStep, SyncNothingOpen, SyncSnapshot, SyncFetch, SyncFetchFails, tableVars,
            riskVars

LEMMA CoveredExpire ==
    ASSUME CapitalIsTold, TypeOK, NoneIsStale, RowsHaveOneOwner, ReleasesFit, SumsTyped,
           SumsTyped', Covered, ExpireStep
    PROVE  Covered'
<1>1. /\ status \in [Ids -> Statuses] /\ expTodo \subseteq Rows
      /\ \A c \in Callers : pc[c] = "reserve" => pc[c] \in Working
  BY DEF TypeOK, TableOK, ExpireOK, Working
<1>2. CASE ExpireBegin \/ ExpireVerifyDone \/ ExpireScan
  <2>1. UNCHANGED <<status, req, deployed, released, pc, cur>> /\ expPc # "reserve"
        /\ expPc' # "reserve"
    BY <1>2 DEF ExpireBegin, ExpireVerifyDone, ExpireScan, tableVars, riskVars, placeVars
  <2>2. \A o \in Ids : Adding(o)' <=> Adding(o)
    BY <2>1 DEF Adding
  <2> QED BY <2>1, <2>2, CoveredStays DEF Counted
<1>3. ASSUME NEW o \in Ids, ExpireVerify(o) PROVE Covered'
  <2>1. /\ expPc = "verify" /\ o \in expTodo /\ UNCHANGED <<pc, cur, req, deployed, released>>
        /\ status[o] = "PENDING_VERIFICATION" /\ o \in Rows
        /\ \/ status' = [status EXCEPT ![o] = "OPEN"] /\ expPc' = "reserve" /\ expCur' = o
           \/ status' = [status EXCEPT ![o] = "FAILED"] /\ expPc' = "verify"
           \/ status' = status /\ expPc' = "verify"
    BY <1>1, <1>3 DEF ExpireVerify, SetStatus, placeVars, riskVars, RowsHaveOneOwner
  <2>2. /\ \A p \in Ids \ {o} : status'[p] = status[p]
        /\ \A c \in Callers : pc[c] \in Working => cur[c] # o
        /\ ~Counted(o)
    BY <1>1, <2>1 DEF RowsHaveOneOwner, Counted, Dead, AtWire, Working
  <2>3. ~Adding(o)
    BY <1>1, <2>1, <2>2 DEF Adding
  <2>4. \A p \in Ids \ {o} : (Counted(p)' <=> Counted(p)) /\ (Adding(p)' <=> Adding(p))
    BY <2>1, <2>2 DEF Counted, Adding
  <2>5. CASE expPc' = "reserve"
    <3>1. Counted(o)' /\ Adding(o)'
      BY <1>1, <2>1, <2>5 DEF Counted, Adding
    <3> QED BY <2>1, <2>2, <2>3, <2>4, <3>1, CoveredOpens
  <2>6. CASE expPc' = "verify"
    <3>1. ~Counted(o)' /\ ~Adding(o)'
      BY <1>1, <2>1, <2>2, <2>3, <2>6 DEF Counted, Adding, Dead
    <3> QED BY <2>1, <2>2, <2>3, <2>4, <3>1, CoveredStays
  <2> QED BY <2>1, <2>5, <2>6
<1>4. CASE ExpireVerifiedReserve
  <2>1. PICK o \in Rows :
          /\ o = expCur /\ expPc = "reserve" /\ expPc' = "verify" /\ AddIfTracked(o)
          /\ UNCHANGED <<status, req, pc, cur>>
    BY <1>4 DEF ExpireVerifiedReserve, ContextFound, CapitalIsTold, May, tableVars,
                placeVars, TypeOK, ExpireOK
  <2>2. Adding(o) /\ ~Adding(o)'
    BY <1>1, <2>1 DEF Adding, RowsHaveOneOwner
  <2>3. \A p \in Ids \ {o} : Adding(p)' <=> Adding(p)
    BY <2>1 DEF Adding
  <2> QED BY <2>1, <2>2, <2>3, CoveredAdds
<1> QED BY <1>2, <1>3, <1>4
        DEF ExpireStep, NoneIsStale, ExpireSkip, ExpireMark, ExpireRelease, ExpireCancelOk,
            ExpireCancelFails

LEMMA CoveredStep ==
    ASSUME CapitalIsTold, TypeOK, TypeOK', NoneIsStale, FillsHold, RowsHaveOneOwner,
           SyncsReleaseOnce, ReleasesFit, SumsTyped, SumsTyped', Covered, [Next]_vars
    PROVE  Covered'
<1>1. CASE UNCHANGED <<status, req, deployed, released, pc, cur, expPc, expCur>>
  BY <1>1, CoveredStays DEF Counted, Adding
<1>2. CASE UNCHANGED vars
  BY <1>1, <1>2 DEF vars, tableVars, riskVars, placeVars, expireVars
<1>3. ASSUME NEW c \in Callers, NEW r \in Requests[c], PlaceOrder(c, r) PROVE Covered'
  <2>1. /\ UNCHANGED <<status, req, deployed, released, cur, expPc, expCur>>
        /\ pc[c] = "idle" /\ pc' = [pc EXCEPT ![c] = "check"]
    BY <1>3 DEF PlaceOrder, Goto, tableVars, riskVars, expireVars
  <2>2. \A o \in Ids : Adding(o)' <=> Adding(o)
    BY <2>1 DEF Adding, TypeOK, PlaceOK
  <2> QED BY <2>1, <2>2, CoveredStays DEF Counted
<1>4. CASE EnvStep
  BY <1>1, <1>4
  DEF EnvStep, Crash, BrokerLand, BrokerFill, BrokerCloses, Age, tableVars, riskVars,
      placeVars, expireVars, CapitalIsTold, May
<1> QED BY <1>2, <1>3, <1>4, CoveredPlace, CoveredSync, CoveredExpire DEF Next, CapitalIsTold

\* No lots are in numbers that are all zero.
LEMMA LotsOfNone ==
    ASSUME NEW S, NEW f \in [S -> Nat], \A x \in S : f[x] = 0
    PROVE  LotsIn(f) = 0
<1>1. UNION {{x} \X (1 .. f[x]) : x \in DOMAIN f} = {}
  OBVIOUS
<1> QED BY <1>1, FS_EmptySet DEF LotsIn

LEMMA CoveredHolds == ASSUME CapitalIsTold PROVE Spec => []Covered
<1>1. Init => Covered
  <2> SUFFICES ASSUME Init, NEW s \in Strategies
               PROVE  deployed[s] + LotsIn(Coming(s)) >= LotsIn(Held(s))
    BY DEF Covered
  <2>1. /\ Held(s) \in [Ids -> Nat] /\ \A o \in Ids : Held(s)[o] = 0
        /\ Coming(s) \in [Ids -> Nat] /\ \A o \in Ids : Coming(s)[o] = 0
    BY DEF Init, Held, Coming, Counted, Dead, Adding
  <2>2. LotsIn(Held(s)) = 0 /\ LotsIn(Coming(s)) = 0
    BY <2>1, LotsOfNone
  <2> QED BY <2>2 DEF Init
<1>2. TypeOK /\ ReleasesFit => SumsTyped
  BY HeldTyped
<1>3. TypeOK /\ TypeOK' /\ NoneIsStale /\ FillsHold /\ RowsHaveOneOwner /\ SyncsReleaseOnce
        /\ ReleasesFit /\ SumsTyped /\ SumsTyped' /\ Covered /\ [Next]_vars => Covered'
  BY CoveredStep
<1> QED BY <1>1, <1>2, <1>3, TypeCorrect, FillsAreHeld, OneOwner, ReleasedOnce, PTL DEF Spec

\* Capital is given back at most once, and validate_trade() never sees a budget freer than
\* it is: what a strategy is charged, with what a call in its bookkeeping is about to add,
\* is always as much as its rows hold.
THEOREM CapitalStaysCounted ==
    ASSUME CapitalIsTold PROVE Spec => [](ReleasedAtMostOnce /\ BudgetCoversExposure)
<1>1. TypeOK /\ ReleasesFit => ReleasedAtMostOnce
  <2> SUFFICES ASSUME TypeOK, ReleasesFit, NEW o \in Rows PROVE released[o] <= req[o].quantity
    BY DEF ReleasedAtMostOnce
  <2>1. /\ o \in Ids /\ req[o].quantity \in Nat /\ released[o] \in Nat /\ recorded[o] \in Nat
    BY DEF TypeOK, TableOK, RiskOK, Rows, Request
  <2> QED BY <2>1 DEF ReleasesFit
<1>2. TypeOK /\ NoneIsStale /\ ReleasesFit /\ SumsTyped /\ Covered => BudgetCoversExposure
  <2> SUFFICES ASSUME TypeOK, NoneIsStale, ReleasesFit, SumsTyped, Covered, Quiet,
                      NEW s \in Strategies
               PROVE  deployed[s] >= LotsIn([o \in {o \in Rows : req[o].strategy = s} |->
                                                Exposure(o)])
    BY DEF BudgetCoversExposure
  <2> DEFINE R == {o \in Rows : req[o].strategy = s}
             e == [o \in R |-> Exposure(o)]
             h == Held(s)
             c == Coming(s)
  <2>1. h \in [Ids -> Nat] /\ c \in [Ids -> Nat]
    BY DEF SumsTyped
  <2>2. \A o \in Ids : c[o] = 0
    BY DEF Quiet, Coming, Adding
  <2>3. R \subseteq Ids
    BY DEF Rows
  <2>4. ASSUME NEW o \in R PROVE e[o] \in Nat /\ e[o] <= h[o]
    <3>1. /\ o \in Ids /\ o \in Rows /\ req[o].quantity \in Nat /\ released[o] \in Nat
          /\ recorded[o] \in Nat /\ req[o].strategy = s /\ status[o] # "EXPIRED"
      BY DEF TypeOK, TableOK, RiskOK, Rows, Request, NoneIsStale
    <3>2. e[o] = Exposure(o) /\ h[o] \in Nat
      BY <2>1, <3>1
    <3>3. CASE ~TracksCapital(req[o]) \/ ~Counted(o)
      BY <3>1, <3>2, <3>3 DEF Exposure, Counted, Dead
    <3>4. CASE TracksCapital(req[o]) /\ Counted(o)
      <4>1. h[o] = req[o].quantity - released[o]
        BY <3>1, <3>4 DEF Held
      <4>2. CASE status[o] \in {"OPEN", "COMPLETED"}
        BY <3>1, <3>2, <3>4, <4>1, <4>2 DEF Exposure, ReleasesFit, Dead
      <4>3. CASE status[o] \in Dead
        BY <3>1, <3>2, <3>4, <4>1, <4>3 DEF Exposure, ReleasesFit, Dead
      <4> QED BY <3>4, <4>2, <4>3 DEF Counted
    <3> QED BY <3>3, <3>4
  <2>5. e \in [R -> Nat]
    BY <2>4
  <2>6. deployed[s] \in Nat /\ deployed[s] + LotsIn(c) >= LotsIn(h)
    BY DEF Covered, TypeOK, RiskOK
  <2> HIDE DEF h, c, e, R
  <2>7. LotsIn(c) = 0 /\ LotsIn(h) \in Nat
    BY <2>1, <2>2, LotsOfNone, LotsAreFinite, IdsAreFinite
  <2>8. LotsIn(e) \in Nat /\ LotsIn(e) <= LotsIn(h)
    BY <2>1, <2>3, <2>4, <2>5, LotsGrow, LotsAreFinite, IdsAreFinite, FS_Subset
  <2>9. deployed[s] >= LotsIn(e)
    BY <2>6, <2>7, <2>8
  <2> QED BY <2>9 DEF e, R
<1>3. TypeOK /\ ReleasesFit => SumsTyped
  BY HeldTyped
<1> QED BY <1>1, <1>2, <1>3, TypeCorrect, OneOwner, ReleasedOnce, CoveredHolds, PTL
=============================================================================
