------------------------ MODULE RouteLifecycle_proofs ------------------------
(***************************************************************************)
(* Proofs about RouteLifecycle for every number of stops, every set of     *)
(* occurrences, every set of sequences and every set of corrections.       *)
(***************************************************************************)
EXTENDS RouteLifecycle, RouteHandlers_proofs

-----------------------------------------------------------------------------
(* Type correctness                                                         *)

LEMMA TypeInit == Init => TypeOK
<1> SUFFICES ASSUME Init PROVE TypeOK
  OBVIOUS
<1>1. ASSUME NEW n \in 0..MaxStops, NEW plan \in Plans, NEW ws \in BOOLEAN
      PROVE  WellFormed(PlannedRoute(n, plan, ws))
  <2>1. NoRow \in Row
    BY DEF NoRow, NewStop, Row, StopStatuses, Tally
  <2>2. ASSUME NEW k \in StopIds PROVE NewStop(plan[k].seq, plan[k].carga, "pendente") \in Row
    <3>1. plan[k].seq \in Nat /\ plan[k].carga \in BOOLEAN
      BY SeqsAssumption DEF Plans
    <3> QED BY <3>1 DEF NewStop, Row, StopStatuses, LiveStopStatuses, Tally
  <2>3. n + 1 \in 1..(MaxStops + 1) /\ 0 \in Tally
    BY MaxStopsAssumption DEF Tally
  <2>4. PlannedRoute(n, plan, ws) \in Db
    BY <2>1, <2>2, <2>3 DEF PlannedRoute, Db, RouteStatuses, DockFields
  <2>5. Fresh(PlannedRoute(n, plan, ws))
    BY DEF PlannedRoute, Fresh, StopIds
  <2> QED BY <2>4, <2>5 DEF WellFormed
<1>2. ASSUME NEW n \in 0..MaxStops, NEW plan \in Plans
      PROVE  WellFormed(HistoricRoute(n, plan))
  <2>1. NoRow \in Row
    BY DEF NoRow, NewStop, Row, StopStatuses, Tally
  <2>2. ASSUME NEW k \in StopIds PROVE NewStop(plan[k].seq, FALSE, "entregue") \in Row
    <3>1. plan[k].seq \in Nat
      BY SeqsAssumption DEF Plans
    <3> QED BY <3>1 DEF NewStop, Row, StopStatuses, LiveStopStatuses, EndedStatuses, Tally
  <2> DEFINE p == PlannedRoute(n, plan, FALSE)
             stops == [k \in StopIds |-> IF k <= n THEN NewStop(plan[k].seq, FALSE, "entregue")
                                                   ELSE NoRow]
  <2>3. p.next = n + 1
    BY DEF PlannedRoute
  <2>7. WellFormed(p)
    <3> HIDE DEF p
    <3>1. WellFormed(PlannedRoute(n, plan, FALSE))
      BY <1>1
    <3> QED BY <3>1 DEF p
  <2>4. stops \in [StopIds -> Row]
    BY <2>1, <2>2
  <2>5. \A k \in StopIds : k >= n + 1 => stops[k] = NoRow
    <3> TAKE k \in StopIds
    <3> HAVE k >= n + 1
    <3>1. ~(k <= n)
      BY MaxStopsAssumption DEF StopIds
    <3> QED BY <3>1
  <2> HIDE DEF p, stops
  <2>6. WellFormed([p EXCEPT !.status = "finalizada", !.stops = stops])
    BY <2>3, <2>4, <2>5, <2>7 DEF WellFormed, Fresh, Db, RouteStatuses
  <2> QED BY <2>6 DEF HistoricRoute, p, stops
<1>3. WellFormed(db)
  BY <1>1, <1>2 DEF Init, InitPlanned, InitHistoric
<1>4. overrides \subseteq Interventions
  BY DEF Init, InitPlanned, InitHistoric
<1> QED BY <1>3, <1>4 DEF TypeOK, WellFormed, Fresh

LEMMA TypeStep == TypeOK /\ [Next]_vars => TypeOK'
<1> SUFFICES ASSUME TypeOK, [Next]_vars PROVE TypeOK'
  OBVIOUS
<1>0. WellFormed(db) /\ overrides \subseteq Interventions
  BY DEF TypeOK, WellFormed, Fresh
<1> SUFFICES WellFormed(db') /\ overrides' \subseteq Interventions
  BY DEF TypeOK, WellFormed, Fresh
<1>a. ASSUME NEW admin \in BOOLEAN, Planning(admin), MayPlan(db, admin)
      PROVE  overrides' \subseteq Interventions
  BY <1>0, <1>a DEF Planning, MayPlan
<1>1. ASSUME NEW s \in Nat, NEW isCarga \in BOOLEAN, NEW admin \in BOOLEAN,
             AddStop(s, isCarga, admin)
      PROVE  WellFormed(db') /\ overrides' \subseteq Interventions
  BY <1>0, <1>1, <1>a, AddStopTyped DEF AddStop, CanAddStop
<1>2. ASSUME NEW isCarga \in BOOLEAN, NEW admin \in BOOLEAN, AppendStop(isCarga, admin)
      PROVE  WellFormed(db') /\ overrides' \subseteq Interventions
  <2>1. PICK s \in {1} \cup {db.stops[k].seq + 1 : k \in StopIds} : AddStop(s, isCarga, admin)
    BY <1>2 DEF AppendStop
  <2>2. s \in Nat
    BY <1>0, <2>1 DEF WellFormed, Db, Row
  <2> QED BY <1>1, <2>1, <2>2
<1>3. ASSUME NEW k \in StopIds, NEW s \in Seqs, NEW isCarga \in BOOLEAN,
             NEW admin \in BOOLEAN, UpdateStop(k, s, isCarga, admin)
      PROVE  WellFormed(db') /\ overrides' \subseteq Interventions
  BY <1>0, <1>3, <1>a, UpdateStopTyped, SeqsAssumption DEF UpdateStop, CanUpdateStop
<1>4. ASSUME NEW k \in StopIds, NEW admin \in BOOLEAN, DeleteStop(k, admin)
      PROVE  WellFormed(db') /\ overrides' \subseteq Interventions
  BY <1>0, <1>4, <1>a, DeleteStopTyped DEF DeleteStop, CanDeleteStop
<1>o. ASSUME NEW order \in [StopIds -> StopIds], NEW admin \in BOOLEAN,
             ApplyOptimizedSequence(order, admin)
      PROVE  WellFormed(db') /\ overrides' \subseteq Interventions
  BY <1>0, <1>o, <1>a, OptimizedSequenceTyped
     DEF ApplyOptimizedSequence, CanApplyOptimizedSequence
<1>5. CASE ArriveCd \/ EnterDock \/ LoadingStart \/ LoadingFinish
  BY <1>0, <1>5, RouteColumnsTyped
     DEF ArriveCd, EnterDock, LoadingStart, LoadingFinish, DockFields
<1>6. CASE \/ UploadLoadedPhoto \/ OperatorRelease \/ DepartCd \/ ForceStart
           \/ UploadEmptyTruckPhoto \/ CloseRoute \/ ReopenRoute
  <2>1. "arrival_cd_at" \in DockFields
    BY DEF DockFields
  <2> QED BY <1>0, <1>6, <2>1, RouteColumnsTyped
          DEF UploadLoadedPhoto, OperatorRelease, DepartCd, ForceStart,
              UploadEmptyTruckPhoto, CloseRoute, ReopenRoute
<1>7. ASSUME NEW k \in StopIds,
             \/ Checkin(k)
             \/ DeliverSuccess(k)
             \/ \E file \in BOOLEAN : DeliverWithProofSuccess(k, file)
             \/ UploadWarehouseReturnProof(k)
             \/ ReplaceRequestedProof(k)
             \/ \E field \in {"proof", "returned"} : RemoveRouteProof(k, field)
      PROVE  WellFormed(db') /\ overrides' \subseteq Interventions
  <2>1. k \in Stops(db)
    BY <1>7 DEF Checkin, DeliverSuccess, DeliverWithProofSuccess, UploadWarehouseReturnProof,
                ReplaceRequestedProof, RemoveRouteProof, CanCheckin, CanDeliver,
                CanDeliverWithProof, Deliverable, CanReturnProof, CanReplaceProof,
                CanRemoveProof, Stops
  <2>2. UNCHANGED overrides
    BY <1>7 DEF Checkin, DeliverSuccess, DeliverWithProofSuccess, UploadWarehouseReturnProof,
                ReplaceRequestedProof, RemoveRouteProof
  <2>3. /\ WellFormed(AfterCheckin(db, k))
        /\ \A file \in BOOLEAN : WellFormed(AfterSuccess(db, k, file))
        /\ WellFormed(AfterReturnProof(db, k))
        /\ WellFormed(AfterReplaceProof(db, k))
        /\ \A field \in {"proof", "returned"} : WellFormed(AfterRemoveProof(db, k, field))
    BY <1>0, <2>1, RoadTyped
  <2> QED BY <1>0, <1>7, <2>2, <2>3
          DEF Checkin, DeliverSuccess, DeliverWithProofSuccess, UploadWarehouseReturnProof,
              ReplaceRequestedProof, RemoveRouteProof
<1>8. ASSUME NEW k \in StopIds, NEW o \in Occurrences,
             DeliverFailure(k, o) \/ DeliverWithProofFailure(k, o)
      PROVE  WellFormed(db') /\ overrides' \subseteq Interventions
  <2>1. k \in Stops(db)
    BY <1>8 DEF DeliverFailure, DeliverWithProofFailure, CanFail, Deliverable
  <2>2. \A file \in BOOLEAN : WellFormed(AfterFailure(db, k, file, o))
    BY <1>0, <2>1, RoadTyped
  <2> QED BY <1>0, <1>8, <2>2 DEF DeliverFailure, DeliverWithProofFailure
<1>9. ASSUME NEW o \in Occurrences, NEW st \in OccurrenceStatuses,
             \/ CreateOccurrence(o) \/ UpdateOccurrence(o, st)
             \/ MoveOccurrenceOut(o) \/ MoveOccurrenceIn(o, st)
      PROVE  WellFormed(db') /\ overrides' \subseteq Interventions
  BY <1>0, <1>9, OccurrencesTyped
     DEF CreateOccurrence, UpdateOccurrence, MoveOccurrenceOut, MoveOccurrenceIn
<1>10. ASSUME NEW c \in RouteCorrections, AdminRouteCorrection(c)
       PROVE  WellFormed(db') /\ overrides' \subseteq Interventions
  BY <1>0, <1>10, RouteCorrectionTyped, CorrectionsAssumption DEF AdminRouteCorrection
<1>11. ASSUME NEW k \in StopIds, NEW c \in StopCorrections, AdminStopCorrection(k, c)
       PROVE  WellFormed(db') /\ overrides' \subseteq Interventions
  BY <1>0, <1>11, StopCorrectionTyped, CorrectionsAssumption DEF AdminStopCorrection
<1>12. ASSUME NEW due \in BOOLEAN, NEW added \in BOOLEAN,
              NEW final \in [StopIds -> {"none", "entregue", "devolvido"}],
              TorreSync(due, final, added)
       PROVE  WellFormed(db') /\ overrides' \subseteq Interventions
  BY <1>0, <1>12, TorreSyncTyped DEF TorreSync
<1>13. ASSUME NEW plan \in [StopIds -> Seqs], NEW added \in BOOLEAN,
              NEW endsNewStops \in BOOLEAN, ImportPlan(plan, added, endsNewStops)
       PROVE  WellFormed(db') /\ overrides' \subseteq Interventions
  BY <1>0, <1>13, ImportPlanTyped, SeqsAssumption DEF ImportPlan
<1>14. CASE UNCHANGED vars
  BY <1>0, <1>14 DEF vars
<1>15. CASE Next
  <2>1. CASE \E s \in Seqs, isCarga, admin \in BOOLEAN : AddStop(s, isCarga, admin)
    <3>1. PICK s \in Seqs, isCarga \in BOOLEAN, admin \in BOOLEAN : AddStop(s, isCarga, admin)
      BY <2>1
    <3> QED BY <1>1, <3>1, SeqsAssumption
  <2>2. CASE \E isCarga, admin \in BOOLEAN : AppendStop(isCarga, admin)
    BY <1>2, <2>2
  <2>3. CASE \E k \in StopIds, s \in Seqs, isCarga, admin \in BOOLEAN : UpdateStop(k, s, isCarga, admin)
    BY <1>3, <2>3
  <2>4. CASE \E k \in StopIds, admin \in BOOLEAN : DeleteStop(k, admin)
    BY <1>4, <2>4
  <2>o. CASE \E order \in [StopIds -> StopIds], admin \in BOOLEAN : ApplyOptimizedSequence(order, admin)
    BY <1>o, <2>o
  <2>5. CASE \/ \E c \in RouteCorrections : AdminRouteCorrection(c)
             \/ \E k \in StopIds, c \in StopCorrections : AdminStopCorrection(k, c)
    BY <1>10, <1>11, <2>5
  <2>6. CASE \E due, added \in BOOLEAN, final \in [StopIds -> {"none", "entregue", "devolvido"}] :
                TorreSync(due, final, added)
    BY <1>12, <2>6
  <2>7. CASE \E plan \in [StopIds -> Seqs], added, endsNewStops \in BOOLEAN :
                ImportPlan(plan, added, endsNewStops)
    BY <1>13, <2>7
  <2>8. CASE \E k \in StopIds :
                \/ Checkin(k)
                \/ DeliverSuccess(k)
                \/ \E file \in BOOLEAN : DeliverWithProofSuccess(k, file)
                \/ UploadWarehouseReturnProof(k)
                \/ ReplaceRequestedProof(k)
                \/ \E field \in {"proof", "returned"} : RemoveRouteProof(k, field)
    BY <1>7, <2>8
  <2>9. CASE \E k \in StopIds, o \in Occurrences :
                DeliverFailure(k, o) \/ DeliverWithProofFailure(k, o)
    BY <1>8, <2>9
  <2>10. CASE \/ \E o \in Occurrences : CreateOccurrence(o) \/ MoveOccurrenceOut(o)
              \/ \E o \in Occurrences, st \in OccurrenceStatuses :
                    UpdateOccurrence(o, st) \/ MoveOccurrenceIn(o, st)
    <3>1. "aberta" \in OccurrenceStatuses
      BY DEF OccurrenceStatuses, OpenOccurrenceStatuses
    <3> QED BY <1>9, <2>10, <3>1
  <2> QED BY <1>5, <1>6, <1>15, <2>1, <2>2, <2>3, <2>4, <2>o, <2>5, <2>6, <2>7, <2>8, <2>9, <2>10
          DEF Next
<1> QED BY <1>14, <1>15

\* The rows keep their types through every handler, correction,
\* synchronisation and import (TypeOK).
THEOREM TypeCorrect == Spec => []TypeOK
BY TypeInit, TypeStep, PTL DEF Spec

-----------------------------------------------------------------------------
(* The promises of the operational handlers, for every instance: what a    *)
(* route's rows say as long as no correction, synchronisation or import    *)
(* into a moving route has overwritten them.  They hold together or not at *)
(* all, so one inductive invariant, Sound, carries them: the stops' rows   *)
(* (StopsSound) and the route's own columns (RouteSound).                  *)

\* The columns and the events of one stop tell one story.  NoRow does, too.
RowSound(r) ==
    /\ r.status \in {"pendente", "em_rota"} => ~r.delivered /\ ~r.reason /\ r.outcomes = 0
    /\ r.status = "pendente" => ~r.checkin
    /\ r.status = "entregue" => r.delivered /\ r.checkin /\ ~r.reason /\ r.outcomes = 1
    /\ r.status = "falha" => /\ ~r.delivered /\ r.checkin /\ r.reason
                             /\ r.outcomes >= IF r.returned THEN 2 ELSE 1
    /\ r.status # "devolvido"
    /\ r.returned => r.status = "falha"
    /\ r.arrivals = IF r.checkin THEN 1 ELSE 0

StopsSound(d) ==
    /\ \A k \in StopIds : RowSound(d.stops[k])
    /\ \A k \in StopIds : Travelling(d, k) => FirstOpen(d, k)

Waiting(r) == r.status = "pendente" /\ ~Eventful(r)

\* Before the departure every stop waits; the departure shows in the status.
DepartureSound(d) ==
    /\ ~Departed(d) => \A k \in Stops(d) : Waiting(d.stops[k])
    /\ Departed(d) <=> d.departed
    /\ Departed(d) => d.status \in {"em_rota", "em_carregamento", "finalizada"}
    /\ ~Departed(d) => d.status \in {"planejada", "em_carregamento"}

ClosingSound(d) ==
    /\ d.status = "finalizada" => Departed(d) /\ AllStopsClosed(d) /\ d.emptyPhoto
    /\ d.closings = IF d.status = "finalizada" THEN 1 ELSE 0

DockSound(d) ==
    /\ "dock_entry_at" \in d.dock => "arrival_cd_at" \in d.dock
    /\ "loading_started_at" \in d.dock => "dock_entry_at" \in d.dock
    /\ "loading_finished_at" \in d.dock => "loading_started_at" \in d.dock
    /\ "operator_released_at" \in d.dock => "arrival_cd_at" \in d.dock
    /\ "operator_released_at" \in d.dock <=> "departure_cd_at" \in d.dock

Operational(d) ==
    WellFormed(d) /\ StopsSound(d) /\ DepartureSound(d) /\ ClosingSound(d) /\ DockSound(d)

Sound == TypeOK /\ (Untouched => Operational(db))

-----------------------------------------------------------------------------
(* Rows                                                                     *)

OpenRow(r) == r.status \in {"pendente", "em_rota"}

\* Every way the handlers write an open stop keeps its story.
LEMMA OpenRowsSound ==
    ASSUME NEW r \in Row, RowSound(r), OpenRow(r)
    PROVE  /\ r.status = "pendente" => RowSound(Promoted(r))
           /\ ~r.checkin => RowSound(CheckedIn(r))
           /\ ~r.checkin => RowSound([r EXCEPT !.status = "pendente"])
           /\ \A file \in BOOLEAN : /\ RowSound(Succeeded(EnsureStopCheckin(r), file))
                                    /\ RowSound(Failed(EnsureStopCheckin(r), file))
<1>1. r.status = "pendente" => RowSound(Promoted(r))
  BY DEF Promoted, RowSound, Row
<1>2. ~r.checkin => RowSound(CheckedIn(r))
  BY DEF CheckedIn, RowSound, OpenRow, Row, Tick
<1>3. ~r.checkin => RowSound([r EXCEPT !.status = "pendente"])
  BY DEF RowSound, OpenRow, Row
<1> DEFINE q == EnsureStopCheckin(r)
<1>4. q \in Row
  BY RowTyped
<1>5. q.checkin /\ q.outcomes = 0 /\ ~q.delivered /\ ~q.reason /\ q.arrivals = 1
  BY DEF EnsureStopCheckin, RowSound, OpenRow, Row, Tick
<1>6. ~q.returned
  BY DEF EnsureStopCheckin, RowSound, OpenRow, Row
<1> HIDE DEF q
<1>7. ASSUME NEW file \in BOOLEAN PROVE RowSound(Succeeded(q, file))
  BY <1>4, <1>5, <1>6 DEF Succeeded, RowSound, Row, Tick
<1>8. ASSUME NEW file \in BOOLEAN PROVE RowSound(Failed(q, file))
  BY <1>4, <1>5, <1>6 DEF Failed, RowSound, Row, Tick
<1> QED BY <1>1, <1>2, <1>3, <1>7, <1>8 DEF q

\* Proofs that come and go do not touch the story.
LEMMA ProofRowsSound ==
    ASSUME NEW r \in Row, RowSound(r)
    PROVE  /\ r.status = "falha" =>
                RowSound([r EXCEPT !.returned = TRUE, !.outcomes = Tick(r.outcomes)])
           /\ RowSound([r EXCEPT !.proof = TRUE])
           /\ RowSound([r EXCEPT !.proof = FALSE])
           /\ RowSound([r EXCEPT !.returned = FALSE])
<1>1. r.status = "falha" => RowSound([r EXCEPT !.returned = TRUE, !.outcomes = Tick(r.outcomes)])
  BY DEF RowSound, Row, Tick, Tally
<1>2. RowSound([r EXCEPT !.proof = TRUE]) /\ RowSound([r EXCEPT !.proof = FALSE])
  BY DEF RowSound, Row
<1>3. RowSound([r EXCEPT !.returned = FALSE])
  BY DEF RowSound, Row, Tally
<1> QED BY <1>1, <1>2, <1>3

\* A stop still being planned has no story.
LEMMA PlannedRowsSound ==
    ASSUME NEW s \in Nat, NEW isCarga \in BOOLEAN
    PROVE  /\ RowSound(NewStop(s, isCarga, "pendente")) /\ Waiting(NewStop(s, isCarga, "pendente"))
           /\ RowSound(NoRow)
           /\ \A r \in Row : RowSound(r) /\ Waiting(r) =>
                 /\ RowSound([r EXCEPT !.seq = s]) /\ Waiting([r EXCEPT !.seq = s])
                 /\ RowSound([r EXCEPT !.seq = s, !.carga = isCarga])
                 /\ Waiting([r EXCEPT !.seq = s, !.carga = isCarga])
<1>1. RowSound(NewStop(s, isCarga, "pendente")) /\ Waiting(NewStop(s, isCarga, "pendente"))
  BY DEF RowSound, Waiting, Eventful, NewStop
<1>2. RowSound(NoRow)
  BY DEF RowSound, NoRow, NewStop
<1>3. ASSUME NEW r \in Row, RowSound(r), Waiting(r)
      PROVE  /\ RowSound([r EXCEPT !.seq = s]) /\ Waiting([r EXCEPT !.seq = s])
             /\ RowSound([r EXCEPT !.seq = s, !.carga = isCarga])
             /\ Waiting([r EXCEPT !.seq = s, !.carga = isCarga])
  BY <1>3 DEF RowSound, Waiting, Eventful, Row
<1> QED BY <1>1, <1>2, <1>3

-----------------------------------------------------------------------------
(* The stops of a route                                                     *)

\* Fewer open stops in the same order: the first is first among them, too.
LEMMA StillFirst ==
    ASSUME NEW d, NEW e, OpenStops(e) \subseteq OpenStops(d),
           \A j \in OpenStops(e) : e.stops[j].seq = d.stops[j].seq,
           NEW k \in OpenStops(e), FirstOpen(d, k)
    PROVE  FirstOpen(e, k)
BY DEF FirstOpen, Before

\* Routes whose stops all wait have nothing on the road.
LEMMA WaitingStopsSound ==
    ASSUME NEW d, \A k \in StopIds : RowSound(d.stops[k]),
           \A k \in Stops(d) : Waiting(d.stops[k])
    PROVE  StopsSound(d)
BY DEF StopsSound, Travelling, Waiting, Stops

\* A handler that writes one stop, its order kept, may send the vehicle to it
\* only if it is the first open one, and may not reopen it.
LEMMA StopWritten ==
    ASSUME NEW d, WellFormed(d), StopsSound(d), NEW k \in Stops(d),
           NEW r \in Row, RowSound(r), r.status # "none", r.seq = d.stops[k].seq,
           OpenRow(r) => k \in OpenStops(d),
           r.status = "em_rota" /\ ~r.checkin => FirstOpen(d, k)
    PROVE  /\ StopsSound(WithStop(d, k, r))
           /\ Stops(WithStop(d, k, r)) = Stops(d)
           /\ OpenStops(WithStop(d, k, r)) \subseteq OpenStops(d)
<1> DEFINE e == WithStop(d, k, r)
<1>1. k \in StopIds
  BY DEF Stops
<1>2. \A j \in StopIds : e.stops[j] = IF j = k THEN r ELSE d.stops[j]
  BY <1>1 DEF WithStop, WellFormed, Db
<1> HIDE DEF e
<1>3. Stops(e) = Stops(d)
  BY <1>2 DEF Stops
<1>4. r.status \notin EndedStatuses => OpenRow(r)
  BY DEF OpenRow, EndedStatuses, Row, StopStatuses, LiveStopStatuses
<1>5. OpenStops(e) \subseteq OpenStops(d)
  BY <1>1, <1>2, <1>3, <1>4 DEF OpenStops, Stops
<1>6. \A j \in OpenStops(e) : e.stops[j].seq = d.stops[j].seq
  BY <1>2 DEF OpenStops, Stops
<1>7. ASSUME NEW j \in StopIds, Travelling(e, j) PROVE FirstOpen(e, j)
  <2>1. j \in OpenStops(e)
    BY <1>7 DEF Travelling, OpenStops, Stops, EndedStatuses
  <2>2. FirstOpen(d, j)
    BY <1>2, <1>7 DEF Travelling, StopsSound
  <2> QED BY <1>5, <1>6, <2>1, <2>2, StillFirst
<1>8. \A j \in StopIds : RowSound(e.stops[j])
  BY <1>2 DEF StopsSound
<1> QED BY <1>3, <1>5, <1>7, <1>8 DEF StopsSound, e

\* The promotion sends the vehicle to the first open stop and no other.
LEMMA StartNextStopTravelSound ==
    ASSUME NEW d, WellFormed(d), StopsSound(d)
    PROVE  /\ StopsSound(StartNextStopTravel(d))
           /\ Stops(StartNextStopTravel(d)) = Stops(d)
           /\ OpenStops(StartNextStopTravel(d)) = OpenStops(d)
<1> DEFINE e == StartNextStopTravel(d)
           chosen(k) == ~Halted(d) /\ FirstOpen(d, k) /\ d.stops[k].status = "pendente"
<1>1. \A j \in StopIds : e.stops[j] = IF chosen(j) THEN Promoted(d.stops[j]) ELSE d.stops[j]
  BY DEF StartNextStopTravel, WellFormed, Db
<1>2. \A j \in StopIds : d.stops[j] \in Row
  BY DEF WellFormed, Db
<1>3. \A j \in StopIds : /\ Promoted(d.stops[j]).status = "em_rota"
                          /\ Promoted(d.stops[j]).seq = d.stops[j].seq
                          /\ Promoted(d.stops[j]).checkin = d.stops[j].checkin
  BY <1>2 DEF Promoted, Row
<1>4. \A j \in StopIds : chosen(j) => d.stops[j].status = "pendente"
  OBVIOUS
<1>5. \A j \in StopIds : chosen(j) => FirstOpen(d, j)
  OBVIOUS
<1> HIDE DEF e, chosen
<1>6. Stops(e) = Stops(d)
  BY <1>1, <1>3, <1>4 DEF Stops
<1>7. OpenStops(e) = OpenStops(d)
  BY <1>1, <1>3, <1>4, <1>6 DEF OpenStops, Stops, EndedStatuses
<1>8. \A j \in OpenStops(e) : e.stops[j].seq = d.stops[j].seq
  BY <1>1, <1>3 DEF OpenStops, Stops
<1>9. ASSUME NEW j \in StopIds, Travelling(e, j) PROVE FirstOpen(e, j)
  <2>1. j \in OpenStops(e)
    BY <1>9 DEF Travelling, OpenStops, Stops, EndedStatuses
  <2>2. CASE chosen(j)
    BY <1>5, <1>7, <1>8, <2>1, <2>2, StillFirst
  <2>3. CASE ~chosen(j)
    <3>1. Travelling(d, j)
      BY <1>1, <1>9, <2>3 DEF Travelling
    <3>2. FirstOpen(d, j)
      BY <3>1 DEF StopsSound
    <3> QED BY <1>7, <1>8, <2>1, <3>2, StillFirst
  <2> QED BY <2>2, <2>3
<1>10. ASSUME NEW j \in StopIds PROVE RowSound(e.stops[j])
  <2>1. RowSound(d.stops[j])
    BY DEF StopsSound
  <2>2. chosen(j) => RowSound(Promoted(d.stops[j]))
    BY <1>2, <1>4, <2>1, OpenRowsSound DEF OpenRow
  <2> QED BY <1>1, <2>1, <2>2
<1> QED BY <1>6, <1>7, <1>9, <1>10 DEF StopsSound, e

-----------------------------------------------------------------------------
(* The handlers                                                             *)

\* Only the stops or the occurrences change.
RouteColumnsKept(d, e) ==
    /\ e.dock = d.dock
    /\ e.departed = d.departed
    /\ e.status = d.status
    /\ e.emptyPhoto = d.emptyPhoto
    /\ e.closings = d.closings

\* What the stops owe the route: to wait for the departure, and not to reopen
\* under a finished route.
LEMMA OperationalKept ==
    ASSUME NEW d, Operational(d), NEW e, WellFormed(e), StopsSound(e), RouteColumnsKept(d, e),
           ~Departed(d) => \A k \in Stops(e) : Waiting(e.stops[k]),
           d.status = "finalizada" => OpenStops(e) \subseteq OpenStops(d)
    PROVE  Operational(e)
<1>1. DepartureSound(e)
  BY DEF Operational, RouteColumnsKept, DepartureSound, Departed
<1>2. ClosingSound(e)
  BY DEF Operational, RouteColumnsKept, ClosingSound, Departed, AllStopsClosed
<1>3. DockSound(e)
  BY DEF Operational, RouteColumnsKept, DockSound
<1> QED BY <1>1, <1>2, <1>3 DEF Operational

\* What is said of the stops does not depend on anything else.
LEMMA SameStops ==
    ASSUME NEW d, NEW e, e.stops = d.stops
    PROVE  /\ Stops(e) = Stops(d)
           /\ OpenStops(e) = OpenStops(d)
           /\ StopsSound(d) => StopsSound(e)
BY DEF Stops, OpenStops, StopsSound, Travelling, FirstOpen, Before

\* A planned route has not left, and its stops wait.
LEMMA PlannedWaits ==
    ASSUME NEW d, Operational(d), d.status = "planejada"
    PROVE  ~Departed(d) /\ \A k \in Stops(d) : Waiting(d.stops[k])
BY DEF Operational, DepartureSound

\* Planning a route that has not left: any stops that wait will do.
LEMMA PlanningKept ==
    ASSUME NEW d, Operational(d), d.status = "planejada", NEW e, WellFormed(e),
           RouteColumnsKept(d, e),
           \A k \in StopIds : RowSound(e.stops[k]),
           \A k \in Stops(e) : Waiting(e.stops[k])
    PROVE  Operational(e)
<1>1. StopsSound(e)
  BY WaitingStopsSound
<1> QED BY <1>1, OperationalKept

LEMMA PlanningSound ==
    ASSUME NEW d, Operational(d), d.status = "planejada"
    PROVE  /\ \A s \in Nat, isCarga, admin \in BOOLEAN :
                CanAddStop(d, admin) => Operational(AfterAddStop(d, s, isCarga))
           /\ \A k \in StopIds, s \in Nat, isCarga, admin \in BOOLEAN :
                CanUpdateStop(d, k, admin) => Operational(AfterUpdateStop(d, k, s, isCarga))
           /\ \A k \in StopIds, admin \in BOOLEAN :
                CanDeleteStop(d, k, admin) => Operational(AfterDeleteStop(d, k))
           /\ \A order \in [StopIds -> StopIds] :
                Operational(AfterApplyOptimizedSequence(d, order))
<1>0. WellFormed(d) /\ d \in Db /\ \A k \in StopIds : d.stops[k] \in Row /\ RowSound(d.stops[k])
  BY DEF Operational, WellFormed, Db, StopsSound
<1>w. \A k \in Stops(d) : Waiting(d.stops[k])
  BY PlannedWaits
<1>1. ASSUME NEW s \in Nat, NEW isCarga \in BOOLEAN, NEW admin \in BOOLEAN, CanAddStop(d, admin)
      PROVE  Operational(AfterAddStop(d, s, isCarga))
  <2> DEFINE r == NewStop(s, isCarga, "pendente")
             e == AfterAddStop(d, s, isCarga)
  <2>1. RouteColumnsKept(d, e) /\ \A j \in StopIds : e.stops[j] = IF j = d.next THEN r ELSE d.stops[j]
    BY <1>0 DEF AfterAddStop, WithStop, RouteColumnsKept, Db
  <2>2. WellFormed(e)
    BY <1>0, <1>1, AddStopTyped
  <2>3. RowSound(r) /\ Waiting(r)
    BY PlannedRowsSound
  <2> HIDE DEF e, r
  <2>4. \A j \in StopIds : RowSound(e.stops[j])
    BY <1>0, <2>1, <2>3
  <2>5. \A j \in Stops(e) : Waiting(e.stops[j])
    BY <1>w, <2>1, <2>3 DEF Stops
  <2>6. Operational(e)
    BY <2>1, <2>2, <2>4, <2>5, PlanningKept
  <2> QED BY <2>6 DEF e
<1>2. ASSUME NEW k \in StopIds, NEW s \in Nat, NEW isCarga \in BOOLEAN, NEW admin \in BOOLEAN,
             CanUpdateStop(d, k, admin)
      PROVE  Operational(AfterUpdateStop(d, k, s, isCarga))
  <2> DEFINE r == [d.stops[k] EXCEPT !.seq = s, !.carga = isCarga]
             e == AfterUpdateStop(d, k, s, isCarga)
  <2>0. k \in Stops(d)
    BY <1>2 DEF CanUpdateStop
  <2>1. RouteColumnsKept(d, e) /\ \A j \in StopIds : e.stops[j] = IF j = k THEN r ELSE d.stops[j]
    BY <1>0 DEF AfterUpdateStop, WithStop, RouteColumnsKept, Db
  <2>2. WellFormed(e)
    BY <1>0, <2>0, UpdateStopTyped
  <2>3. RowSound(r) /\ Waiting(r)
    <3>1. d.stops[k] \in Row /\ RowSound(d.stops[k]) /\ Waiting(d.stops[k])
      BY <1>0, <1>w, <2>0
    <3> QED BY <3>1, PlannedRowsSound
  <2> HIDE DEF e, r
  <2>4. \A j \in StopIds : RowSound(e.stops[j])
    BY <1>0, <2>1, <2>3
  <2>5. \A j \in Stops(e) : Waiting(e.stops[j])
    BY <1>w, <2>1, <2>3 DEF Stops
  <2>6. Operational(e)
    BY <2>1, <2>2, <2>4, <2>5, PlanningKept
  <2> QED BY <2>6 DEF e
<1>3. ASSUME NEW k \in StopIds, NEW admin \in BOOLEAN, CanDeleteStop(d, k, admin)
      PROVE  Operational(AfterDeleteStop(d, k))
  <2> DEFINE e == AfterDeleteStop(d, k)
  <2>1. RouteColumnsKept(d, e) /\ \A j \in StopIds : e.stops[j] = IF j = k THEN NoRow ELSE d.stops[j]
    BY <1>0 DEF AfterDeleteStop, WithStop, RouteColumnsKept, Db
  <2>2. WellFormed(e)
    BY <1>0, <1>3, DeleteStopTyped DEF CanDeleteStop
  <2>3. RowSound(NoRow) /\ NoRow.status = "none"
    BY DEF RowSound, NoRow, NewStop
  <2> HIDE DEF e
  <2>4. \A j \in StopIds : RowSound(e.stops[j])
    BY <1>0, <2>1, <2>3
  <2>5. \A j \in Stops(e) : Waiting(e.stops[j])
    BY <1>w, <2>1, <2>3 DEF Stops
  <2>6. Operational(e)
    BY <2>1, <2>2, <2>4, <2>5, PlanningKept
  <2> QED BY <2>6 DEF e
<1>4. ASSUME NEW order \in [StopIds -> StopIds]
      PROVE  Operational(AfterApplyOptimizedSequence(d, order))
  <2> DEFINE r(j) == [d.stops[j] EXCEPT !.seq = order[j]]
             e == AfterApplyOptimizedSequence(d, order)
  <2>1. /\ RouteColumnsKept(d, e)
        /\ \A j \in StopIds : e.stops[j] = IF j \in Stops(d) THEN r(j) ELSE d.stops[j]
    BY <1>0 DEF AfterApplyOptimizedSequence, RouteColumnsKept, Db
  <2>2. WellFormed(e)
    BY <1>0, OptimizedSequenceTyped
  <2>3. ASSUME NEW j \in Stops(d) PROVE RowSound(r(j)) /\ Waiting(r(j))
    <3>1. d.stops[j] \in Row /\ RowSound(d.stops[j]) /\ Waiting(d.stops[j]) /\ order[j] \in Nat
      BY <1>0, <1>w, MaxStopsAssumption DEF Stops, StopIds
    <3> QED BY <3>1, PlannedRowsSound
  <2> HIDE DEF e, r
  <2>4. \A j \in StopIds : RowSound(e.stops[j])
    BY <1>0, <2>1, <2>3
  <2>5. \A j \in Stops(e) : Waiting(e.stops[j])
    BY <1>w, <2>1, <2>3 DEF Stops
  <2>6. Operational(e)
    BY <2>1, <2>2, <2>4, <2>5, PlanningKept
  <2> QED BY <2>6 DEF e
<1> QED BY <1>1, <1>2, <1>3, <1>4

\* The promotion writes nothing but stops.
LEMMA StartNextStopTravelColumns ==
    ASSUME NEW d, WellFormed(d)
    PROVE  RouteColumnsKept(d, StartNextStopTravel(d))
BY DEF StartNextStopTravel, RouteColumnsKept, WellFormed, Db

\* The three ways out of the distribution centre: the dock session is complete
\* enough, the route is em_rota, and the vehicle sets out for the first stop.
LEMMA LeavingSound ==
    ASSUME NEW d, Operational(d), NEW e, WellFormed(e), e.stops = d.stops,
           DockSound(e), Departed(e), e.departed, e.status = "em_rota",
           e.closings = 0
    PROVE  Operational(StartNextStopTravel(e))
<1>1. StopsSound(e)
  BY SameStops DEF Operational
<1>2. Operational(e)
  BY <1>1 DEF Operational, DepartureSound, ClosingSound
<1>3. StopsSound(StartNextStopTravel(e)) /\ OpenStops(StartNextStopTravel(e)) = OpenStops(e)
  BY <1>1, StartNextStopTravelSound
<1>4. WellFormed(StartNextStopTravel(e)) /\ RouteColumnsKept(e, StartNextStopTravel(e))
  BY StartNextStopTravelTyped, StartNextStopTravelColumns
<1> QED BY <1>2, <1>3, <1>4, OperationalKept

LEMMA DockStepsSound ==
    ASSUME NEW d, Operational(d)
    PROVE  /\ \A field \in DockFields \ {"operator_released_at", "departure_cd_at"} :
                CanSetDockTime(d, field) => Operational(AfterSetDockTime(d, field))
           /\ CanRelease(d) => Operational(AfterRelease(d))
           /\ CanDepart(d) => Operational(AfterDepart(d))
           /\ CanForceStart(d) => Operational(AfterForceStart(d))
<1>0. WellFormed(d) /\ d \in Db /\ d.dock \subseteq DockFields
  BY DEF Operational, WellFormed, Db
<1>c. Editable(d) => d.closings = 0
  BY DEF Operational, ClosingSound, Editable, CLOSED_STATES
<1>1. ASSUME NEW field \in DockFields \ {"operator_released_at", "departure_cd_at"},
             CanSetDockTime(d, field)
      PROVE  Operational(AfterSetDockTime(d, field))
  <2> DEFINE e == AfterSetDockTime(d, field)
  <2>1. /\ e.stops = d.stops /\ e.dock = d.dock \cup {field}
        /\ e.departed = d.departed /\ e.closings = d.closings
        /\ e.status = IF field = "dock_entry_at" THEN "em_carregamento" ELSE d.status
    BY <1>0 DEF AfterSetDockTime, Db
  <2>2. WellFormed(e)
    BY <1>0, RouteColumnsTyped
  <2> HIDE DEF e
  <2>3. Departed(e) <=> Departed(d)
    BY <2>1 DEF Departed
  <2>4. StopsSound(e) /\ Stops(e) = Stops(d)
    BY <2>1, SameStops DEF Operational
  <2>5. DepartureSound(e)
    BY <2>1, <2>3, <2>4 DEF Operational, DepartureSound
  <2>6. e.status # "finalizada" /\ e.closings = 0
    BY <1>1, <1>c, <2>1 DEF CanSetDockTime, Editable, CLOSED_STATES
  <2>7. DOCK_FLOW[field] \subseteq d.dock
    BY <1>1 DEF CanSetDockTime
  <2>8. /\ field = "dock_entry_at" => "arrival_cd_at" \in d.dock
        /\ field = "loading_started_at" => "dock_entry_at" \in d.dock
        /\ field = "loading_finished_at" => "loading_started_at" \in d.dock
    BY <2>7 DEF DOCK_FLOW, DockFields
  <2>9. DockSound(e)
    BY <2>1, <2>8 DEF Operational, DockSound, DockFields
  <2>10. Operational(e)
    BY <2>2, <2>4, <2>5, <2>6, <2>9 DEF Operational, ClosingSound
  <2> QED BY <2>10 DEF e
<1>2. ASSUME CanRelease(d) PROVE Operational(AfterRelease(d))
  <2> DEFINE e == [d EXCEPT !.dock = @ \cup {"operator_released_at", "departure_cd_at"},
                            !.departed = TRUE, !.status = "em_rota"]
  <2>1. /\ e.stops = d.stops /\ e.dock = d.dock \cup {"operator_released_at", "departure_cd_at"}
        /\ e.departed /\ e.closings = d.closings /\ e.status = "em_rota"
    BY <1>0 DEF Db
  <2>2. WellFormed(e)
    BY <1>0 DEF WellFormed, Fresh, Db, RouteStatuses, DockFields
  <2> HIDE DEF e
  <2>3. DockSound(e)
    BY <1>2, <2>1 DEF CanRelease, Operational, DockSound
  <2>4. Operational(StartNextStopTravel(e))
    BY <1>2, <1>c, <2>1, <2>2, <2>3, LeavingSound DEF CanRelease, Departed
  <2> QED BY <2>4 DEF AfterRelease, e
<1>3. ASSUME CanDepart(d) PROVE Operational(AfterDepart(d))
  <2>1. DOCK_FLOW["departure_cd_at"] \subseteq d.dock /\ "departure_cd_at" \notin d.dock
    BY <1>3 DEF CanDepart, CanSetDockTime
  <2>2. "operator_released_at" \in d.dock
    BY <2>1 DEF DOCK_FLOW, DockFields
  \* Only a correction separates the release from the departure.
  <2>3. FALSE
    BY <2>1, <2>2 DEF Operational, DockSound
  <2> QED BY <2>3
<1>4. ASSUME CanForceStart(d) PROVE Operational(AfterForceStart(d))
  <2> DEFINE e == [d EXCEPT !.session = TRUE, !.dock = DockFields, !.departed = TRUE,
                            !.status = "em_rota"]
  <2>1. /\ e.stops = d.stops /\ e.dock = DockFields
        /\ e.departed /\ e.closings = d.closings /\ e.status = "em_rota"
    BY <1>0 DEF Db
  <2>2. WellFormed(e)
    BY <1>0 DEF WellFormed, Fresh, Db, RouteStatuses
  <2> HIDE DEF e
  <2>3. DockSound(e) /\ Departed(e)
    BY <2>1 DEF DockSound, DockFields, Departed
  <2>4. Operational(StartNextStopTravel(e))
    BY <1>4, <1>c, <2>1, <2>2, <2>3, LeavingSound DEF CanForceStart
  <2> QED BY <2>4 DEF AfterForceStart, e
<1> QED BY <1>1, <1>2, <1>3, <1>4

\* The photos, the close and the reopening.
LEMMA ClosingStepsSound ==
    ASSUME NEW d, Operational(d)
    PROVE  /\ Operational(AfterLoadedPhoto(d))
           /\ Operational(AfterEmptyPhoto(d))
           /\ CanClose(d) => Operational(AfterClose(d))
           /\ CanReopen(d) => Operational(AfterReopen(d))
<1>0. WellFormed(d) /\ d \in Db /\ d.status \in RouteStatuses
  BY DEF Operational, WellFormed, Db
<1>t. /\ WellFormed(AfterLoadedPhoto(d)) /\ WellFormed(AfterEmptyPhoto(d))
      /\ WellFormed(AfterClose(d)) /\ WellFormed(AfterReopen(d))
  <2>1. "arrival_cd_at" \in DockFields
    BY DEF DockFields
  <2> QED BY <1>0, <2>1, RouteColumnsTyped
<1>1. Operational(AfterLoadedPhoto(d))
  <2> DEFINE e == AfterLoadedPhoto(d)
  <2>1. e.stops = d.stops /\ RouteColumnsKept(d, e)
    BY <1>0 DEF AfterLoadedPhoto, RouteColumnsKept, Db
  <2> HIDE DEF e
  <2>2. StopsSound(e) /\ Stops(e) = Stops(d) /\ OpenStops(e) = OpenStops(d)
    BY <2>1, SameStops DEF Operational
  <2>3. ~Departed(d) => \A k \in Stops(e) : Waiting(e.stops[k])
    BY <2>1, <2>2 DEF Operational, DepartureSound
  <2>4. WellFormed(e)
    BY <1>t DEF e
  <2>5. Operational(e)
    BY <2>1, <2>2, <2>3, <2>4, OperationalKept
  <2> QED BY <2>5 DEF e
<1>2. Operational(AfterEmptyPhoto(d))
  <2> DEFINE e == AfterEmptyPhoto(d)
  <2>1. /\ e.stops = d.stops /\ e.dock = d.dock /\ e.departed = d.departed
        /\ e.status = d.status /\ e.closings = d.closings /\ e.emptyPhoto
    BY <1>0 DEF AfterEmptyPhoto, Db
  <2>2. WellFormed(e)
    BY <1>t
  <2> HIDE DEF e
  <2>3. StopsSound(e) /\ Stops(e) = Stops(d) /\ OpenStops(e) = OpenStops(d)
    BY <2>1, SameStops DEF Operational
  <2>4. DepartureSound(e) /\ ClosingSound(e) /\ DockSound(e)
    BY <2>1, <2>3 DEF Operational, DepartureSound, ClosingSound, DockSound, Departed, AllStopsClosed
  <2>5. Operational(e)
    BY <2>2, <2>3, <2>4 DEF Operational
  <2> QED BY <2>5 DEF e
<1>3. ASSUME CanClose(d) PROVE Operational(AfterClose(d))
  <2> DEFINE e == AfterClose(d)
  <2>0. d.closings = 0
    BY <1>3 DEF CanClose, Operational, ClosingSound, Editable, CLOSED_STATES
  <2>1. /\ e.stops = d.stops /\ e.dock = d.dock /\ e.departed = d.departed
        /\ e.status = "finalizada" /\ e.closings = 1 /\ e.emptyPhoto = d.emptyPhoto
    BY <1>0, <2>0 DEF AfterClose, Tick, Db
  <2>2. WellFormed(e)
    BY <1>t
  <2> HIDE DEF e
  <2>3. StopsSound(e) /\ Stops(e) = Stops(d) /\ OpenStops(e) = OpenStops(d)
    BY <2>1, SameStops DEF Operational
  <2>4. DepartureSound(e) /\ ClosingSound(e) /\ DockSound(e)
    BY <1>3, <2>1, <2>3
       DEF CanClose, Operational, DepartureSound, ClosingSound, DockSound, Departed, AllStopsClosed
  <2>5. Operational(e)
    BY <2>2, <2>3, <2>4 DEF Operational
  <2> QED BY <2>5 DEF e
\* Only finished routes are closed here, and they have left: they go back to
\* em_rota.
<1>4. ASSUME CanReopen(d) PROVE Operational(AfterReopen(d))
  <2> DEFINE e == AfterReopen(d)
  <2>0. d.status = "finalizada" /\ Departed(d) /\ d.departed
    BY <1>4 DEF CanReopen, Editable, CLOSED_STATES, Operational, DepartureSound
  <2>1. /\ e.stops = d.stops /\ e.dock = d.dock /\ e.departed = d.departed
        /\ e.status = "em_rota" /\ e.closings = 0
    BY <1>0, <2>0 DEF AfterReopen, Db
  <2>2. WellFormed(e)
    BY <1>t
  <2> HIDE DEF e
  <2>3. StopsSound(e)
    BY <2>1, SameStops DEF Operational
  <2>4. DepartureSound(e) /\ ClosingSound(e) /\ DockSound(e)
    BY <2>0, <2>1 DEF Operational, DepartureSound, ClosingSound, DockSound, Departed
  <2>5. Operational(e)
    BY <2>2, <2>3, <2>4 DEF Operational
  <2> QED BY <2>5 DEF e
<1> QED BY <1>1, <1>2, <1>3, <1>4

\* A handler that writes one stop of a route that has left.
LEMMA StopWrittenOnRoad ==
    ASSUME NEW d, Operational(d), Departed(d), NEW k \in Stops(d),
           NEW r \in Row, RowSound(r), r.status # "none", r.seq = d.stops[k].seq,
           OpenRow(r) => k \in OpenStops(d),
           r.status = "em_rota" => r.checkin
    PROVE  Operational(WithStop(d, k, r))
<1> DEFINE e == WithStop(d, k, r)
<1>0. WellFormed(d) /\ StopsSound(d) /\ d \in Db
  BY DEF Operational, WellFormed
<1>1. StopsSound(e) /\ OpenStops(e) \subseteq OpenStops(d)
  BY <1>0, StopWritten
<1>2. WellFormed(e)
  BY <1>0, StopTyped
<1>3. RouteColumnsKept(d, e)
  BY <1>0 DEF WithStop, RouteColumnsKept, Db
<1> HIDE DEF e
<1>4. Operational(e)
  BY <1>1, <1>2, <1>3, OperationalKept
<1> QED BY <1>4 DEF e

\* An ended stop lets the next one be promoted, unless an occurrence is open.
LEMMA PromotionOnRoad ==
    ASSUME NEW d, Operational(d), Departed(d)
    PROVE  Operational(StartNextStopTravel(d))
<1>1. WellFormed(d) /\ StopsSound(d)
  BY DEF Operational
<1>2. StopsSound(StartNextStopTravel(d)) /\ OpenStops(StartNextStopTravel(d)) = OpenStops(d)
  BY <1>1, StartNextStopTravelSound
<1>3. WellFormed(StartNextStopTravel(d)) /\ RouteColumnsKept(d, StartNextStopTravel(d))
  BY <1>1, StartNextStopTravelTyped, StartNextStopTravelColumns
<1> QED BY <1>2, <1>3, OperationalKept

\* Occurrences are not among the columns the promises are about.
LEMMA OccurrenceColumnSound ==
    ASSUME NEW d, Operational(d), NEW o \in Occurrences, NEW st \in OccurrenceStatuses \cup {"none"}
    PROVE  Operational([d EXCEPT !.occ[o] = st])
<1> DEFINE e == [d EXCEPT !.occ[o] = st]
<1>0. d \in Db
  BY DEF Operational, WellFormed
<1>1. e.stops = d.stops /\ RouteColumnsKept(d, e)
  BY <1>0 DEF RouteColumnsKept, Db
<1>2. WellFormed(e)
  BY DEF Operational, WellFormed, Fresh, Db
<1> HIDE DEF e
<1>3. StopsSound(e) /\ Stops(e) = Stops(d) /\ OpenStops(e) = OpenStops(d)
  BY <1>1, SameStops DEF Operational
<1>4. ~Departed(d) => \A k \in Stops(e) : Waiting(e.stops[k])
  BY <1>1, <1>3 DEF Operational, DepartureSound
<1>5. Operational(e)
  BY <1>1, <1>2, <1>3, <1>4, OperationalKept
<1> QED BY <1>5 DEF e

LEMMA RoadSound ==
    ASSUME NEW d, Operational(d), NEW k \in StopIds
    PROVE  /\ CanCheckin(d, k) => Operational(AfterCheckin(d, k))
           /\ Deliverable(d, k) => \A file \in BOOLEAN :
                /\ Operational(AfterSuccess(d, k, file))
                /\ \A o \in Occurrences : Operational(AfterFailure(d, k, file, o))
           /\ CanReturnProof(d, k) => Operational(AfterReturnProof(d, k))
           /\ CanReplaceProof(d, k) => Operational(AfterReplaceProof(d, k))
           /\ \A field \in {"proof", "returned"} :
                CanRemoveProof(d, k, field) => Operational(AfterRemoveProof(d, k, field))
<1> DEFINE r == d.stops[k]
<1>0. d \in Db /\ StopsSound(d) /\ r \in Row /\ RowSound(r)
  BY DEF Operational, WellFormed, Db, StopsSound
<1>e. r.status \in {"pendente", "em_rota"} \/ r.status \in {"none", "entregue", "falha"}
  BY <1>0 DEF RowSound, Row, StopStatuses, LiveStopStatuses, EndedStatuses
<1>o. k \in Stops(d) /\ OpenRow(r) => k \in OpenStops(d)
  BY DEF OpenStops, OpenRow, EndedStatuses
\* The arrival is missing only where no outcome is.
<1>1. ASSUME CanCheckin(d, k) PROVE Operational(AfterCheckin(d, k))
  <2>1. k \in Stops(d) /\ Departed(d) /\ ~r.checkin /\ r.status # "none"
    BY <1>1 DEF CanCheckin, Stops
  <2>2. OpenRow(r)
    BY <1>0, <1>e, <2>1 DEF RowSound, OpenRow
  <2>3. CheckedIn(r) \in Row /\ RowSound(CheckedIn(r))
    BY <1>0, <2>1, <2>2, RowTyped, OpenRowsSound
  <2>4. CheckedIn(r).status = "em_rota" /\ CheckedIn(r).checkin /\ CheckedIn(r).seq = r.seq
    BY <1>0 DEF CheckedIn, Row
  <2> HIDE DEF r
  <2>5. Operational(WithStop(d, k, CheckedIn(r)))
    BY <1>o, <2>1, <2>2, <2>3, <2>4, StopWrittenOnRoad DEF r
  <2> QED BY <2>5 DEF AfterCheckin, r
<1>2. ASSUME Deliverable(d, k), NEW file \in BOOLEAN
      PROVE  /\ Operational(AfterSuccess(d, k, file))
             /\ \A o \in Occurrences : Operational(AfterFailure(d, k, file, o))
  <2>1. k \in Stops(d) /\ Departed(d) /\ OpenRow(r)
    BY <1>2, <1>e DEF Deliverable, OpenRow, Stops
  <2> DEFINE s == Succeeded(EnsureStopCheckin(r), file)
             f == Failed(EnsureStopCheckin(r), file)
  <2>2. EnsureStopCheckin(r) \in Row /\ EnsureStopCheckin(r).seq = r.seq
    <3>1. EnsureStopCheckin(r) \in Row
      BY <1>0, RowTyped
    <3>2. EnsureStopCheckin(r).seq = r.seq
      BY <1>0 DEF EnsureStopCheckin, Row
    <3> QED BY <3>1, <3>2
  <2>3. s \in Row /\ f \in Row
    BY <2>2, RowTyped
  <2>4. RowSound(s) /\ RowSound(f)
    BY <1>0, <2>1, OpenRowsSound
  <2>5. s.status = "entregue" /\ f.status = "falha" /\ s.seq = r.seq /\ f.seq = r.seq
    BY <2>2 DEF Succeeded, Failed, Row
  <2> HIDE DEF s, f, r
  <2>6. Operational(WithStop(d, k, s)) /\ Operational(WithStop(d, k, f))
    BY <2>1, <2>3, <2>4, <2>5, StopWrittenOnRoad DEF OpenRow, r
  <2>7. WithStop(d, k, s).dock = d.dock /\ WithStop(d, k, f).dock = d.dock
    BY <1>0 DEF WithStop, Db
  <2>8. Operational(StartNextStopTravel(WithStop(d, k, s)))
    BY <2>1, <2>6, <2>7, PromotionOnRoad DEF Departed
  <2>9. ASSUME NEW o \in Occurrences PROVE Operational(AfterFailure(d, k, file, o))
    <3> DEFINE w == WithStop(d, k, f)
               e == [w EXCEPT !.occ[o] = "aberta"]
    <3>1. Operational(w) /\ w \in Db /\ Departed(w)
      BY <2>1, <2>6, <2>7 DEF Operational, WellFormed, Departed
    <3>2. AfterFailure(d, k, file, o) = StartNextStopTravel(e)
      BY DEF AfterFailure, f, r
    <3> HIDE DEF w
    <3>3. Operational(e)
      BY <3>1, OccurrenceColumnSound DEF OccurrenceStatuses, OpenOccurrenceStatuses
    <3>4. Departed(e)
      BY <3>1 DEF Departed, Db
    <3> HIDE DEF e
    <3>5. Operational(StartNextStopTravel(e))
      BY <3>3, <3>4, PromotionOnRoad
    <3> QED BY <3>2, <3>5
  <2> QED BY <2>8, <2>9 DEF AfterSuccess, s, r
<1>p. ASSUME k \in Stops(d), NEW q \in Row, RowSound(q), q.status = r.status,
             q.seq = r.seq, q.checkin = r.checkin, Waiting(r) => Waiting(q)
      PROVE  Operational(WithStop(d, k, q))
  <2> DEFINE e == WithStop(d, k, q)
  <2>1. /\ RouteColumnsKept(d, e) /\ WellFormed(e)
        /\ \A j \in StopIds : e.stops[j] = IF j = k THEN q ELSE d.stops[j]
    <3>1. WellFormed(e)
      BY <1>p, StopTyped DEF Operational
    <3> QED BY <1>0, <3>1 DEF WithStop, RouteColumnsKept, Db
  <2>2. q.status # "none" /\ (OpenRow(q) => k \in OpenStops(d))
    BY <1>o, <1>p DEF Stops, OpenRow
  <2>3. q.status = "em_rota" /\ ~q.checkin => FirstOpen(d, k)
    BY <1>0, <1>p DEF StopsSound, Travelling
  <2>4. WellFormed(d)
    BY DEF Operational
  <2>5. StopsSound(e) /\ Stops(e) = Stops(d) /\ OpenStops(e) \subseteq OpenStops(d)
    <3> HIDE DEF r
    <3> QED BY <1>0, <1>p, <2>2, <2>3, <2>4, StopWritten DEF r
  <2> HIDE DEF e
  <2>6. ~Departed(d) => \A j \in Stops(e) : Waiting(e.stops[j])
    BY <1>p, <2>1, <2>5 DEF Operational, DepartureSound, Stops
  <2>7. Operational(e)
    BY <2>1, <2>5, <2>6, OperationalKept
  <2> QED BY <2>7 DEF e
<1>3. ASSUME CanReturnProof(d, k) PROVE Operational(AfterReturnProof(d, k))
  <2> DEFINE q == [r EXCEPT !.returned = TRUE, !.outcomes = Tick(r.outcomes)]
  <2>1. k \in Stops(d) /\ r.status = "falha"
    BY <1>3 DEF CanReturnProof, Stops
  <2>t. Tick(r.outcomes) \in Tally
    BY DEF Tick, Tally
  <2>2. q \in Row /\ q.status = r.status /\ q.seq = r.seq /\ q.checkin = r.checkin
    BY <1>0, <2>t DEF Row
  <2>w. ~Waiting(r)
    BY <2>1 DEF Waiting
  <2>3. RowSound(q)
    BY <1>0, <2>1, ProofRowsSound
  <2> HIDE DEF q
  <2>4. Operational(WithStop(d, k, q))
    BY <1>p, <2>1, <2>2, <2>3, <2>w
  <2> QED BY <2>4 DEF AfterReturnProof, q
<1>4. ASSUME CanReplaceProof(d, k) PROVE Operational(AfterReplaceProof(d, k))
  <2> DEFINE q == [r EXCEPT !.proof = TRUE]
  <2>1. k \in Stops(d)
    BY <1>4 DEF CanReplaceProof, Stops
  <2>2. q \in Row /\ q.status = r.status /\ q.seq = r.seq /\ q.checkin = r.checkin
    BY <1>0 DEF Row
  <2>w. Waiting(r) => Waiting(q)
    BY <1>0 DEF Waiting, Eventful, Row
  <2>3. RowSound(q)
    BY <1>0, ProofRowsSound
  <2> HIDE DEF q
  <2>4. Operational(WithStop(d, k, q))
    BY <1>p, <2>1, <2>2, <2>3, <2>w
  <2> QED BY <2>4 DEF AfterReplaceProof, q
<1>5. ASSUME NEW field \in {"proof", "returned"}, CanRemoveProof(d, k, field)
      PROVE  Operational(AfterRemoveProof(d, k, field))
  <2>1. k \in Stops(d)
    BY <1>5 DEF CanRemoveProof
  <2>2. CASE field = "proof"
    <3> DEFINE p == [r EXCEPT !.proof = FALSE]
    <3>1. p \in Row /\ p.status = r.status /\ p.seq = r.seq /\ p.checkin = r.checkin
      BY <1>0 DEF Row
    <3>2. (Waiting(r) => Waiting(p)) /\ RowSound(p)
      BY <1>0, ProofRowsSound DEF Waiting, Eventful, Row
    <3> HIDE DEF p
    <3>3. Operational(WithStop(d, k, p))
      BY <1>p, <2>1, <3>1, <3>2
    <3> QED BY <2>2, <3>3 DEF AfterRemoveProof, p
  <2>3. CASE field = "returned"
    <3> DEFINE p == [r EXCEPT !.returned = FALSE]
    <3>1. p \in Row /\ p.status = r.status /\ p.seq = r.seq /\ p.checkin = r.checkin
      BY <1>0 DEF Row
    <3>2. (Waiting(r) => Waiting(p)) /\ RowSound(p)
      BY <1>0, ProofRowsSound DEF Waiting, Eventful, Row
    <3> HIDE DEF p
    <3>3. Operational(WithStop(d, k, p))
      BY <1>p, <2>1, <3>1, <3>2
    <3> QED BY <2>3, <3>3 DEF AfterRemoveProof, p
  <2> QED BY <2>2, <2>3
<1> QED BY <1>1, <1>2, <1>3, <1>4, <1>5

\* An occurrence takes back the leg it interrupts, which has no story yet.
LEMMA OccurrencesSound ==
    ASSUME NEW d, Operational(d), NEW o \in Occurrences, NEW st \in OccurrenceStatuses
    PROVE  /\ Operational(AfterCreateOccurrence(d, o))
           /\ Operational(AfterUpdateOccurrence(d, o, st))
           /\ Operational(AfterMoveOccurrenceOut(d, o))
           /\ Operational(AfterMoveOccurrenceIn(d, o, st))
<1>0. d \in Db /\ WellFormed(d) /\ StopsSound(d) /\ \A j \in StopIds : d.stops[j] \in Row
  BY DEF Operational, WellFormed, Db
<1>1. Operational(AfterCreateOccurrence(d, o))
  <2> DEFINE back(j) == [d.stops[j] EXCEPT !.status = "pendente"]
             e == AfterCreateOccurrence(d, o)
  <2>1. \A j \in StopIds : e.stops[j] = IF Travelling(d, j) THEN back(j) ELSE d.stops[j]
    BY <1>0 DEF AfterCreateOccurrence, Db
  <2>2. RouteColumnsKept(d, e)
    BY <1>0 DEF AfterCreateOccurrence, RouteColumnsKept, Db
  <2>3. WellFormed(e)
    BY <1>0, OccurrencesTyped
  <2>4. \A j \in StopIds : back(j).status = "pendente" /\ back(j).seq = d.stops[j].seq
    BY <1>0 DEF Row
  <2>5. \A j \in StopIds : Travelling(d, j) => RowSound(back(j))
    <3> TAKE j \in StopIds
    <3> HAVE Travelling(d, j)
    <3>1. OpenRow(d.stops[j]) /\ ~d.stops[j].checkin /\ RowSound(d.stops[j]) /\ d.stops[j] \in Row
      BY <1>0 DEF Travelling, OpenRow, StopsSound
    <3> QED BY <3>1, OpenRowsSound
  <2> HIDE DEF e, back
  <2>6. \A j \in StopIds : ~Travelling(e, j)
    BY <2>1, <2>4 DEF Travelling
  <2>7. Stops(e) = Stops(d) /\ OpenStops(e) = OpenStops(d)
    BY <2>1, <2>4 DEF Stops, OpenStops, EndedStatuses, Travelling
  <2>8. StopsSound(e)
    BY <1>0, <2>1, <2>5, <2>6 DEF StopsSound
  <2>9. ~Departed(d) => \A j \in Stops(e) : Waiting(e.stops[j])
    BY <2>1, <2>7 DEF Operational, DepartureSound, Waiting, Travelling, Stops
  <2>10. Operational(e)
    BY <2>2, <2>3, <2>7, <2>8, <2>9, OperationalKept
  <2> QED BY <2>10 DEF e
<1>2. Operational(AfterUpdateOccurrence(d, o, st)) /\ Operational(AfterMoveOccurrenceIn(d, o, st))
  BY OccurrenceColumnSound DEF AfterUpdateOccurrence, AfterMoveOccurrenceIn
<1>3. Operational(AfterMoveOccurrenceOut(d, o))
  BY OccurrenceColumnSound DEF AfterMoveOccurrenceOut
<1> QED BY <1>1, <1>2, <1>3

\* Into a planned route an import only plans.
LEMMA ImportSound ==
    ASSUME NEW d, Operational(d), d.status = "planejada", NEW plan \in [StopIds -> Seqs],
           NEW added \in BOOLEAN, NEW endsNewStops \in BOOLEAN, CanImportPlan(d, added)
    PROVE  Operational(AfterImportPlan(d, plan, added, endsNewStops))
<1> DEFINE r(j) == [d.stops[j] EXCEPT !.seq = plan[j]]
           n(j) == NewStop(plan[j], FALSE, "pendente")
           e == AfterImportPlan(d, plan, added, endsNewStops)
<1>0. d \in Db /\ WellFormed(d) /\ \A j \in StopIds : d.stops[j] \in Row /\ RowSound(d.stops[j])
  BY DEF Operational, WellFormed, Db, StopsSound
<1>1. RouteColumnsKept(d, e)
  BY <1>0 DEF AfterImportPlan, RouteColumnsKept, Db
<1>2. \A j \in StopIds : e.stops[j] = IF j \in Stops(d) THEN r(j)
                                      ELSE IF added /\ j = d.next THEN n(j) ELSE d.stops[j]
  BY <1>0 DEF AfterImportPlan, Db
<1>3. WellFormed(e)
  BY <1>0, ImportPlanTyped, SeqsAssumption
<1>4. ASSUME NEW j \in StopIds
      PROVE  /\ RowSound(n(j)) /\ Waiting(n(j))
             /\ j \in Stops(d) => RowSound(r(j)) /\ Waiting(r(j))
  <2>1. plan[j] \in Nat /\ FALSE \in BOOLEAN
    BY SeqsAssumption
  <2>2. d.stops[j] \in Row /\ RowSound(d.stops[j])
    BY <1>0
  <2>3. j \in Stops(d) => Waiting(d.stops[j])
    BY PlannedWaits
  <2> QED BY <2>1, <2>2, <2>3, PlannedRowsSound
<1> HIDE DEF e, r, n
<1>5. \A j \in StopIds : RowSound(e.stops[j])
  BY <1>0, <1>2, <1>4
<1>6. \A j \in Stops(e) : Waiting(e.stops[j])
  BY <1>2, <1>4 DEF Stops
<1>7. Operational(e)
  BY <1>1, <1>3, <1>5, <1>6, PlanningKept
<1> QED BY <1>7 DEF e

-----------------------------------------------------------------------------
(* The specification                                                        *)

LEMMA SoundInit == Init => Sound
<1> SUFFICES ASSUME Init PROVE Sound
  OBVIOUS
<1>0. TypeOK
  BY TypeInit
<1> SUFFICES ASSUME Untouched PROVE Operational(db)
  BY <1>0 DEF Sound
<1>1. PICK n \in 0..MaxStops, plan \in Plans, ws \in BOOLEAN : db = PlannedRoute(n, plan, ws)
  BY DEF Init, InitPlanned, InitHistoric, Untouched
<1>2. WellFormed(db)
  BY <1>0 DEF TypeOK, WellFormed, Fresh
<1>3. /\ db.dock = {} /\ ~db.departed /\ db.status = "planejada" /\ db.closings = 0
      /\ \A k \in StopIds : \/ db.stops[k] = NewStop(plan[k].seq, plan[k].carga, "pendente")
                            \/ db.stops[k] = NoRow
  BY <1>1 DEF PlannedRoute
<1>r. ASSUME NEW k \in StopIds
      PROVE  LET r == NewStop(plan[k].seq, plan[k].carga, "pendente") IN RowSound(r) /\ Waiting(r)
  <2>1. plan[k].seq \in Nat /\ plan[k].carga \in BOOLEAN
    BY SeqsAssumption DEF Plans
  <2> QED BY <2>1, PlannedRowsSound
<1>e. RowSound(NoRow) /\ NoRow.status = "none"
  BY DEF RowSound, NoRow, NewStop
<1>4. \A k \in StopIds : RowSound(db.stops[k])
  BY <1>3, <1>r, <1>e
<1>5. \A k \in Stops(db) : Waiting(db.stops[k])
  BY <1>3, <1>r, <1>e DEF Stops
<1>6. StopsSound(db)
  BY <1>4, <1>5, WaitingStopsSound
<1> QED BY <1>2, <1>3, <1>5, <1>6
        DEF Operational, DepartureSound, ClosingSound, DockSound, Departed

LEMMA SoundStep == Sound /\ [Next]_vars => Sound'
<1> SUFFICES ASSUME Sound, [Next]_vars PROVE Sound'
  OBVIOUS
<1>0. TypeOK'
  BY TypeStep DEF Sound
<1> SUFFICES ASSUME overrides' = {} PROVE Operational(db')
  BY <1>0 DEF Sound, Untouched, Operational, WellFormed, Fresh, StopsSound, DepartureSound,
              ClosingSound, DockSound, Departed, Stops, OpenStops, AllStopsClosed, Travelling,
              FirstOpen, Before
<1>u. UNCHANGED overrides => Operational(db)
  BY DEF Sound, Untouched
<1>p. ASSUME NEW admin \in BOOLEAN, Planning(admin)
      PROVE  Operational(db) /\ db.status = "planejada"
  BY <1>p DEF Planning, Sound, Untouched
<1>n. Operational(db) => \A k \in StopIds : db.stops[k].seq \in Nat
  BY DEF Operational, WellFormed, Db, Row
<1>1. ASSUME NEW s \in Nat, NEW isCarga \in BOOLEAN, NEW admin \in BOOLEAN,
             AddStop(s, isCarga, admin)
      PROVE  Operational(db')
  BY <1>1, <1>p, PlanningSound DEF AddStop
<1>2. ASSUME NEW isCarga \in BOOLEAN, NEW admin \in BOOLEAN, AppendStop(isCarga, admin)
      PROVE  Operational(db')
  <2>1. PICK s \in {1} \cup {db.stops[k].seq + 1 : k \in StopIds} : AddStop(s, isCarga, admin)
    BY <1>2 DEF AppendStop
  <2>2. Operational(db)
    BY <1>p, <2>1 DEF AddStop
  <2>3. s \in Nat
    BY <1>n, <2>1, <2>2
  <2> QED BY <1>1, <2>1, <2>3
<1>3. ASSUME NEW k \in StopIds, NEW s \in Seqs, NEW isCarga \in BOOLEAN,
             NEW admin \in BOOLEAN, UpdateStop(k, s, isCarga, admin)
      PROVE  Operational(db')
  BY <1>3, <1>p, PlanningSound, SeqsAssumption DEF UpdateStop
<1>4. ASSUME NEW k \in StopIds, NEW admin \in BOOLEAN, DeleteStop(k, admin)
      PROVE  Operational(db')
  BY <1>4, <1>p, PlanningSound DEF DeleteStop
<1>5. ASSUME NEW order \in [StopIds -> StopIds], NEW admin \in BOOLEAN,
             ApplyOptimizedSequence(order, admin)
      PROVE  Operational(db')
  BY <1>5, <1>p, PlanningSound DEF ApplyOptimizedSequence
<1>6. CASE \/ ArriveCd \/ EnterDock \/ LoadingStart \/ LoadingFinish
           \/ OperatorRelease \/ DepartCd \/ ForceStart
  <2>1. Operational(db)
    BY <1>6, <1>u DEF ArriveCd, EnterDock, LoadingStart, LoadingFinish,
                      OperatorRelease, DepartCd, ForceStart
  <2>2. {"arrival_cd_at", "dock_entry_at", "loading_started_at", "loading_finished_at"}
            \subseteq DockFields \ {"operator_released_at", "departure_cd_at"}
    BY DEF DockFields
  <2> QED BY <1>6, <2>1, <2>2, DockStepsSound
          DEF ArriveCd, EnterDock, LoadingStart, LoadingFinish, OperatorRelease, DepartCd, ForceStart
<1>7. CASE UploadLoadedPhoto \/ UploadEmptyTruckPhoto \/ CloseRoute \/ ReopenRoute
  <2>1. Operational(db)
    BY <1>7, <1>u DEF UploadLoadedPhoto, UploadEmptyTruckPhoto, CloseRoute, ReopenRoute
  <2> QED BY <1>7, <2>1, ClosingStepsSound
          DEF UploadLoadedPhoto, UploadEmptyTruckPhoto, CloseRoute, ReopenRoute
<1>8. ASSUME NEW k \in StopIds,
             \/ Checkin(k)
             \/ DeliverSuccess(k)
             \/ \E file \in BOOLEAN : DeliverWithProofSuccess(k, file)
             \/ UploadWarehouseReturnProof(k)
             \/ ReplaceRequestedProof(k)
             \/ \E field \in {"proof", "returned"} : RemoveRouteProof(k, field)
      PROVE  Operational(db')
  <2>1. Operational(db)
    BY <1>8, <1>u DEF Checkin, DeliverSuccess, DeliverWithProofSuccess,
                      UploadWarehouseReturnProof, ReplaceRequestedProof, RemoveRouteProof
  <2>2. CASE Checkin(k) \/ UploadWarehouseReturnProof(k) \/ ReplaceRequestedProof(k)
    BY <2>1, <2>2, RoadSound DEF Checkin, UploadWarehouseReturnProof, ReplaceRequestedProof
  <2>3. CASE DeliverSuccess(k) \/ \E file \in BOOLEAN : DeliverWithProofSuccess(k, file)
    <3>1. Deliverable(db, k)
      BY <2>3 DEF DeliverSuccess, DeliverWithProofSuccess, CanDeliver, CanDeliverWithProof
    <3>2. \A file \in BOOLEAN : Operational(AfterSuccess(db, k, file))
      BY <2>1, <3>1, RoadSound
    <3> QED BY <2>3, <3>2 DEF DeliverSuccess, DeliverWithProofSuccess
  <2>4. CASE \E field \in {"proof", "returned"} : RemoveRouteProof(k, field)
    BY <2>1, <2>4, RoadSound DEF RemoveRouteProof
  <2> QED BY <1>8, <2>2, <2>3, <2>4
<1>9. ASSUME NEW k \in StopIds, NEW o \in Occurrences,
             DeliverFailure(k, o) \/ DeliverWithProofFailure(k, o)
      PROVE  Operational(db')
  <2>1. Operational(db) /\ Deliverable(db, k)
    BY <1>9, <1>u DEF DeliverFailure, DeliverWithProofFailure, CanFail
  <2>2. \A file \in BOOLEAN : Operational(AfterFailure(db, k, file, o))
    BY <2>1, RoadSound
  <2> QED BY <1>9, <2>2 DEF DeliverFailure, DeliverWithProofFailure
<1>10. ASSUME NEW o \in Occurrences, NEW st \in OccurrenceStatuses,
              \/ CreateOccurrence(o) \/ UpdateOccurrence(o, st)
              \/ MoveOccurrenceOut(o) \/ MoveOccurrenceIn(o, st)
       PROVE  Operational(db')
  <2>1. Operational(db)
    BY <1>10, <1>u DEF CreateOccurrence, UpdateOccurrence, MoveOccurrenceOut, MoveOccurrenceIn
  <2> QED BY <1>10, <2>1, OccurrencesSound
          DEF CreateOccurrence, UpdateOccurrence, MoveOccurrenceOut, MoveOccurrenceIn
\* Corrections and the synchronisation are on record: nothing is promised then.
<1>11. CASE \/ \E c \in RouteCorrections : AdminRouteCorrection(c)
            \/ \E k \in StopIds, c \in StopCorrections : AdminStopCorrection(k, c)
            \/ \E due, added \in BOOLEAN, final \in [StopIds -> {"none", "entregue", "devolvido"}] :
                  TorreSync(due, final, added)
  BY <1>11 DEF AdminRouteCorrection, AdminStopCorrection, TorreSync
<1>12. ASSUME NEW plan \in [StopIds -> Seqs], NEW added \in BOOLEAN,
              NEW endsNewStops \in BOOLEAN, ImportPlan(plan, added, endsNewStops)
       PROVE  Operational(db')
  <2>1. Operational(db) /\ db.status = "planejada"
    BY <1>12 DEF ImportPlan, Sound, Untouched
  <2> QED BY <1>12, <2>1, ImportSound DEF ImportPlan
<1>13. CASE UNCHANGED vars
  BY <1>13, <1>u DEF vars
<1>14. CASE Next
  <2>1. CASE \E s \in Seqs, isCarga, admin \in BOOLEAN : AddStop(s, isCarga, admin)
    <3>1. PICK s \in Seqs, isCarga \in BOOLEAN, admin \in BOOLEAN : AddStop(s, isCarga, admin)
      BY <2>1
    <3> QED BY <1>1, <3>1, SeqsAssumption
  <2>2. CASE \/ \E isCarga, admin \in BOOLEAN : AppendStop(isCarga, admin)
             \/ \E k \in StopIds, admin \in BOOLEAN : DeleteStop(k, admin)
    BY <1>2, <1>4, <2>2
  <2>3. CASE \E k \in StopIds, s \in Seqs, isCarga, admin \in BOOLEAN : UpdateStop(k, s, isCarga, admin)
    BY <1>3, <2>3
  <2>4. CASE \E order \in [StopIds -> StopIds], admin \in BOOLEAN : ApplyOptimizedSequence(order, admin)
    BY <1>5, <2>4
  <2>5. CASE \E plan \in [StopIds -> Seqs], added, endsNewStops \in BOOLEAN :
                ImportPlan(plan, added, endsNewStops)
    BY <1>12, <2>5
  <2>6. CASE \E k \in StopIds :
                \/ Checkin(k)
                \/ DeliverSuccess(k)
                \/ \E file \in BOOLEAN : DeliverWithProofSuccess(k, file)
                \/ UploadWarehouseReturnProof(k)
                \/ ReplaceRequestedProof(k)
                \/ \E field \in {"proof", "returned"} : RemoveRouteProof(k, field)
    BY <1>8, <2>6
  <2>7. CASE \E k \in StopIds, o \in Occurrences :
                DeliverFailure(k, o) \/ DeliverWithProofFailure(k, o)
    BY <1>9, <2>7
  <2>8. CASE \/ \E o \in Occurrences : CreateOccurrence(o) \/ MoveOccurrenceOut(o)
             \/ \E o \in Occurrences, st \in OccurrenceStatuses :
                   UpdateOccurrence(o, st) \/ MoveOccurrenceIn(o, st)
    <3>1. "aberta" \in OccurrenceStatuses
      BY DEF OccurrenceStatuses, OpenOccurrenceStatuses
    <3> QED BY <1>10, <2>8, <3>1
  <2> QED BY <1>6, <1>7, <1>11, <1>14, <2>1, <2>2, <2>3, <2>4, <2>5, <2>6, <2>7, <2>8 DEF Next
<1> QED BY <1>13, <1>14

LEMMA SoundAlways == Spec => []Sound
BY SoundInit, SoundStep, PTL DEF Spec

\* The vehicle travels to the first open stop and to no other, for every plan.
THEOREM TravelFollowsPlanAlways == Spec => []TravelFollowsPlan
<1>1. Sound => TravelFollowsPlan
  BY DEF Sound, Operational, StopsSound, TravelFollowsPlan
<1> QED BY <1>1, SoundAlways, PTL

\* The columns of every stop tell one story.
THEOREM OutcomeConsistentAlways == Spec => []OutcomeConsistent
<1>1. Sound => OutcomeConsistent
  BY DEF Sound, Operational, StopsSound, RowSound, OutcomeConsistent, Stops
<1> QED BY <1>1, SoundAlways, PTL

\* The timeline has the events that the rows ask for.
LEMMA EventsAgreeAlways == Spec => []EventsAgree
<1>1. ASSUME Sound PROVE EventsAgree
  <2> SUFFICES ASSUME Untouched PROVE EventsAgree
    BY DEF EventsAgree
  <2>1. Operational(db) /\ \A k \in StopIds : db.stops[k] \in Row
    BY <1>1 DEF Sound, Operational, WellFormed, Db
  <2>2. ASSUME NEW k \in OpenStops(db) PROVE OpenRow(db.stops[k])
    BY <2>1 DEF OpenStops, Stops, OpenRow, EndedStatuses, Row, StopStatuses, LiveStopStatuses
  <2> QED BY <2>1, <2>2 DEF Operational, StopsSound, RowSound, OpenRow, ClosingSound, EventsAgree, Stops
<1> QED BY <1>1, SoundAlways, PTL

\* Nothing happens at a stop before the vehicle leaves.
THEOREM NothingBeforeDepartureAlways == Spec => []NothingBeforeDeparture
<1>1. Sound => NothingBeforeDeparture
  BY DEF Sound, Operational, DepartureSound, Waiting, NothingBeforeDeparture
<1> QED BY <1>1, SoundAlways, PTL

\* A finished route has left, has an outcome for every stop, and its photo.
THEOREM FinishedIsCompleteAlways == Spec => []FinishedIsComplete
<1>1. Sound => FinishedIsComplete
  BY DEF Sound, Operational, ClosingSound, FinishedIsComplete
<1> QED BY <1>1, SoundAlways, PTL

\* The dock session never skips ahead, whichever way the route leaves.
THEOREM DockOrderAlways == Spec => []DockOrder
<1>1. Sound => DockOrder
  BY DEF Sound, Operational, DockSound, DockOrder
<1> QED BY <1>1, SoundAlways, PTL

-----------------------------------------------------------------------------
(* What operation does not take back: a recorded outcome, a closed route.   *)

\* What later requests leave of a stop with an outcome.
OutcomeStays(r, q) ==
    r.status \in {"entregue", "falha"} =>
        /\ q.status = r.status /\ q.delivered = r.delivered /\ q.reason = r.reason
        /\ q.checkin = r.checkin /\ q.seq = r.seq
OutcomesStay(d, e) == \A k \in StopIds : OutcomeStays(d.stops[k], e.stops[k])

\* What a closed route still lets through.
RowFrozen(r, q) ==
    /\ q = [r EXCEPT !.proof = q.proof, !.returned = q.returned]
    /\ ~r.returned => ~q.returned
Frozen(d, e) ==
    /\ e = [d EXCEPT !.stops = e.stops, !.occ = e.occ]
    /\ \A k \in StopIds : RowFrozen(d.stops[k], e.stops[k])

\* The four ways of operation: a plan is edited, a closed route keeps what it has,
\* a moving one keeps its outcomes, a closed one is reopened.
Orderly(d, e) ==
    \/ d.status = "planejada"
    \/ Frozen(d, e)
    \/ Editable(d) /\ OutcomesStay(d, e)
    \/ ~Editable(d) /\ e = AfterReopen(d)

LEMMA ProofsFreeze ==
    ASSUME NEW d, WellFormed(d), NEW k \in StopIds
    PROVE  /\ Frozen(d, AfterReplaceProof(d, k))
           /\ \A field \in {"proof", "returned"} : Frozen(d, AfterRemoveProof(d, k, field))
<1>1. d \in Db /\ d.stops \in [StopIds -> Row]
  BY DEF WellFormed, Db
<1>2. ASSUME NEW q \in Row, RowFrozen(d.stops[k], q) PROVE Frozen(d, WithStop(d, k, q))
  <2>1. WithStop(d, k, q).stops = [d.stops EXCEPT ![k] = q] /\ WithStop(d, k, q).occ = d.occ
    BY <1>1 DEF WithStop, Db
  <2>2. WithStop(d, k, q) = [d EXCEPT !.stops = WithStop(d, k, q).stops, !.occ = WithStop(d, k, q).occ]
    BY <1>1 DEF WithStop, Db
  <2>3. \A j \in StopIds \ {k} : RowFrozen(d.stops[j], d.stops[j])
    <3> SUFFICES ASSUME NEW j \in StopIds, NEW r, r = d.stops[j] PROVE RowFrozen(r, r)
      OBVIOUS
    <3>1. r \in Row
      BY <1>1
    <3> QED BY <3>1 DEF RowFrozen, Row
  <2> QED BY <1>1, <1>2, <2>1, <2>2, <2>3 DEF Frozen
<1>3. \A r \in Row : /\ [r EXCEPT !.proof = TRUE] \in Row /\ RowFrozen(r, [r EXCEPT !.proof = TRUE])
                     /\ [r EXCEPT !.proof = FALSE] \in Row /\ RowFrozen(r, [r EXCEPT !.proof = FALSE])
                     /\ [r EXCEPT !.returned = FALSE] \in Row /\ RowFrozen(r, [r EXCEPT !.returned = FALSE])
  <2> SUFFICES ASSUME NEW r \in Row
               PROVE  /\ [r EXCEPT !.proof = TRUE] \in Row /\ RowFrozen(r, [r EXCEPT !.proof = TRUE])
                      /\ [r EXCEPT !.proof = FALSE] \in Row /\ RowFrozen(r, [r EXCEPT !.proof = FALSE])
                      /\ [r EXCEPT !.returned = FALSE] \in Row /\ RowFrozen(r, [r EXCEPT !.returned = FALSE])
    OBVIOUS
  <2>1. ASSUME NEW b \in BOOLEAN, NEW q, q = [r EXCEPT !.proof = b] PROVE q \in Row /\ RowFrozen(r, q)
    <3>1. q \in Row
      BY <2>1 DEF Row
    <3>2. RowFrozen(r, q)
      BY <2>1 DEF RowFrozen, Row
    <3> QED BY <3>1, <3>2
  <2>2. ASSUME NEW q, q = [r EXCEPT !.returned = FALSE] PROVE q \in Row /\ RowFrozen(r, q)
    <3>1. q \in Row
      BY <2>2 DEF Row
    <3>2. RowFrozen(r, q)
      BY <2>2 DEF RowFrozen, Row
    <3> QED BY <3>1, <3>2
  <2> QED BY <2>1, <2>2
<1>4. Frozen(d, AfterReplaceProof(d, k))
  BY <1>1, <1>2, <1>3 DEF AfterReplaceProof
<1>5. Frozen(d, AfterRemoveProof(d, k, "proof")) /\ Frozen(d, AfterRemoveProof(d, k, "returned"))
  <2>1. /\ [d.stops[k] EXCEPT !["proof"] = FALSE] = [d.stops[k] EXCEPT !.proof = FALSE]
        /\ [d.stops[k] EXCEPT !["returned"] = FALSE] = [d.stops[k] EXCEPT !.returned = FALSE]
    OBVIOUS
  <2> QED BY <1>1, <1>2, <1>3, <2>1 DEF AfterRemoveProof
<1> QED BY <1>4, <1>5

LEMMA OccurrencesOrderly ==
    ASSUME NEW d, Operational(d), NEW o \in Occurrences, NEW st
    PROVE  /\ Orderly(d, AfterCreateOccurrence(d, o))
           /\ Orderly(d, AfterUpdateOccurrence(d, o, st))
           /\ Orderly(d, AfterMoveOccurrenceOut(d, o))
           /\ Orderly(d, AfterMoveOccurrenceIn(d, o, st))
<1>1. d \in Db /\ d.stops \in [StopIds -> Row]
  BY DEF Operational, WellFormed, Db
<1>2. \A r \in Row : RowFrozen(r, r)
  BY DEF RowFrozen, Row
<1>3. ASSUME NEW x PROVE Frozen(d, [d EXCEPT !.occ[o] = x])
  BY <1>1, <1>2 DEF Frozen, Db
<1>4. Orderly(d, AfterCreateOccurrence(d, o))
  <2> DEFINE e == AfterCreateOccurrence(d, o)
  <2>1. \A k \in StopIds : e.stops[k] = IF Travelling(d, k) THEN [d.stops[k] EXCEPT !.status = "pendente"]
                                        ELSE d.stops[k]
    BY <1>1 DEF AfterCreateOccurrence, Db
  <2>2. CASE Editable(d)
    <3>1. OutcomesStay(d, e)
      BY <2>1 DEF OutcomesStay, OutcomeStays, Travelling
    <3> QED BY <2>2, <3>1 DEF Orderly
  <2>3. CASE ~Editable(d)
    <3>1. AllStopsClosed(d)
      BY <2>3 DEF Operational, DepartureSound, ClosingSound, Editable, CLOSED_STATES
    <3>2. \A k \in StopIds : ~Travelling(d, k)
      BY <3>1 DEF AllStopsClosed, OpenStops, Stops, Travelling, EndedStatuses
    <3>3. \A k \in StopIds : RowFrozen(d.stops[k], e.stops[k])
      BY <1>1, <1>2, <2>1, <3>2
    <3>4. e = [d EXCEPT !.stops = e.stops, !.occ = e.occ]
      BY <1>1 DEF AfterCreateOccurrence, Db
    <3> QED BY <3>3, <3>4 DEF Orderly, Frozen
  <2> QED BY <2>2, <2>3
<1> QED BY <1>3, <1>4 DEF Orderly, AfterUpdateOccurrence, AfterMoveOccurrenceOut, AfterMoveOccurrenceIn

\* Promotion touches a stop that waits, a written stop was without an outcome.
LEMMA PromotionKeepsOutcomes ==
    ASSUME NEW d, WellFormed(d), NEW e, WellFormed(e), OutcomesStay(d, e)
    PROVE  OutcomesStay(d, StartNextStopTravel(e))
<1>1. ASSUME NEW k \in StopIds
      PROVE  \/ StartNextStopTravel(e).stops[k] = e.stops[k]
             \/ e.stops[k].status = "pendente"
  BY DEF StartNextStopTravel, WellFormed, Db
<1> QED BY <1>1 DEF OutcomesStay, OutcomeStays

LEMMA StopWrittenKeepsOutcomes ==
    ASSUME NEW d, WellFormed(d), NEW k \in StopIds, NEW q, OutcomeStays(d.stops[k], q)
    PROVE  OutcomesStay(d, WithStop(d, k, q))
BY DEF WithStop, WellFormed, Db, OutcomesStay, OutcomeStays

LEMMA ColumnsKeepOutcomes ==
    ASSUME NEW d, WellFormed(d), NEW field \in DockFields
    PROVE  /\ OutcomesStay(d, AfterSetDockTime(d, field))
           /\ OutcomesStay(d, AfterLoadedPhoto(d)) /\ OutcomesStay(d, AfterEmptyPhoto(d))
           /\ OutcomesStay(d, AfterRelease(d)) /\ OutcomesStay(d, AfterDepart(d))
           /\ OutcomesStay(d, AfterForceStart(d)) /\ OutcomesStay(d, AfterClose(d))
<1>1. \A e : e.stops = d.stops => OutcomesStay(d, e)
  BY DEF OutcomesStay, OutcomeStays
<1>2. /\ AfterSetDockTime(d, field).stops = d.stops /\ AfterClose(d).stops = d.stops
      /\ AfterLoadedPhoto(d).stops = d.stops /\ AfterEmptyPhoto(d).stops = d.stops
  BY DEF AfterSetDockTime, AfterClose, AfterLoadedPhoto, AfterEmptyPhoto, WellFormed, Db
<1>3. OutcomesStay(d, AfterRelease(d))
  <2> DEFINE e == [d EXCEPT !.dock = @ \cup {"operator_released_at", "departure_cd_at"},
                            !.departed = TRUE, !.status = "em_rota"]
  <2>1. WellFormed(e) /\ e.stops = d.stops
    BY DEF WellFormed, Fresh, Db, RouteStatuses, DockFields
  <2> HIDE DEF e
  <2>2. OutcomesStay(d, StartNextStopTravel(e))
    BY <1>1, <2>1, PromotionKeepsOutcomes
  <2> QED BY <2>2 DEF AfterRelease, e
<1>4. OutcomesStay(d, AfterDepart(d))
  <2> DEFINE e == [d EXCEPT !.dock = @ \cup {"departure_cd_at"}, !.departed = TRUE, !.status = "em_rota"]
  <2>1. WellFormed(e) /\ e.stops = d.stops
    BY DEF WellFormed, Fresh, Db, RouteStatuses, DockFields
  <2> HIDE DEF e
  <2>2. OutcomesStay(d, StartNextStopTravel(e))
    BY <1>1, <2>1, PromotionKeepsOutcomes
  <2> QED BY <2>2 DEF AfterDepart, e
<1>5. OutcomesStay(d, AfterForceStart(d))
  <2> DEFINE e == [d EXCEPT !.session = TRUE, !.dock = DockFields, !.departed = TRUE, !.status = "em_rota"]
  <2>1. WellFormed(e) /\ e.stops = d.stops
    BY DEF WellFormed, Fresh, Db, RouteStatuses
  <2> HIDE DEF e
  <2>2. OutcomesStay(d, StartNextStopTravel(e))
    BY <1>1, <2>1, PromotionKeepsOutcomes
  <2> QED BY <2>2 DEF AfterForceStart, e
<1> QED BY <1>1, <1>2, <1>3, <1>4, <1>5

LEMMA RoadKeepsOutcomes ==
    ASSUME NEW d, Operational(d), NEW k \in StopIds
    PROVE  /\ CanCheckin(d, k) => OutcomesStay(d, AfterCheckin(d, k))
           /\ Deliverable(d, k) => \A file \in BOOLEAN :
                /\ OutcomesStay(d, AfterSuccess(d, k, file))
                /\ \A o \in Occurrences : OutcomesStay(d, AfterFailure(d, k, file, o))
           /\ OutcomesStay(d, AfterReturnProof(d, k))
<1> DEFINE r == d.stops[k]
<1>0. WellFormed(d) /\ r \in Row /\ RowSound(r)
  BY DEF Operational, WellFormed, Db, StopsSound
<1>1. ASSUME CanCheckin(d, k) PROVE OutcomesStay(d, AfterCheckin(d, k))
  <2>1. r.status \notin {"entregue", "falha"}
    BY <1>0, <1>1 DEF CanCheckin, RowSound
  <2>2. OutcomeStays(r, CheckedIn(r))
    BY <2>1 DEF OutcomeStays
  <2> QED BY <1>0, <2>2, StopWrittenKeepsOutcomes DEF AfterCheckin
<1>2. ASSUME Deliverable(d, k), NEW file \in BOOLEAN, NEW o \in Occurrences
      PROVE  OutcomesStay(d, AfterFailure(d, k, file, o))
  <2> DEFINE f == Failed(EnsureStopCheckin(r), file)
             w == WithStop(d, k, f)
             e == [w EXCEPT !.occ[o] = "aberta"]
  <2>1. f \in Row
    BY <1>0, RowTyped
  <2>2. r.status \notin {"entregue", "falha"} /\ k \in Stops(d)
    BY <1>2 DEF Deliverable
  <2>3. OutcomeStays(r, f)
    BY <2>2 DEF OutcomeStays
  <2>4. WellFormed(w) /\ OutcomesStay(d, w)
    BY <1>0, <2>1, <2>2, <2>3, StopTyped, StopWrittenKeepsOutcomes
  <2>5. AfterFailure(d, k, file, o) = StartNextStopTravel(e)
    BY DEF AfterFailure
  <2> HIDE DEF f, w
  <2>6. WellFormed(e) /\ e.stops = w.stops
    BY <2>4 DEF WellFormed, Fresh, Db, OccurrenceStatuses, OpenOccurrenceStatuses
  <2>7. OutcomesStay(d, e)
    BY <2>4, <2>6 DEF OutcomesStay
  <2> HIDE DEF e
  <2> QED BY <1>0, <2>5, <2>6, <2>7, PromotionKeepsOutcomes
<1>3. OutcomesStay(d, AfterReturnProof(d, k))
  <2>1. OutcomeStays(r, [r EXCEPT !.returned = TRUE, !.outcomes = Tick(r.outcomes)])
    BY <1>0 DEF OutcomeStays, Row
  <2> QED BY <1>0, <2>1, StopWrittenKeepsOutcomes DEF AfterReturnProof
<1>4. ASSUME Deliverable(d, k), NEW file \in BOOLEAN PROVE OutcomesStay(d, AfterSuccess(d, k, file))
  <2> DEFINE s == Succeeded(EnsureStopCheckin(r), file)
  <2>1. s \in Row
    BY <1>0, <1>4, RowTyped
  <2>2. r.status \notin {"entregue", "falha"} /\ k \in Stops(d)
    BY <1>4 DEF Deliverable
  <2>3. OutcomeStays(r, s)
    BY <2>2 DEF OutcomeStays
  <2>4. WellFormed(WithStop(d, k, s)) /\ OutcomesStay(d, WithStop(d, k, s))
    BY <1>0, <2>1, <2>2, <2>3, StopTyped, StopWrittenKeepsOutcomes
  <2> HIDE DEF s
  <2>5. OutcomesStay(d, StartNextStopTravel(WithStop(d, k, s)))
    BY <1>0, <2>4, PromotionKeepsOutcomes
  <2> QED BY <2>5 DEF AfterSuccess, s
<1> QED BY <1>1, <1>2, <1>3, <1>4

LEMMA OrderlyStep ==
    ASSUME Sound, Next, overrides' = {}
    PROVE  Orderly(db, db') /\ Operational(db)
<1>p. ASSUME NEW admin \in BOOLEAN, Planning(admin)
      PROVE  db.status = "planejada" /\ overrides = {}
  BY <1>p DEF Planning
<1>i. "arrival_cd_at" \in DockFields
  BY DEF DockFields
<1>1. CASE \/ \E s \in Seqs, isCarga, admin \in BOOLEAN : AddStop(s, isCarga, admin)
           \/ \E isCarga, admin \in BOOLEAN : AppendStop(isCarga, admin)
           \/ \E k \in StopIds, s \in Seqs, isCarga, admin \in BOOLEAN : UpdateStop(k, s, isCarga, admin)
           \/ \E k \in StopIds, admin \in BOOLEAN : DeleteStop(k, admin)
           \/ \E order \in [StopIds -> StopIds], admin \in BOOLEAN : ApplyOptimizedSequence(order, admin)
           \/ \E plan \in [StopIds -> Seqs], added, endsNewStops \in BOOLEAN :
                 ImportPlan(plan, added, endsNewStops)
  <2>1. db.status = "planejada" /\ overrides = {}
    BY <1>1, <1>p DEF AddStop, AppendStop, UpdateStop, DeleteStop, ApplyOptimizedSequence, ImportPlan
  <2> QED BY <2>1 DEF Orderly, Sound, Untouched
<1>2. CASE \/ \E c \in RouteCorrections : AdminRouteCorrection(c)
           \/ \E k \in StopIds, c \in StopCorrections : AdminStopCorrection(k, c)
           \/ \E due, added \in BOOLEAN, final \in [StopIds -> {"none", "entregue", "devolvido"}] :
                 TorreSync(due, final, added)
  BY <1>2 DEF AdminRouteCorrection, AdminStopCorrection, TorreSync
<1>3. ASSUME UNCHANGED overrides PROVE Operational(db) /\ WellFormed(db)
  BY <1>3 DEF Sound, Untouched, Operational
<1>4. CASE \/ ArriveCd \/ EnterDock \/ LoadingStart \/ LoadingFinish
           \/ UploadLoadedPhoto \/ OperatorRelease \/ DepartCd \/ ForceStart
           \/ UploadEmptyTruckPhoto \/ CloseRoute
  <2>1. Operational(db) /\ WellFormed(db)
    BY <1>3, <1>4 DEF ArriveCd, EnterDock, LoadingStart, LoadingFinish, UploadLoadedPhoto, OperatorRelease,
                      DepartCd, ForceStart, UploadEmptyTruckPhoto, CloseRoute
  <2>2. Editable(db)
    BY <1>4 DEF ArriveCd, EnterDock, LoadingStart, LoadingFinish, UploadLoadedPhoto, OperatorRelease,
                DepartCd, ForceStart, UploadEmptyTruckPhoto, CloseRoute, CanSetDockTime, CanLoadedPhoto,
                CanRelease, CanDepart, CanForceStart, CanEmptyPhoto, CanClose
  <2>3. {"arrival_cd_at", "dock_entry_at", "loading_started_at", "loading_finished_at"} \subseteq DockFields
    BY DEF DockFields
  <2>4. OutcomesStay(db, db')
    BY <1>4, <1>i, <2>1, <2>3, ColumnsKeepOutcomes
       DEF ArriveCd, EnterDock, LoadingStart, LoadingFinish, UploadLoadedPhoto, OperatorRelease,
           DepartCd, ForceStart, UploadEmptyTruckPhoto, CloseRoute
  <2> QED BY <2>1, <2>2, <2>4 DEF Orderly
<1>5. CASE ReopenRoute
  BY <1>3, <1>5 DEF ReopenRoute, CanReopen, Orderly
<1>6. ASSUME NEW k \in StopIds,
             Checkin(k) \/ DeliverSuccess(k) \/ (\E file \in BOOLEAN : DeliverWithProofSuccess(k, file))
      PROVE  Orderly(db, db') /\ Operational(db)
  <2>1. Operational(db)
    BY <1>3, <1>6 DEF Checkin, DeliverSuccess, DeliverWithProofSuccess
  <2>2. CanCheckin(db, k) \/ Deliverable(db, k)
    BY <1>6 DEF Checkin, DeliverSuccess, DeliverWithProofSuccess, CanDeliver, CanDeliverWithProof
  <2>3. Editable(db)
    BY <2>2 DEF CanCheckin, Deliverable
  <2>4. OutcomesStay(db, db')
    BY <1>6, <2>1, RoadKeepsOutcomes
       DEF Checkin, DeliverSuccess, DeliverWithProofSuccess, CanDeliver, CanDeliverWithProof
  <2> QED BY <2>1, <2>3, <2>4 DEF Orderly
<1>7. ASSUME NEW k \in StopIds, NEW o \in Occurrences, DeliverFailure(k, o) \/ DeliverWithProofFailure(k, o)
      PROVE  Orderly(db, db') /\ Operational(db)
  <2>1. Operational(db)
    BY <1>3, <1>7 DEF DeliverFailure, DeliverWithProofFailure
  <2>2. Deliverable(db, k)
    BY <1>7 DEF DeliverFailure, DeliverWithProofFailure, CanFail
  <2>3. OutcomesStay(db, db')
    BY <1>7, <2>1, <2>2, RoadKeepsOutcomes DEF DeliverFailure, DeliverWithProofFailure
  <2> QED BY <2>1, <2>2, <2>3 DEF Orderly, Deliverable
<1>8. ASSUME NEW k \in StopIds,
             \/ UploadWarehouseReturnProof(k) \/ ReplaceRequestedProof(k)
             \/ \E field \in {"proof", "returned"} : RemoveRouteProof(k, field)
      PROVE  Orderly(db, db') /\ Operational(db)
  <2>1. Operational(db) /\ WellFormed(db)
    BY <1>3, <1>8 DEF UploadWarehouseReturnProof, ReplaceRequestedProof, RemoveRouteProof
  <2>2. CASE UploadWarehouseReturnProof(k)
    BY <2>1, <2>2, RoadKeepsOutcomes DEF UploadWarehouseReturnProof, CanReturnProof, Orderly
  <2>3. CASE ReplaceRequestedProof(k) \/ \E field \in {"proof", "returned"} : RemoveRouteProof(k, field)
    BY <2>1, <2>3, ProofsFreeze DEF ReplaceRequestedProof, RemoveRouteProof, Orderly
  <2> QED BY <1>8, <2>2, <2>3
<1>9. ASSUME NEW o \in Occurrences, NEW st,
             \/ CreateOccurrence(o) \/ UpdateOccurrence(o, st)
             \/ MoveOccurrenceOut(o) \/ MoveOccurrenceIn(o, st)
      PROVE  Orderly(db, db') /\ Operational(db)
  <2>1. Operational(db)
    BY <1>3, <1>9 DEF CreateOccurrence, UpdateOccurrence, MoveOccurrenceOut, MoveOccurrenceIn
  <2> QED BY <1>9, <2>1, OccurrencesOrderly
          DEF CreateOccurrence, UpdateOccurrence, MoveOccurrenceOut, MoveOccurrenceIn
<1> QED BY <1>1, <1>2, <1>4, <1>5, <1>6, <1>7, <1>8, <1>9 DEF Next

\* A recorded outcome is never overwritten by operation, for every plan and any number
\* of requests (the messages of deliver and checkin).
THEOREM OutcomeIsFinalAlways == Spec => OutcomeIsFinal
<1>1. ASSUME Sound, [Next]_vars PROVE [OutcomeKept]_vars
  <2> SUFFICES ASSUME Next, overrides' = {}, NEW k \in StopIds PROVE OutcomeStays(db.stops[k], db'.stops[k])
    BY <1>1 DEF OutcomeKept, OutcomeStays
  <2>1. Operational(db) /\ Orderly(db, db')
    BY <1>1, OrderlyStep
  <2>2. CASE db.status = "planejada"
    <3>1. db.stops[k].status # "none" => db.stops[k].status = "pendente"
      BY <2>1, <2>2, PlannedWaits DEF Stops, Waiting
    <3> QED BY <3>1 DEF OutcomeStays
  <2>3. CASE Frozen(db, db')
    <3> DEFINE r == db.stops[k]
               q == db'.stops[k]
    <3>1. r \in Row
      BY <2>1 DEF Operational, WellFormed, Db
    <3>2. q = [r EXCEPT !.proof = q.proof, !.returned = q.returned]
      BY <2>3 DEF Frozen, RowFrozen
    <3> HIDE DEF r, q
    <3>3. OutcomeStays(r, q)
      BY <3>1, <3>2 DEF OutcomeStays, Row
    <3> QED BY <3>3 DEF r, q
  <2>4. CASE OutcomesStay(db, db')
    BY <2>4 DEF OutcomesStay
  <2>5. CASE db' = AfterReopen(db)
    <3>1. db'.stops = db.stops
      BY <2>1, <2>5 DEF Operational, WellFormed, Db, AfterReopen
    <3> QED BY <3>1 DEF OutcomeStays
  <2> QED BY <2>1, <2>2, <2>3, <2>4, <2>5 DEF Orderly
<1> QED BY <1>1, SoundAlways, PTL DEF Spec, OutcomeIsFinal

\* A closed route is frozen until it is reopened, but for its proofs and occurrences.
THEOREM ClosedIsFrozenAlways == Spec => ClosedIsFrozen
<1>1. ASSUME Sound, [Next]_vars PROVE [ClosedKept]_vars
  <2> SUFFICES ASSUME Next, overrides' = {}, db.status \in CLOSED_STATES PROVE ClosedKept
    BY <1>1 DEF ClosedKept
  <2>1. Operational(db) /\ Orderly(db, db') /\ db \in Db
    BY <1>1, OrderlyStep DEF Operational, WellFormed
  <2>2. db.status # "planejada" /\ ~Editable(db)
    BY DEF CLOSED_STATES, Editable
  <2>3. CASE Frozen(db, db')
    BY <2>3 DEF ClosedKept, Frozen, RowFrozen
  <2>4. CASE db' = AfterReopen(db)
    <3>1. db'.stops = db.stops /\ db'.dock = db.dock /\ db'.closedAt = FALSE
          /\ db'.status \in {"em_rota", "planejada"}
      BY <2>1, <2>4 DEF Db, AfterReopen
    <3> QED BY <3>1 DEF ClosedKept, Editable, CLOSED_STATES
  <2> QED BY <2>1, <2>2, <2>3, <2>4 DEF Orderly
<1> QED BY <1>1, SoundAlways, PTL DEF Spec, ClosedIsFrozen

-----------------------------------------------------------------------------
(* What no intervention takes from a route: its history.  Corrections,     *)
(* synchronisation and imports included, every handler moves every row on, *)
(* for any number of stops and any corrections.                            *)

RowKept(r) ==
    /\ r.status = "none" => r = NoRow
    /\ r.checkin => r.arrivals >= 1

\* Row q may come after row r.
Onward(r, q) ==
    /\ RowKept(q)
    /\ Eventful(r) => /\ q.status # "none" /\ Eventful(q)
                      /\ q.arrivals >= r.arrivals /\ q.outcomes >= r.outcomes

RowsKept(d) == WellFormed(d) /\ \A k \in StopIds : RowKept(d.stops[k])
Advances(d, e) == \A k \in StopIds : Onward(d.stops[k], e.stops[k])

-----------------------------------------------------------------------------
(* Rows                                                                     *)

\* A row that is not there has no history.
LEMMA NothingHappened ==
    /\ NoRow \in Row /\ RowKept(NoRow) /\ ~Eventful(NoRow)
    /\ \A s \in Nat, isCarga \in BOOLEAN, st \in LiveStopStatuses :
          RowKept(NewStop(s, isCarga, st))
<1>1. NoRow \in Row /\ RowKept(NoRow) /\ ~Eventful(NoRow)
  BY DEF NoRow, NewStop, Row, StopStatuses, Tally, RowKept, Eventful
<1>2. \A s \in Nat, isCarga \in BOOLEAN, st \in LiveStopStatuses : RowKept(NewStop(s, isCarga, st))
  BY DEF NewStop, RowKept, LiveStopStatuses, EndedStatuses
<1> QED BY <1>1, <1>2

LEMMA RowStays ==
    ASSUME NEW r \in Row, RowKept(r)
    PROVE  Onward(r, r)
<1>1. r.arrivals >= r.arrivals /\ r.outcomes >= r.outcomes
  BY DEF Row, Tally
<1>2. Eventful(r) => r.status # "none"
  BY NothingHappened DEF RowKept
<1> QED BY <1>1, <1>2 DEF Onward

\* Columns of a row that is there are written, none of its events lost.
LEMMA RowWritten ==
    ASSUME NEW r \in Row, RowKept(r), NEW q \in Row, q.status # "none",
           r.travelled => q.travelled,
           q.arrivals >= r.arrivals, q.outcomes >= r.outcomes,
           q.checkin => r.checkin \/ q.arrivals >= 1
    PROVE  Onward(r, q)
<1>1. RowKept(q)
  BY DEF RowKept, Row, Tally
<1>2. Eventful(r) => Eventful(q)
  BY DEF Eventful, Row, Tally
<1> QED BY <1>1, <1>2 DEF Onward

\* Only columns are written that say nothing of the stop's events.
LEMMA EventsStay ==
    ASSUME NEW r \in Row, RowKept(r), NEW q \in Row, q.status # "none",
           r.travelled => q.travelled, q.checkin => r.checkin,
           q.arrivals = r.arrivals, q.outcomes = r.outcomes
    PROVE  Onward(r, q)
<1>1. q.arrivals >= r.arrivals /\ q.outcomes >= r.outcomes
  BY DEF Row, Tally
<1> QED BY <1>1, RowWritten

LEMMA OnwardTwice ==
    ASSUME NEW r \in Row, NEW q \in Row, NEW p \in Row, Onward(r, q), Onward(q, p)
    PROVE  Onward(r, p)
BY DEF Onward, Row, Tally

\* The ways a handler writes one stop.
LEMMA RowsOnward ==
    ASSUME NEW r \in Row, RowKept(r), r.status # "none"
    PROVE  /\ Onward(r, Promoted(r))
           /\ Onward(r, CheckedIn(r))
           /\ Onward(r, ResetStop(r))
           /\ \A file \in BOOLEAN : /\ Onward(r, Succeeded(EnsureStopCheckin(r), file))
                                    /\ Onward(r, Failed(EnsureStopCheckin(r), file))
<1>0. \A n \in Tally : Tick(n) \in Tally /\ Tick(n) >= n /\ Tick(n) >= 1
  BY DEF Tick, Tally
<1>1. Onward(r, Promoted(r))
  <2>1. Promoted(r) \in Row
    BY RowTyped
  <2>2. /\ Promoted(r).status = "em_rota" /\ Promoted(r).travelled
        /\ Promoted(r).arrivals = r.arrivals /\ Promoted(r).outcomes = r.outcomes
        /\ Promoted(r).checkin = r.checkin
    BY DEF Promoted, Row
  <2> QED BY <2>1, <2>2, RowWritten DEF Row, Tally
<1>2. Onward(r, CheckedIn(r))
  <2>1. CheckedIn(r) \in Row
    BY RowTyped
  <2>2. /\ CheckedIn(r).status = "em_rota" /\ CheckedIn(r).travelled = r.travelled
        /\ CheckedIn(r).arrivals = Tick(r.arrivals) /\ CheckedIn(r).outcomes = r.outcomes
    BY DEF CheckedIn, Row
  <2>3. r.arrivals \in Tally /\ r.outcomes \in Tally /\ r.outcomes >= r.outcomes
    BY DEF Row, Tally
  <2> QED BY <1>0, <2>1, <2>2, <2>3, RowWritten
<1>3. Onward(r, ResetStop(r))
  <2>1. ResetStop(r) \in Row
    BY RowTyped
  <2>2. /\ ResetStop(r).status = "pendente" /\ ResetStop(r).travelled = r.travelled
        /\ ResetStop(r).arrivals = r.arrivals /\ ResetStop(r).outcomes = r.outcomes
        /\ ~ResetStop(r).checkin
    BY DEF ResetStop, Row
  <2> QED BY <2>1, <2>2, RowWritten DEF Row, Tally
<1>4. EnsureStopCheckin(r) \in Row /\ Onward(r, EnsureStopCheckin(r))
      /\ EnsureStopCheckin(r).status # "none"
  <2>1. EnsureStopCheckin(r) \in Row
    BY RowTyped
  <2>2. CASE r.checkin
    BY <2>1, <2>2, RowStays DEF EnsureStopCheckin
  <2>3. CASE ~r.checkin
    <3>1. /\ EnsureStopCheckin(r).status # "none" /\ EnsureStopCheckin(r).travelled = r.travelled
          /\ EnsureStopCheckin(r).arrivals = Tick(r.arrivals)
          /\ EnsureStopCheckin(r).outcomes = r.outcomes
      BY <2>3 DEF EnsureStopCheckin, Row
    <3>2. r.arrivals \in Tally /\ r.outcomes \in Tally /\ r.outcomes >= r.outcomes
      BY DEF Row, Tally
    <3> QED BY <1>0, <2>1, <3>1, <3>2, RowWritten
  <2> QED BY <2>2, <2>3
<1>5. ASSUME NEW q \in Row, RowKept(q), NEW file \in BOOLEAN
      PROVE  /\ Succeeded(q, file) \in Row /\ Onward(q, Succeeded(q, file))
             /\ Failed(q, file) \in Row /\ Onward(q, Failed(q, file))
  <2>1. Succeeded(q, file) \in Row /\ Failed(q, file) \in Row
    BY RowTyped
  <2>2. q.arrivals \in Tally /\ q.outcomes \in Tally /\ q.arrivals >= q.arrivals
    BY DEF Row, Tally
  <2>3. ASSUME NEW p \in Row, p.status # "none", q.travelled => p.travelled,
               p.checkin => q.checkin, p.arrivals = q.arrivals, p.outcomes = Tick(q.outcomes)
        PROVE  Onward(q, p)
    <3>1. p.arrivals >= q.arrivals /\ p.outcomes >= q.outcomes
      BY <1>0, <2>2, <2>3
    <3> QED BY <1>5, <2>3, <3>1, RowWritten
  <2>4. Onward(q, Succeeded(q, file))
    <3>1. /\ Succeeded(q, file).status # "none"
          /\ Succeeded(q, file).travelled = q.travelled /\ Succeeded(q, file).checkin = q.checkin
          /\ Succeeded(q, file).arrivals = q.arrivals
          /\ Succeeded(q, file).outcomes = Tick(q.outcomes)
      BY DEF Succeeded, Row
    <3> QED BY <2>1, <2>3, <3>1
  <2>5. Onward(q, Failed(q, file))
    <3>1. /\ Failed(q, file).status # "none"
          /\ Failed(q, file).travelled = q.travelled /\ Failed(q, file).checkin = q.checkin
          /\ Failed(q, file).arrivals = q.arrivals
          /\ Failed(q, file).outcomes = Tick(q.outcomes)
      BY DEF Failed, Row
    <3> QED BY <2>1, <2>3, <3>1
  <2> QED BY <2>1, <2>4, <2>5
<1>6. ASSUME NEW file \in BOOLEAN
      PROVE  /\ Onward(r, Succeeded(EnsureStopCheckin(r), file))
             /\ Onward(r, Failed(EnsureStopCheckin(r), file))
  BY <1>4, <1>5, OnwardTwice DEF Onward
<1> QED BY <1>1, <1>2, <1>3, <1>6

-----------------------------------------------------------------------------
(* Handlers                                                                 *)

\* The rows of the stops are all that matters.
LEMMA StopsStay ==
    ASSUME NEW d, RowsKept(d), NEW e, e.stops = d.stops
    PROVE  Advances(d, e)
BY RowStays DEF Advances, RowsKept, WellFormed, Db

LEMMA OneStopWritten ==
    ASSUME NEW d, RowsKept(d), NEW k \in StopIds, NEW r, Onward(d.stops[k], r)
    PROVE  Advances(d, WithStop(d, k, r))
<1>1. \A j \in StopIds : WithStop(d, k, r).stops[j] = IF j = k THEN r ELSE d.stops[j]
  BY DEF WithStop, RowsKept, WellFormed, Db
<1> QED BY <1>1, RowStays DEF Advances, RowsKept, WellFormed, Db

LEMMA PromotionAdvances ==
    ASSUME NEW d, RowsKept(d)
    PROVE  Advances(d, StartNextStopTravel(d))
<1>1. CASE Halted(d)
  BY <1>1, StopsStay DEF StartNextStopTravel
<1>2. CASE ~Halted(d)
  <2>1. ASSUME NEW k \in StopIds PROVE Onward(d.stops[k], StartNextStopTravel(d).stops[k])
    <3>1. StartNextStopTravel(d).stops[k] = IF FirstOpen(d, k) /\ d.stops[k].status = "pendente"
                                            THEN Promoted(d.stops[k]) ELSE d.stops[k]
      BY <1>2 DEF StartNextStopTravel, RowsKept, WellFormed, Db
    <3>2. d.stops[k] \in Row /\ RowKept(d.stops[k])
      BY DEF RowsKept, WellFormed, Db
    <3> QED BY <3>1, <3>2, RowsOnward, RowStays
  <2> QED BY <2>1 DEF Advances
<1> QED BY <1>1, <1>2

\* One handler after the other.
LEMMA AdvancesTwice ==
    ASSUME NEW d, RowsKept(d), NEW e, WellFormed(e), Advances(d, e),
           NEW f, WellFormed(f), Advances(e, f)
    PROVE  Advances(d, f)
BY OnwardTwice DEF Advances, RowsKept, WellFormed, Db

LEMMA PlanningAdvances ==
    ASSUME NEW d, RowsKept(d)
    PROVE  /\ \A s \in Nat, isCarga, admin \in BOOLEAN :
                CanAddStop(d, admin) => Advances(d, AfterAddStop(d, s, isCarga))
           /\ \A k \in StopIds, s \in Nat, isCarga, admin \in BOOLEAN :
                CanUpdateStop(d, k, admin) => Advances(d, AfterUpdateStop(d, k, s, isCarga))
           /\ \A k \in StopIds, admin \in BOOLEAN :
                CanDeleteStop(d, k, admin) => Advances(d, AfterDeleteStop(d, k))
           /\ \A order \in [StopIds -> StopIds] : Advances(d, AfterApplyOptimizedSequence(d, order))
<1>0. \A k \in StopIds : d.stops[k] \in Row /\ RowKept(d.stops[k])
  BY DEF RowsKept, WellFormed, Db
<1>1. ASSUME NEW s \in Nat, NEW isCarga \in BOOLEAN, NEW admin \in BOOLEAN, CanAddStop(d, admin)
      PROVE  Advances(d, AfterAddStop(d, s, isCarga))
  <2> DEFINE r == NewStop(s, isCarga, "pendente")
  <2>1. d.next \in StopIds /\ d.stops[d.next] = NoRow
    BY <1>1, MaxStopsAssumption DEF CanAddStop, RowsKept, WellFormed, Fresh, Db, StopIds
  <2>2. RowKept(r) /\ ~Eventful(d.stops[d.next])
    BY <2>1, NothingHappened DEF LiveStopStatuses
  <2>3. Advances(d, WithStop(d, d.next, r))
    BY <2>1, <2>2, OneStopWritten DEF Onward
  <2> QED BY <2>3 DEF AfterAddStop, Advances, WithStop, RowsKept, WellFormed, Db
<1>2. ASSUME NEW k \in StopIds, NEW s \in Nat, NEW isCarga \in BOOLEAN, NEW admin \in BOOLEAN,
             CanUpdateStop(d, k, admin)
      PROVE  Advances(d, AfterUpdateStop(d, k, s, isCarga))
  <2> DEFINE r == [d.stops[k] EXCEPT !.seq = s, !.carga = isCarga]
  <2>1. d.stops[k] \in Row /\ RowKept(d.stops[k]) /\ d.stops[k].status # "none"
    BY <1>0, <1>2 DEF CanUpdateStop, Stops
  <2>2. /\ r \in Row /\ r.status = d.stops[k].status
        /\ r.travelled = d.stops[k].travelled /\ r.checkin = d.stops[k].checkin
        /\ r.arrivals = d.stops[k].arrivals /\ r.outcomes = d.stops[k].outcomes
    BY <2>1 DEF Row
  <2> HIDE DEF r
  <2>3. Onward(d.stops[k], r)
    BY <2>1, <2>2, EventsStay
  <2> QED BY <2>3, OneStopWritten DEF AfterUpdateStop, r
<1>3. ASSUME NEW k \in StopIds, NEW admin \in BOOLEAN, CanDeleteStop(d, k, admin)
      PROVE  Advances(d, AfterDeleteStop(d, k))
  <2>1. Onward(d.stops[k], NoRow)
    BY <1>3, NothingHappened DEF CanDeleteStop, Onward
  <2> QED BY <2>1, OneStopWritten DEF AfterDeleteStop
<1>4. ASSUME NEW order \in [StopIds -> StopIds]
      PROVE  Advances(d, AfterApplyOptimizedSequence(d, order))
  <2>1. ASSUME NEW k \in StopIds
        PROVE  Onward(d.stops[k], AfterApplyOptimizedSequence(d, order).stops[k])
    <3>1. AfterApplyOptimizedSequence(d, order).stops[k]
             = IF k \in Stops(d) THEN [d.stops[k] EXCEPT !.seq = order[k]] ELSE d.stops[k]
      BY DEF AfterApplyOptimizedSequence, RowsKept, WellFormed, Db
    <3>2. ASSUME k \in Stops(d) PROVE Onward(d.stops[k], [d.stops[k] EXCEPT !.seq = order[k]])
      <4> DEFINE r == [d.stops[k] EXCEPT !.seq = order[k]]
      <4>1. d.stops[k] \in Row /\ RowKept(d.stops[k]) /\ d.stops[k].status # "none"
        BY <1>0, <3>2 DEF Stops
      <4>2. order[k] \in Nat
        BY MaxStopsAssumption DEF StopIds
      <4>3. /\ r \in Row /\ r.status = d.stops[k].status
            /\ r.travelled = d.stops[k].travelled /\ r.checkin = d.stops[k].checkin
            /\ r.arrivals = d.stops[k].arrivals /\ r.outcomes = d.stops[k].outcomes
        BY <4>1, <4>2 DEF Row
      <4> HIDE DEF r
      <4>4. Onward(d.stops[k], r)
        BY <4>1, <4>3, EventsStay
      <4> QED BY <4>4 DEF r
    <3> QED BY <1>0, <3>1, <3>2, RowStays
  <2> QED BY <2>1 DEF Advances
<1> QED BY <1>1, <1>2, <1>3, <1>4

\* The requests of the distribution centre, of the closing, and those on the route's
\* own columns: at most a stop is promoted.
LEMMA ColumnsAdvance ==
    ASSUME NEW d, RowsKept(d), NEW field \in DockFields
    PROVE  /\ Advances(d, AfterSetDockTime(d, field))
           /\ Advances(d, AfterLoadedPhoto(d))
           /\ Advances(d, AfterRelease(d))
           /\ Advances(d, AfterDepart(d))
           /\ Advances(d, AfterForceStart(d))
           /\ Advances(d, AfterEmptyPhoto(d))
           /\ Advances(d, AfterClose(d))
           /\ Advances(d, AfterReopen(d))
<1>1. ASSUME NEW times \in SUBSET DockFields, NEW session \in BOOLEAN
      PROVE  Advances(d, StartNextStopTravel([d EXCEPT !.session = session, !.dock = times,
                                                       !.departed = TRUE, !.status = "em_rota"]))
  <2> DEFINE e == [d EXCEPT !.session = session, !.dock = times,
                            !.departed = TRUE, !.status = "em_rota"]
  <2>1. e.stops = d.stops /\ RowsKept(e)
    BY DEF RowsKept, WellFormed, Fresh, Db, RouteStatuses
  <2> HIDE DEF e
  <2>2. Advances(e, StartNextStopTravel(e))
    BY <2>1, PromotionAdvances
  <2> QED BY <2>1, <2>2 DEF Advances, e
<1>2. /\ AfterRelease(d) = StartNextStopTravel([d EXCEPT !.session = d.session,
             !.dock = d.dock \cup {"operator_released_at", "departure_cd_at"},
             !.departed = TRUE, !.status = "em_rota"])
      /\ AfterDepart(d) = StartNextStopTravel([d EXCEPT !.session = d.session,
             !.dock = d.dock \cup {"departure_cd_at"}, !.departed = TRUE, !.status = "em_rota"])
  BY DEF AfterRelease, AfterDepart, RowsKept, WellFormed, Db
<1>3. Advances(d, AfterRelease(d)) /\ Advances(d, AfterDepart(d))
  <2>1. /\ d.session \in BOOLEAN
        /\ d.dock \cup {"operator_released_at", "departure_cd_at"} \in SUBSET DockFields
        /\ d.dock \cup {"departure_cd_at"} \in SUBSET DockFields
    BY DEF RowsKept, WellFormed, Db, DockFields
  <2> QED BY <1>1, <1>2, <2>1
<1>4. Advances(d, AfterForceStart(d))
  BY <1>1 DEF AfterForceStart
<1>5. /\ AfterSetDockTime(d, field).stops = d.stops
      /\ AfterLoadedPhoto(d).stops = d.stops /\ AfterEmptyPhoto(d).stops = d.stops
      /\ AfterClose(d).stops = d.stops /\ AfterReopen(d).stops = d.stops
  BY DEF AfterSetDockTime, AfterLoadedPhoto, AfterEmptyPhoto, AfterClose, AfterReopen,
         RowsKept, WellFormed, Db
<1> QED BY <1>3, <1>4, <1>5, StopsStay

\* The requests of the road, and of the gallery.
LEMMA RoadAdvances ==
    ASSUME NEW d, RowsKept(d), NEW k \in Stops(d), NEW file \in BOOLEAN,
           NEW field \in {"proof", "returned"}
    PROVE  /\ Advances(d, AfterCheckin(d, k))
           /\ Advances(d, AfterSuccess(d, k, file))
           /\ \A o \in Occurrences : Advances(d, AfterFailure(d, k, file, o))
           /\ Advances(d, AfterReturnProof(d, k))
           /\ Advances(d, AfterReplaceProof(d, k))
           /\ Advances(d, AfterRemoveProof(d, k, field))
<1>0. /\ WellFormed(d) /\ k \in StopIds
      /\ d.stops[k] \in Row /\ RowKept(d.stops[k]) /\ d.stops[k].status # "none"
  BY DEF RowsKept, WellFormed, Db, Stops
<1>1. Advances(d, AfterCheckin(d, k))
  BY <1>0, RowsOnward, OneStopWritten DEF AfterCheckin
<1>2. ASSUME NEW r \in Row, Onward(d.stops[k], r), r.status # "none",
             NEW e, WellFormed(e), e.stops = WithStop(d, k, r).stops
      PROVE  Advances(d, StartNextStopTravel(e))
  <2>1. Advances(d, e)
    BY <1>0, <1>2, OneStopWritten DEF Advances
  <2>2. RowsKept(e)
    BY <1>2, <2>1 DEF RowsKept, Advances, Onward
  <2> QED BY <1>2, <2>1, <2>2, PromotionAdvances, StartNextStopTravelTyped, AdvancesTwice
<1>3. /\ EnsureStopCheckin(d.stops[k]) \in Row
      /\ Succeeded(EnsureStopCheckin(d.stops[k]), file) \in Row
      /\ Failed(EnsureStopCheckin(d.stops[k]), file) \in Row
  BY <1>0, RowTyped
<1>4. Advances(d, AfterSuccess(d, k, file))
  <2> DEFINE r == Succeeded(EnsureStopCheckin(d.stops[k]), file)
             e == WithStop(d, k, r)
  <2>1. r \in Row /\ Onward(d.stops[k], r) /\ r.status # "none"
    BY <1>0, <1>3, RowsOnward DEF Succeeded, Row
  <2>2. WellFormed(e)
    BY <1>0, <2>1, StopTyped
  <2> HIDE DEF r
  <2> QED BY <1>2, <2>1, <2>2 DEF AfterSuccess, r
<1>5. ASSUME NEW o \in Occurrences PROVE Advances(d, AfterFailure(d, k, file, o))
  <2> DEFINE r == Failed(EnsureStopCheckin(d.stops[k]), file)
             e == [WithStop(d, k, r) EXCEPT !.occ[o] = "aberta"]
  <2>1. r \in Row /\ Onward(d.stops[k], r) /\ r.status # "none"
    BY <1>0, <1>3, RowsOnward DEF Failed, Row
  <2>2. WellFormed(WithStop(d, k, r))
    BY <1>0, <2>1, StopTyped
  <2> HIDE DEF r
  <2>3. WellFormed(e) /\ e.stops = WithStop(d, k, r).stops
    BY <2>2 DEF WellFormed, Fresh, Db, OccurrenceStatuses, OpenOccurrenceStatuses
  <2> QED BY <1>2, <2>1, <2>3 DEF AfterFailure, r
<1>6. ASSUME NEW q \in Row, q.status = d.stops[k].status, q.travelled = d.stops[k].travelled,
             q.checkin = d.stops[k].checkin, q.arrivals = d.stops[k].arrivals,
             q.outcomes = d.stops[k].outcomes
      PROVE  Advances(d, WithStop(d, k, q))
  BY <1>0, <1>6, EventsStay, OneStopWritten
<1>7. Advances(d, AfterReturnProof(d, k))
  <2> DEFINE r == d.stops[k]
             q == [r EXCEPT !.returned = TRUE, !.outcomes = Tick(r.outcomes)]
  <2>1. r.outcomes \in Tally /\ Tick(r.outcomes) \in Tally /\ Tick(r.outcomes) >= r.outcomes
    BY <1>0 DEF Row, Tally, Tick
  <2>2. /\ q \in Row /\ q.status = r.status /\ q.travelled = r.travelled /\ q.checkin = r.checkin
        /\ q.arrivals = r.arrivals /\ q.outcomes = Tick(r.outcomes)
    BY <1>0, <2>1 DEF Row
  <2>3. q.arrivals >= r.arrivals
    BY <1>0, <2>2 DEF Row, Tally
  <2> HIDE DEF q
  <2>4. Onward(r, q)
    BY <1>0, <2>1, <2>2, <2>3, RowWritten
  <2> QED BY <1>0, <2>4, OneStopWritten DEF AfterReturnProof, q
<1>8. Advances(d, AfterReplaceProof(d, k)) /\ Advances(d, AfterRemoveProof(d, k, field))
  <2> DEFINE q == [d.stops[k] EXCEPT !.proof = TRUE]
             p == [d.stops[k] EXCEPT ![field] = FALSE]
  <2>1. /\ q \in Row /\ q.status = d.stops[k].status /\ q.travelled = d.stops[k].travelled
        /\ q.checkin = d.stops[k].checkin /\ q.arrivals = d.stops[k].arrivals
        /\ q.outcomes = d.stops[k].outcomes
    BY <1>0 DEF Row
  <2>2. /\ p \in Row /\ p.status = d.stops[k].status /\ p.travelled = d.stops[k].travelled
        /\ p.checkin = d.stops[k].checkin /\ p.arrivals = d.stops[k].arrivals
        /\ p.outcomes = d.stops[k].outcomes
    BY <1>0 DEF Row
  <2> HIDE DEF q, p
  <2> QED BY <1>6, <2>1, <2>2 DEF AfterReplaceProof, AfterRemoveProof, q, p
<1> QED BY <1>1, <1>4, <1>5, <1>7, <1>8

\* Occurrences, whatever their status and wherever they go.
LEMMA OccurrencesAdvance ==
    ASSUME NEW d, RowsKept(d), NEW o \in Occurrences, NEW st \in OccurrenceStatuses
    PROVE  /\ Advances(d, AfterCreateOccurrence(d, o))
           /\ Advances(d, AfterUpdateOccurrence(d, o, st))
           /\ Advances(d, AfterMoveOccurrenceOut(d, o))
           /\ Advances(d, AfterMoveOccurrenceIn(d, o, st))
<1>1. ASSUME NEW k \in StopIds
      PROVE  Onward(d.stops[k], AfterCreateOccurrence(d, o).stops[k])
  <2> DEFINE q == [d.stops[k] EXCEPT !.status = "pendente"]
  <2>1. AfterCreateOccurrence(d, o).stops[k] = IF Travelling(d, k) THEN q ELSE d.stops[k]
    BY DEF AfterCreateOccurrence, RowsKept, WellFormed, Db
  <2>2. d.stops[k] \in Row /\ RowKept(d.stops[k])
    BY DEF RowsKept, WellFormed, Db
  <2>3. /\ q \in Row /\ q.status = "pendente" /\ q.travelled = d.stops[k].travelled
        /\ q.checkin = d.stops[k].checkin /\ q.arrivals = d.stops[k].arrivals
        /\ q.outcomes = d.stops[k].outcomes
    BY <2>2 DEF Row, StopStatuses, LiveStopStatuses
  <2> HIDE DEF q
  <2>4. Onward(d.stops[k], q)
    BY <2>2, <2>3, EventsStay
  <2> QED BY <2>1, <2>2, <2>4, RowStays
<1>2. /\ AfterUpdateOccurrence(d, o, st).stops = d.stops
      /\ AfterMoveOccurrenceOut(d, o).stops = d.stops
      /\ AfterMoveOccurrenceIn(d, o, st).stops = d.stops
  BY DEF AfterUpdateOccurrence, AfterMoveOccurrenceOut, AfterMoveOccurrenceIn, RowsKept, WellFormed, Db
<1> QED BY <1>1, <1>2, StopsStay DEF Advances

-----------------------------------------------------------------------------
(* Interventions                                                            *)

LEMMA RouteCorrectionAdvances ==
    ASSUME NEW d, RowsKept(d), NEW c \in RouteCorrection
    PROVE  Advances(d, AfterAdminRouteCorrection(d, c))
<1> DEFINE stops == [k \in StopIds |->
               IF c.resetStops /\ k \in Stops(d) THEN ResetStop(d.stops[k]) ELSE d.stops[k]]
<1>0. \A k \in StopIds : d.stops[k] \in Row /\ RowKept(d.stops[k])
  BY DEF RowsKept, WellFormed, Db
<1>1. AfterAdminRouteCorrection(d, c).stops = stops
  <2>1. \A e \in Db : \A st, reset : AfterRouteStatus(e, st, reset).stops = e.stops
    BY DEF AfterRouteStatus, Db
  <2>2. ResetDockFlow(d) \in Db /\ ResetDockFlow(d).stops = d.stops
    BY DEF ResetDockFlow, RowsKept, WellFormed, Db
  <2>3. \A k \in StopIds : stops[k] \in Row
    BY <1>0, RowTyped
  <2> DEFINE afterReset == IF c.resetDock THEN ResetDockFlow(d) ELSE d
             afterStops == [afterReset EXCEPT !.stops = stops, !.dock = @ \cup c.times,
                                              !.session = @ \/ c.times # {}]
  <2>4. afterReset \in Db
    BY <2>2 DEF RowsKept, WellFormed
  <2> HIDE DEF afterReset
  <2>5. afterStops \in Db /\ afterStops.stops = stops
    <3>1. c.times \subseteq DockFields
      BY DEF RouteCorrection
    <3>2. stops \in [StopIds -> Row]
      BY <2>3
    <3> HIDE DEF stops
    <3> QED BY <2>4, <3>1, <3>2 DEF Db
  <2>6. AfterAdminRouteCorrection(d, c) = AfterRouteStatus(afterStops, c.status, c.resetDock)
    BY DEF AfterAdminRouteCorrection, afterReset
  <2> HIDE DEF afterStops
  <2> QED BY <2>1, <2>5, <2>6
<1>2. ASSUME NEW k \in StopIds PROVE Onward(d.stops[k], stops[k])
  <2>1. k \in Stops(d) => Onward(d.stops[k], ResetStop(d.stops[k]))
    BY <1>0, RowsOnward DEF Stops
  <2> QED BY <1>0, <2>1, RowStays
<1> QED BY <1>1, <1>2 DEF Advances

LEMMA StopCorrectionAdvances ==
    ASSUME NEW d, RowsKept(d), NEW k \in StopIds, NEW c \in StopCorrection,
           CanAdminStopCorrection(d, k, c)
    PROVE  Advances(d, AfterAdminStopCorrection(d, k, c))
<1> DEFINE r == d.stops[k]
           e == AfterAdminStopCorrection(d, k, c)
           q == e.stops[k]
<1>1. r \in Row /\ RowKept(r) /\ r.status # "none"
  BY DEF RowsKept, WellFormed, Db, CanAdminStopCorrection, Stops
<1>2. e \in Db /\ q \in Row
  BY StopCorrectionTyped DEF RowsKept, WellFormed, Db
<1>3. /\ q.status = IF c.status = "none" THEN r.status ELSE c.status
      /\ q.checkin => r.checkin
      /\ q.travelled = r.travelled /\ q.arrivals = r.arrivals /\ q.outcomes = r.outcomes
      /\ \A j \in StopIds \ {k} : e.stops[j] = d.stops[j]
  <2>1. r \in Row /\ d.stops \in [StopIds -> Row]
    BY <1>1 DEF RowsKept, WellFormed, Db
  <2> QED BY <2>1 DEF AfterAdminStopCorrection, WithStop, RowsKept, WellFormed, Db, Row
<1> HIDE DEF e
<1>4. Onward(r, q)
  BY <1>1, <1>2, <1>3, EventsStay
<1>5. \A j \in StopIds : Onward(d.stops[j], e.stops[j])
  BY <1>3, <1>4, RowStays DEF RowsKept, WellFormed, Db
<1> QED BY <1>5 DEF Advances, e

LEMMA TorreSyncAdvances ==
    ASSUME NEW d, RowsKept(d), NEW due \in BOOLEAN, NEW added \in BOOLEAN,
           CanTorreSync(d, added),
           NEW final \in [StopIds -> {"none", "entregue", "devolvido"}]
    PROVE  Advances(d, AfterTorreSync(d, due, final, added))
<1> DEFINE e == AfterTorreSync(d, due, final, added)
           settled(k, old) == IF final[k] = "none" THEN old ELSE final[k]
<1>1. \A k \in StopIds :
         e.stops[k] = IF k \in Stops(d) THEN [d.stops[k] EXCEPT !.status = settled(k, d.stops[k].status)]
                      ELSE IF added /\ k = d.next THEN NewStop(1, FALSE, settled(k, "pendente"))
                      ELSE d.stops[k]
  BY DEF AfterTorreSync, RowsKept, WellFormed, Db
<1>2. \A k \in StopIds : d.stops[k] \in Row /\ RowKept(d.stops[k])
  BY DEF RowsKept, WellFormed, Db
<1>3. ASSUME NEW k \in StopIds PROVE Onward(d.stops[k], e.stops[k])
  <2>1. CASE k \in Stops(d)
    <3> DEFINE q == [d.stops[k] EXCEPT !.status = settled(k, d.stops[k].status)]
    <3>0. d.stops[k].status # "none"
      BY <2>1 DEF Stops
    <3>1. settled(k, d.stops[k].status) \in StopStatuses \ {"none"}
      BY <1>2, <3>0 DEF Row, StopStatuses, LiveStopStatuses, EndedStatuses
    <3>2. /\ q \in Row /\ q.status = settled(k, d.stops[k].status) /\ q.checkin = d.stops[k].checkin
          /\ q.travelled = d.stops[k].travelled
          /\ q.arrivals = d.stops[k].arrivals /\ q.outcomes = d.stops[k].outcomes
      BY <1>2, <3>1 DEF Row
    <3>3. e.stops[k] = q
      BY <1>1, <2>1
    <3> HIDE DEF q, settled, e
    <3>4. Onward(d.stops[k], q)
      BY <1>2, <3>1, <3>2, EventsStay
    <3> QED BY <3>3, <3>4
  <2>2. CASE k \notin Stops(d)
    <3>1. d.stops[k].status = "none"
      BY <2>2 DEF Stops
    <3>2. ~Eventful(d.stops[k])
      BY <1>2, <3>1, NothingHappened DEF RowKept
    <3>3. settled(k, "pendente") \in LiveStopStatuses
      BY DEF LiveStopStatuses, EndedStatuses
    <3>4. RowKept(NewStop(1, FALSE, settled(k, "pendente")))
      BY <3>3, NothingHappened
    <3>5. RowKept(e.stops[k])
      BY <1>1, <1>2, <2>2, <3>4
    <3> QED BY <3>2, <3>5 DEF Onward
  <2> QED BY <2>1, <2>2
<1> QED BY <1>3 DEF Advances

LEMMA ImportPlanAdvances ==
    ASSUME NEW d, RowsKept(d), NEW plan \in [StopIds -> Seqs], NEW added \in BOOLEAN,
           NEW endsNewStops \in BOOLEAN, CanImportPlan(d, added)
    PROVE  Advances(d, AfterImportPlan(d, plan, added, endsNewStops))
<1> DEFINE e == AfterImportPlan(d, plan, added, endsNewStops)
           st == IF endsNewStops /\ d.status = "finalizada" THEN "entregue" ELSE "pendente"
<1>1. \A k \in StopIds :
         e.stops[k] = IF k \in Stops(d) THEN [d.stops[k] EXCEPT !.seq = plan[k]]
                      ELSE IF added /\ k = d.next THEN NewStop(plan[k], FALSE, st)
                      ELSE d.stops[k]
  BY DEF AfterImportPlan, RowsKept, WellFormed, Db
<1>2. \A k \in StopIds : d.stops[k] \in Row /\ RowKept(d.stops[k]) /\ plan[k] \in Nat
  BY SeqsAssumption DEF RowsKept, WellFormed, Db
<1>3. ASSUME NEW k \in StopIds PROVE Onward(d.stops[k], e.stops[k])
  <2>1. CASE k \in Stops(d)
    <3> DEFINE q == [d.stops[k] EXCEPT !.seq = plan[k]]
    <3>0. d.stops[k].status # "none"
      BY <2>1 DEF Stops
    <3>2. /\ q \in Row /\ q.status = d.stops[k].status /\ q.checkin = d.stops[k].checkin
          /\ q.travelled = d.stops[k].travelled
          /\ q.arrivals = d.stops[k].arrivals /\ q.outcomes = d.stops[k].outcomes
      BY <1>2 DEF Row
    <3>3. e.stops[k] = q
      BY <1>1, <2>1
    <3> HIDE DEF q, e
    <3>4. Onward(d.stops[k], q)
      BY <1>2, <3>0, <3>2, EventsStay
    <3> QED BY <3>3, <3>4
  <2>2. CASE k \notin Stops(d)
    <3>1. d.stops[k].status = "none"
      BY <2>2 DEF Stops
    <3>2. ~Eventful(d.stops[k])
      BY <1>2, <3>1, NothingHappened DEF RowKept
    <3>3. st \in LiveStopStatuses
      BY DEF LiveStopStatuses, EndedStatuses
    <3>4. RowKept(NewStop(plan[k], FALSE, st))
      BY <1>2, <3>3, NothingHappened
    <3>5. RowKept(e.stops[k])
      BY <1>1, <1>2, <2>2, <3>4
    <3> QED BY <3>2, <3>5 DEF Onward
  <2> QED BY <2>1, <2>2
<1> QED BY <1>3 DEF Advances

-----------------------------------------------------------------------------
(* The specification                                                        *)

LEMMA HistoryInit == Init => \A k \in StopIds : RowKept(db.stops[k])
<1> SUFFICES ASSUME Init, NEW k \in StopIds PROVE RowKept(db.stops[k])
  OBVIOUS
<1>1. ASSUME NEW n \in 0..MaxStops, NEW plan \in Plans
      PROVE  /\ \A ws \in BOOLEAN : RowKept(PlannedRoute(n, plan, ws).stops[k])
             /\ RowKept(HistoricRoute(n, plan).stops[k])
  <2>1. plan[k].seq \in Nat /\ plan[k].carga \in BOOLEAN
    BY SeqsAssumption DEF Plans
  <2>2. /\ RowKept(NewStop(plan[k].seq, plan[k].carga, "pendente"))
        /\ RowKept(NewStop(plan[k].seq, FALSE, "entregue")) /\ RowKept(NoRow)
    BY <2>1, NothingHappened DEF LiveStopStatuses, EndedStatuses
  <2> QED BY <2>2 DEF PlannedRoute, HistoricRoute
<1> QED BY <1>1 DEF Init, InitPlanned, InitHistoric

LEMMA HistoryAdvances ==
    ASSUME RowsKept(db), Next
    PROVE  Advances(db, db')
<1>1. ASSUME NEW s \in Nat, NEW isCarga \in BOOLEAN, NEW admin \in BOOLEAN, AddStop(s, isCarga, admin)
      PROVE  Advances(db, db')
  BY <1>1, PlanningAdvances DEF AddStop
<1>2. ASSUME NEW isCarga \in BOOLEAN, NEW admin \in BOOLEAN, AppendStop(isCarga, admin)
      PROVE  Advances(db, db')
  <2>1. PICK s \in {1} \cup {db.stops[k].seq + 1 : k \in StopIds} : AddStop(s, isCarga, admin)
    BY <1>2 DEF AppendStop
  <2>2. s \in Nat
    BY <2>1 DEF RowsKept, WellFormed, Db, Row
  <2> QED BY <1>1, <2>1, <2>2
<1>3. ASSUME NEW k \in StopIds, NEW admin \in BOOLEAN,
             \/ \E s \in Seqs, isCarga \in BOOLEAN : UpdateStop(k, s, isCarga, admin)
             \/ DeleteStop(k, admin)
      PROVE  Advances(db, db')
  BY <1>3, PlanningAdvances, SeqsAssumption DEF UpdateStop, DeleteStop
<1>4. ASSUME NEW order \in [StopIds -> StopIds], NEW admin \in BOOLEAN,
             ApplyOptimizedSequence(order, admin)
      PROVE  Advances(db, db')
  BY <1>4, PlanningAdvances DEF ApplyOptimizedSequence
<1>5. CASE \/ ArriveCd \/ EnterDock \/ LoadingStart \/ LoadingFinish
           \/ UploadLoadedPhoto \/ OperatorRelease \/ DepartCd \/ ForceStart
           \/ UploadEmptyTruckPhoto \/ CloseRoute \/ ReopenRoute
  BY <1>5, ColumnsAdvance
     DEF ArriveCd, EnterDock, LoadingStart, LoadingFinish, UploadLoadedPhoto, OperatorRelease,
         DepartCd, ForceStart, UploadEmptyTruckPhoto, CloseRoute, ReopenRoute, DockFields
<1>6. ASSUME NEW k \in StopIds,
             \/ Checkin(k)
             \/ DeliverSuccess(k)
             \/ \E o \in Occurrences : DeliverFailure(k, o)
             \/ \E file \in BOOLEAN : DeliverWithProofSuccess(k, file)
             \/ \E o \in Occurrences : DeliverWithProofFailure(k, o)
             \/ UploadWarehouseReturnProof(k)
             \/ ReplaceRequestedProof(k)
             \/ \E field \in {"proof", "returned"} : RemoveRouteProof(k, field)
      PROVE  Advances(db, db')
  <2>1. k \in Stops(db)
    BY <1>6 DEF Checkin, DeliverSuccess, DeliverFailure, DeliverWithProofSuccess,
                DeliverWithProofFailure, UploadWarehouseReturnProof, ReplaceRequestedProof,
                RemoveRouteProof, CanCheckin, CanDeliver, CanFail, CanDeliverWithProof,
                Deliverable, CanReturnProof, CanReplaceProof, CanRemoveProof, Stops
  <2>2. /\ Advances(db, AfterCheckin(db, k))
        /\ \A file \in BOOLEAN : /\ Advances(db, AfterSuccess(db, k, file))
                                 /\ \A o \in Occurrences : Advances(db, AfterFailure(db, k, file, o))
        /\ Advances(db, AfterReturnProof(db, k)) /\ Advances(db, AfterReplaceProof(db, k))
        /\ \A field \in {"proof", "returned"} : Advances(db, AfterRemoveProof(db, k, field))
    BY <2>1, RoadAdvances
  <2> QED BY <1>6, <2>2
          DEF Checkin, DeliverSuccess, DeliverFailure, DeliverWithProofSuccess,
              DeliverWithProofFailure, UploadWarehouseReturnProof, ReplaceRequestedProof,
              RemoveRouteProof
<1>7. ASSUME NEW o \in Occurrences, NEW st \in OccurrenceStatuses,
             \/ CreateOccurrence(o) \/ UpdateOccurrence(o, st)
             \/ MoveOccurrenceOut(o) \/ MoveOccurrenceIn(o, st)
      PROVE  Advances(db, db')
  BY <1>7, OccurrencesAdvance
     DEF CreateOccurrence, UpdateOccurrence, MoveOccurrenceOut, MoveOccurrenceIn
<1>8. CASE \/ \E c \in RouteCorrections : AdminRouteCorrection(c)
           \/ \E k \in StopIds, c \in StopCorrections : AdminStopCorrection(k, c)
  BY <1>8, RouteCorrectionAdvances, StopCorrectionAdvances, CorrectionsAssumption
     DEF AdminRouteCorrection, AdminStopCorrection
<1>9. ASSUME NEW due \in BOOLEAN, NEW added \in BOOLEAN,
             NEW final \in [StopIds -> {"none", "entregue", "devolvido"}],
             TorreSync(due, final, added)
      PROVE  Advances(db, db')
  BY <1>9, TorreSyncAdvances DEF TorreSync
<1>10. ASSUME NEW plan \in [StopIds -> Seqs], NEW added \in BOOLEAN,
              NEW endsNewStops \in BOOLEAN, ImportPlan(plan, added, endsNewStops)
       PROVE  Advances(db, db')
  BY <1>10, ImportPlanAdvances DEF ImportPlan
<1>11. CASE \E s \in Seqs, isCarga, admin \in BOOLEAN : AddStop(s, isCarga, admin)
  BY <1>1, <1>11, SeqsAssumption
<1>12. CASE \/ \E isCarga, admin \in BOOLEAN : AppendStop(isCarga, admin)
            \/ \E k \in StopIds, s \in Seqs, isCarga, admin \in BOOLEAN : UpdateStop(k, s, isCarga, admin)
            \/ \E k \in StopIds, admin \in BOOLEAN : DeleteStop(k, admin)
            \/ \E order \in [StopIds -> StopIds], admin \in BOOLEAN : ApplyOptimizedSequence(order, admin)
  BY <1>2, <1>3, <1>4, <1>12
<1>13. CASE \/ \E k \in StopIds : Checkin(k)
            \/ \E k \in StopIds : DeliverSuccess(k)
            \/ \E k \in StopIds, o \in Occurrences : DeliverFailure(k, o)
            \/ \E k \in StopIds, file \in BOOLEAN : DeliverWithProofSuccess(k, file)
            \/ \E k \in StopIds, o \in Occurrences : DeliverWithProofFailure(k, o)
            \/ \E k \in StopIds : UploadWarehouseReturnProof(k)
            \/ \E k \in StopIds : ReplaceRequestedProof(k)
            \/ \E k \in StopIds, field \in {"proof", "returned"} : RemoveRouteProof(k, field)
  BY <1>6, <1>13
<1>14. CASE \/ \E o \in Occurrences : CreateOccurrence(o)
            \/ \E o \in Occurrences, st \in OccurrenceStatuses : UpdateOccurrence(o, st)
            \/ \E o \in Occurrences : MoveOccurrenceOut(o)
            \/ \E o \in Occurrences, st \in OccurrenceStatuses : MoveOccurrenceIn(o, st)
  <2>1. "aberta" \in OccurrenceStatuses
    BY DEF OccurrenceStatuses, OpenOccurrenceStatuses
  <2> QED BY <1>7, <1>14, <2>1
<1>15. CASE \/ \E due, added \in BOOLEAN, final \in [StopIds -> {"none", "entregue", "devolvido"}] :
                  TorreSync(due, final, added)
            \/ \E plan \in [StopIds -> Seqs], added, endsNewStops \in BOOLEAN :
                  ImportPlan(plan, added, endsNewStops)
  BY <1>9, <1>10, <1>15
<1> QED BY <1>5, <1>8, <1>11, <1>12, <1>13, <1>14, <1>15 DEF Next

History == TypeOK /\ \A k \in StopIds : RowKept(db.stops[k])

LEMMA HistoryStepKept ==
    ASSUME History, [Next]_vars
    PROVE  History' /\ HistoryStep
<1>0. RowsKept(db) /\ TypeOK'
  BY TypeStep DEF History, RowsKept, TypeOK, WellFormed, Fresh
<1>1. Advances(db, db')
  <2>1. CASE Next
    BY <1>0, <2>1, HistoryAdvances
  <2>2. CASE UNCHANGED vars
    BY <1>0, <2>2, StopsStay DEF vars
  <2> QED BY <2>1, <2>2
<1>2. History'
  BY <1>0, <1>1 DEF History, Advances, Onward
<1>3. HistoryStep
  BY <1>1 DEF HistoryStep, Advances, Onward, Stops
<1> QED BY <1>2, <1>3

LEMMA HistoryAlways == Spec => []History
<1>1. Init => History
  BY TypeInit, HistoryInit DEF History
<1>2. History /\ [Next]_vars => History'
  BY HistoryStepKept
<1> QED BY <1>1, <1>2, PTL DEF Spec

\* Nobody fabricates an arrival: a stop with checkin_at has its ARRIVED_STOP event,
\* whatever was corrected, synchronised or imported.
THEOREM ArrivalHasEventAlways == Spec => []ArrivalHasEvent
<1>1. History => ArrivalHasEvent
  BY DEF History, RowKept, ArrivalHasEvent
<1> QED BY <1>1, HistoryAlways, PTL

\* No intervention deletes a stop that events refer to, nor one of its events.
THEOREM HistoryKeptAlways == Spec => HistoryKept
<1>1. History /\ [Next]_vars => [HistoryStep]_vars
  BY HistoryStepKept
<1> QED BY <1>1, HistoryAlways, PTL DEF Spec, HistoryKept

-----------------------------------------------------------------------------
(* Where the events of operation come from.                                 *)

\* No outcome is announced, or that of a delivery which ends with it, once.
AnnouncedBy(d, e, k) ==
    \/ e.stops[k].outcomes = d.stops[k].outcomes
    \/ /\ e.stops[k].outcomes = Tick(d.stops[k].outcomes)
       /\ k \in OpenStops(d) /\ e.stops[k].status \in {"entregue", "falha"}
Announced(d, e) == \A k \in StopIds : AnnouncedBy(d, e, k)

\* A promotion announces nothing and writes no stop with an outcome.
LEMMA PromotionSilent ==
    ASSUME NEW d, NEW e, WellFormed(e), Announced(d, e)
    PROVE  Announced(d, StartNextStopTravel(e))
<1>1. ASSUME NEW k \in StopIds
      PROVE  \/ StartNextStopTravel(e).stops[k] = e.stops[k]
             \/ /\ e.stops[k].status = "pendente"
                /\ StartNextStopTravel(e).stops[k] = Promoted(e.stops[k])
  BY DEF StartNextStopTravel, WellFormed, Db
<1>2. \A k \in StopIds : e.stops[k] \in Row /\ Promoted(e.stops[k]).outcomes = e.stops[k].outcomes
  BY DEF WellFormed, Db, Promoted, Row
<1> QED BY <1>1, <1>2 DEF Announced, AnnouncedBy

LEMMA StopWrittenAnnounced ==
    ASSUME NEW d, WellFormed(d), NEW k \in StopIds, NEW q,
           \/ q.outcomes = d.stops[k].outcomes
           \/ /\ q.outcomes = Tick(d.stops[k].outcomes)
              /\ k \in OpenStops(d) /\ q.status \in {"entregue", "falha"}
    PROVE  Announced(d, WithStop(d, k, q))
<1>1. \A j \in StopIds : WithStop(d, k, q).stops[j] = IF j = k THEN q ELSE d.stops[j]
  BY DEF WithStop, WellFormed, Db
<1> QED BY <1>1 DEF Announced, AnnouncedBy

LEMMA ColumnsSilent ==
    ASSUME NEW d, WellFormed(d), NEW field \in DockFields
    PROVE  /\ Announced(d, AfterSetDockTime(d, field))
           /\ Announced(d, AfterLoadedPhoto(d)) /\ Announced(d, AfterEmptyPhoto(d))
           /\ Announced(d, AfterRelease(d)) /\ Announced(d, AfterDepart(d))
           /\ Announced(d, AfterForceStart(d)) /\ Announced(d, AfterClose(d))
           /\ Announced(d, AfterReopen(d))
<1>1. \A e : e.stops = d.stops => Announced(d, e)
  BY DEF Announced, AnnouncedBy
<1>2. /\ AfterSetDockTime(d, field).stops = d.stops /\ AfterClose(d).stops = d.stops
      /\ AfterLoadedPhoto(d).stops = d.stops /\ AfterEmptyPhoto(d).stops = d.stops
      /\ AfterReopen(d).stops = d.stops
  BY DEF AfterSetDockTime, AfterClose, AfterLoadedPhoto, AfterEmptyPhoto, AfterReopen, WellFormed, Db
<1>3. Announced(d, AfterRelease(d))
  <2> DEFINE e == [d EXCEPT !.dock = @ \cup {"operator_released_at", "departure_cd_at"},
                            !.departed = TRUE, !.status = "em_rota"]
  <2>1. WellFormed(e) /\ e.stops = d.stops
    BY DEF WellFormed, Fresh, Db, RouteStatuses, DockFields
  <2> HIDE DEF e
  <2>2. Announced(d, StartNextStopTravel(e))
    BY <1>1, <2>1, PromotionSilent
  <2> QED BY <2>2 DEF AfterRelease, e
<1>4. Announced(d, AfterDepart(d))
  <2> DEFINE e == [d EXCEPT !.dock = @ \cup {"departure_cd_at"}, !.departed = TRUE, !.status = "em_rota"]
  <2>1. WellFormed(e) /\ e.stops = d.stops
    BY DEF WellFormed, Fresh, Db, RouteStatuses, DockFields
  <2> HIDE DEF e
  <2>2. Announced(d, StartNextStopTravel(e))
    BY <1>1, <2>1, PromotionSilent
  <2> QED BY <2>2 DEF AfterDepart, e
<1>5. Announced(d, AfterForceStart(d))
  <2> DEFINE e == [d EXCEPT !.session = TRUE, !.dock = DockFields, !.departed = TRUE, !.status = "em_rota"]
  <2>1. WellFormed(e) /\ e.stops = d.stops
    BY DEF WellFormed, Fresh, Db, RouteStatuses
  <2> HIDE DEF e
  <2>2. Announced(d, StartNextStopTravel(e))
    BY <1>1, <2>1, PromotionSilent
  <2> QED BY <2>2 DEF AfterForceStart, e
<1> QED BY <1>1, <1>2, <1>3, <1>4, <1>5

LEMMA RoadAnnounced ==
    ASSUME NEW d, Operational(d), NEW k \in StopIds
    PROVE  /\ Announced(d, AfterCheckin(d, k))
           /\ Deliverable(d, k) => \A file \in BOOLEAN :
                /\ Announced(d, AfterSuccess(d, k, file))
                /\ \A o \in Occurrences : Announced(d, AfterFailure(d, k, file, o))
           /\ Announced(d, AfterReplaceProof(d, k))
           /\ \A field \in {"proof", "returned"} : Announced(d, AfterRemoveProof(d, k, field))
<1> DEFINE r == d.stops[k]
<1>0. WellFormed(d) /\ r \in Row /\ RowSound(r)
  BY DEF Operational, WellFormed, Db, StopsSound
<1>1. Announced(d, AfterCheckin(d, k))
  <2>1. CheckedIn(r).outcomes = r.outcomes
    BY <1>0 DEF CheckedIn, Row
  <2> QED BY <1>0, <2>1, StopWrittenAnnounced DEF AfterCheckin
<1>2. ASSUME Deliverable(d, k)
      PROVE  k \in Stops(d) /\ k \in OpenStops(d) /\ EnsureStopCheckin(r).outcomes = r.outcomes
                /\ EnsureStopCheckin(r) \in Row
  <2>1. k \in Stops(d) /\ r.status \notin {"entregue", "falha"}
    BY <1>2 DEF Deliverable
  <2>2. k \in OpenStops(d)
    BY <1>0, <2>1 DEF OpenStops, EndedStatuses, RowSound
  <2>3. EnsureStopCheckin(r).outcomes = r.outcomes
    BY <1>0 DEF EnsureStopCheckin, Row
  <2> QED BY <1>0, <2>1, <2>2, <2>3, RowTyped
<1>3. ASSUME Deliverable(d, k), NEW file \in BOOLEAN PROVE Announced(d, AfterSuccess(d, k, file))
  <2> DEFINE c == EnsureStopCheckin(r)
             s == Succeeded(c, file)
  <2>1. c \in Row /\ c.outcomes = r.outcomes /\ k \in OpenStops(d) /\ k \in Stops(d)
    BY <1>2, <1>3
  <2> HIDE DEF c
  <2>2. s \in Row /\ s.outcomes = Tick(r.outcomes) /\ s.status = "entregue"
    <3>1. s \in Row
      BY <2>1, RowTyped
    <3>2. s.outcomes = Tick(c.outcomes) /\ s.status = "entregue"
      BY <2>1 DEF Succeeded, Row
    <3> QED BY <2>1, <3>1, <3>2
  <2> HIDE DEF s
  <2>3. WellFormed(WithStop(d, k, s)) /\ Announced(d, WithStop(d, k, s))
    BY <1>0, <2>1, <2>2, StopTyped, StopWrittenAnnounced
  <2>4. Announced(d, StartNextStopTravel(WithStop(d, k, s)))
    BY <2>3, PromotionSilent
  <2> QED BY <2>4 DEF AfterSuccess, s, c
<1>4. ASSUME Deliverable(d, k), NEW file \in BOOLEAN, NEW o \in Occurrences
      PROVE  Announced(d, AfterFailure(d, k, file, o))
  <2> DEFINE c == EnsureStopCheckin(r)
             f == Failed(c, file)
             w == WithStop(d, k, f)
             e == [w EXCEPT !.occ[o] = "aberta"]
  <2>1. c \in Row /\ c.outcomes = r.outcomes /\ k \in OpenStops(d) /\ k \in Stops(d)
    BY <1>2, <1>4
  <2> HIDE DEF c
  <2>2. f \in Row /\ f.outcomes = Tick(r.outcomes) /\ f.status = "falha"
    <3>1. f \in Row
      BY <2>1, RowTyped
    <3>2. f.outcomes = Tick(c.outcomes) /\ f.status = "falha"
      BY <2>1 DEF Failed, Row
    <3> QED BY <2>1, <3>1, <3>2
  <2> HIDE DEF f
  <2>3. WellFormed(w) /\ Announced(d, w)
    BY <1>0, <2>1, <2>2, StopTyped, StopWrittenAnnounced
  <2>5. AfterFailure(d, k, file, o) = StartNextStopTravel(e)
    BY DEF AfterFailure, f, c
  <2> HIDE DEF w
  <2>6. WellFormed(e) /\ e.stops = w.stops
    BY <2>3 DEF WellFormed, Fresh, Db, OccurrenceStatuses, OpenOccurrenceStatuses
  <2>7. Announced(d, e)
    BY <2>3, <2>6 DEF Announced, AnnouncedBy
  <2> HIDE DEF e
  <2> QED BY <2>5, <2>6, <2>7, PromotionSilent
<1>5. Announced(d, AfterReplaceProof(d, k))
  <2>1. [r EXCEPT !.proof = TRUE].outcomes = r.outcomes
    BY <1>0 DEF Row
  <2> QED BY <1>0, <2>1, StopWrittenAnnounced DEF AfterReplaceProof
<1>6. ASSUME NEW field \in {"proof", "returned"} PROVE Announced(d, AfterRemoveProof(d, k, field))
  <2>1. [r EXCEPT ![field] = FALSE].outcomes = r.outcomes
    BY <1>0 DEF Row
  <2> QED BY <1>0, <2>1, StopWrittenAnnounced DEF AfterRemoveProof
<1> QED BY <1>1, <1>3, <1>4, <1>5, <1>6

LEMMA OccurrencesSilent ==
    ASSUME NEW d, WellFormed(d), NEW o \in Occurrences, NEW st
    PROVE  /\ Announced(d, AfterCreateOccurrence(d, o))
           /\ Announced(d, AfterUpdateOccurrence(d, o, st))
           /\ Announced(d, AfterMoveOccurrenceOut(d, o))
           /\ Announced(d, AfterMoveOccurrenceIn(d, o, st))
<1>1. ASSUME NEW k \in StopIds
      PROVE  AfterCreateOccurrence(d, o).stops[k].outcomes = d.stops[k].outcomes
  <2> DEFINE q == [d.stops[k] EXCEPT !.status = "pendente"]
  <2>1. AfterCreateOccurrence(d, o).stops[k] = IF Travelling(d, k) THEN q ELSE d.stops[k]
    BY DEF AfterCreateOccurrence, WellFormed, Db
  <2>2. q.outcomes = d.stops[k].outcomes
    BY DEF WellFormed, Db, Row
  <2> HIDE DEF q
  <2> QED BY <2>1, <2>2
<1>2. /\ AfterUpdateOccurrence(d, o, st).stops = d.stops
      /\ AfterMoveOccurrenceOut(d, o).stops = d.stops
      /\ AfterMoveOccurrenceIn(d, o, st).stops = d.stops
  BY DEF AfterUpdateOccurrence, AfterMoveOccurrenceOut, AfterMoveOccurrenceIn, WellFormed, Db
<1> QED BY <1>1, <1>2 DEF Announced, AnnouncedBy

\* A plan is made of stops without events, before the edit and after it.
LEMMA PlanSilent ==
    ASSUME NEW d, Operational(d), \A k \in StopIds : RowKept(d.stops[k]), d.status = "planejada",
           NEW k \in StopIds
    PROVE  d.stops[k].outcomes = 0
<1>1. d.stops[k] \in Row /\ RowKept(d.stops[k])
  BY DEF Operational, WellFormed, Db
<1>2. ~Eventful(d.stops[k])
  <2>1. CASE k \in Stops(d)
    BY <2>1, PlannedWaits DEF Waiting
  <2>2. CASE k \notin Stops(d)
    BY <1>1, <2>2, NothingHappened DEF RowKept, Stops
  <2> QED BY <2>1, <2>2
<1> QED BY <1>1, <1>2 DEF Eventful, Row, Tally

LEMMA AnnouncedStep ==
    ASSUME Sound, History, Next, overrides' = {}
    PROVE  Announced(db, db') \/ \E k \in StopIds : UploadWarehouseReturnProof(k)
<1>p. ASSUME NEW admin \in BOOLEAN, Planning(admin)
      PROVE  db.status = "planejada" /\ overrides = {}
  BY <1>p DEF Planning
<1>1. CASE \/ \E s \in Seqs, isCarga, admin \in BOOLEAN : AddStop(s, isCarga, admin)
           \/ \E isCarga, admin \in BOOLEAN : AppendStop(isCarga, admin)
           \/ \E k \in StopIds, s \in Seqs, isCarga, admin \in BOOLEAN : UpdateStop(k, s, isCarga, admin)
           \/ \E k \in StopIds, admin \in BOOLEAN : DeleteStop(k, admin)
           \/ \E order \in [StopIds -> StopIds], admin \in BOOLEAN : ApplyOptimizedSequence(order, admin)
           \/ \E plan \in [StopIds -> Seqs], added, endsNewStops \in BOOLEAN :
                 ImportPlan(plan, added, endsNewStops)
  <2>1. db.status = "planejada" /\ overrides = {}
    BY <1>1, <1>p DEF AddStop, AppendStop, UpdateStop, DeleteStop, ApplyOptimizedSequence, ImportPlan
  <2>2. Operational(db) /\ Operational(db')
    BY <2>1, SoundStep DEF Sound, Untouched
  <2>3. db \in Db /\ db'.status = db.status
    <3>1. db \in Db
      BY <2>2 DEF Operational, WellFormed
    <3>2. ASSUME NEW s, NEW isCarga, NEW admin, AddStop(s, isCarga, admin) PROVE db'.status = db.status
      BY <3>1, <3>2 DEF AddStop, AfterAddStop, WithStop, Db
    <3>3. ASSUME NEW isCarga, NEW admin, AppendStop(isCarga, admin) PROVE db'.status = db.status
      BY <3>2, <3>3 DEF AppendStop
    <3>4. ASSUME NEW k, NEW s, NEW isCarga, NEW admin, UpdateStop(k, s, isCarga, admin)
          PROVE  db'.status = db.status
      BY <3>1, <3>4 DEF UpdateStop, AfterUpdateStop, WithStop, Db
    <3>5. ASSUME NEW k, NEW admin, DeleteStop(k, admin) PROVE db'.status = db.status
      BY <3>1, <3>5 DEF DeleteStop, AfterDeleteStop, WithStop, Db
    <3>6. ASSUME NEW order, NEW admin, ApplyOptimizedSequence(order, admin) PROVE db'.status = db.status
      BY <3>1, <3>6 DEF ApplyOptimizedSequence, AfterApplyOptimizedSequence, Db
    <3>7. ASSUME NEW plan, NEW added, NEW ends, ImportPlan(plan, added, ends) PROVE db'.status = db.status
      BY <3>1, <3>7 DEF ImportPlan, AfterImportPlan, Db
    <3> QED BY <1>1, <3>1, <3>2, <3>3, <3>4, <3>5, <3>6, <3>7
  <2>4. /\ \A k \in StopIds : RowKept(db.stops[k])
        /\ \A k \in StopIds : RowKept(db'.stops[k])
    BY HistoryStepKept DEF History
  <2>5. ASSUME NEW k \in StopIds PROVE db'.stops[k].outcomes = db.stops[k].outcomes
    <3>1. db.stops[k].outcomes = 0
      BY <2>1, <2>2, <2>4, PlanSilent
    <3>2. db'.stops[k].outcomes = 0
      BY <2>1, <2>2, <2>3, <2>4, PlanSilent
    <3> QED BY <3>1, <3>2
  <2> QED BY <2>5 DEF Announced, AnnouncedBy
<1>2. CASE \/ \E c \in RouteCorrections : AdminRouteCorrection(c)
           \/ \E k \in StopIds, c \in StopCorrections : AdminStopCorrection(k, c)
           \/ \E due, added \in BOOLEAN, final \in [StopIds -> {"none", "entregue", "devolvido"}] :
                 TorreSync(due, final, added)
  BY <1>2 DEF AdminRouteCorrection, AdminStopCorrection, TorreSync
<1>3. ASSUME UNCHANGED overrides PROVE Operational(db) /\ WellFormed(db)
  BY <1>3 DEF Sound, Untouched, Operational
<1>4. CASE \/ ArriveCd \/ EnterDock \/ LoadingStart \/ LoadingFinish
           \/ UploadLoadedPhoto \/ OperatorRelease \/ DepartCd \/ ForceStart
           \/ UploadEmptyTruckPhoto \/ CloseRoute \/ ReopenRoute
  <2>1. WellFormed(db)
    BY <1>3, <1>4 DEF ArriveCd, EnterDock, LoadingStart, LoadingFinish, UploadLoadedPhoto, OperatorRelease,
                      DepartCd, ForceStart, UploadEmptyTruckPhoto, CloseRoute, ReopenRoute
  <2>2. {"arrival_cd_at", "dock_entry_at", "loading_started_at", "loading_finished_at"} \subseteq DockFields
    BY DEF DockFields
  <2> QED BY <1>4, <2>1, <2>2, ColumnsSilent
          DEF ArriveCd, EnterDock, LoadingStart, LoadingFinish, UploadLoadedPhoto, OperatorRelease,
              DepartCd, ForceStart, UploadEmptyTruckPhoto, CloseRoute, ReopenRoute
<1>5. ASSUME NEW k \in StopIds,
             Checkin(k) \/ DeliverSuccess(k) \/ (\E file \in BOOLEAN : DeliverWithProofSuccess(k, file))
      PROVE  Announced(db, db')
  <2>1. Operational(db)
    BY <1>3, <1>5 DEF Checkin, DeliverSuccess, DeliverWithProofSuccess
  <2> QED BY <1>5, <2>1, RoadAnnounced
          DEF Checkin, DeliverSuccess, DeliverWithProofSuccess, CanDeliver, CanDeliverWithProof
<1>6. ASSUME NEW k \in StopIds, NEW o \in Occurrences, DeliverFailure(k, o) \/ DeliverWithProofFailure(k, o)
      PROVE  Announced(db, db')
  <2>1. Operational(db)
    BY <1>3, <1>6 DEF DeliverFailure, DeliverWithProofFailure
  <2> QED BY <1>6, <2>1, RoadAnnounced DEF DeliverFailure, DeliverWithProofFailure, CanFail
<1>7. ASSUME NEW k \in StopIds,
             ReplaceRequestedProof(k) \/ \E field \in {"proof", "returned"} : RemoveRouteProof(k, field)
      PROVE  Announced(db, db')
  <2>1. Operational(db)
    BY <1>3, <1>7 DEF ReplaceRequestedProof, RemoveRouteProof
  <2> QED BY <1>7, <2>1, RoadAnnounced DEF ReplaceRequestedProof, RemoveRouteProof
<1>8. ASSUME NEW o \in Occurrences, NEW st,
             \/ CreateOccurrence(o) \/ UpdateOccurrence(o, st)
             \/ MoveOccurrenceOut(o) \/ MoveOccurrenceIn(o, st)
      PROVE  Announced(db, db')
  <2>1. WellFormed(db)
    BY <1>3, <1>8 DEF CreateOccurrence, UpdateOccurrence, MoveOccurrenceOut, MoveOccurrenceIn
  <2> QED BY <1>8, <2>1, OccurrencesSilent
          DEF CreateOccurrence, UpdateOccurrence, MoveOccurrenceOut, MoveOccurrenceIn
<1> QED BY <1>1, <1>2, <1>4, <1>5, <1>6, <1>7, <1>8 DEF Next

\* The receipt of one stop is the only other announcement, and of that stop alone.
LEMMA ReceiptAnnounced ==
    ASSUME NEW d, WellFormed(d), NEW j \in StopIds, NEW k \in StopIds,
           AfterReturnProof(d, j).stops[k].outcomes # d.stops[k].outcomes
    PROVE  k = j /\ AfterReturnProof(d, j).stops[k].outcomes = Tick(d.stops[k].outcomes)
<1> DEFINE q == [d.stops[j] EXCEPT !.returned = TRUE, !.outcomes = Tick(d.stops[j].outcomes)]
<1>1. q.outcomes = Tick(d.stops[j].outcomes)
  BY DEF WellFormed, Db, Row
<1>2. AfterReturnProof(d, j) = WithStop(d, j, q)
  BY DEF AfterReturnProof
<1> HIDE DEF q
<1>3. WithStop(d, j, q).stops[k] = IF k = j THEN q ELSE d.stops[k]
  BY DEF WithStop, WellFormed, Db
<1> QED BY <1>1, <1>2, <1>3

\* The timeline tells what the rows tell, and every event of an outcome was
\* announced by the delivery that ended or by the receipt of the warehouse.
THEOREM EventLedgerAlways == Spec => EventLedger
<1>1. ASSUME Sound, History, [Next]_vars PROVE [AnnouncedOnce]_vars
  <2> SUFFICES ASSUME Next, overrides' = {}, NEW k \in StopIds,
                      db'.stops[k].outcomes # db.stops[k].outcomes
               PROVE  /\ db'.stops[k].outcomes = Tick(db.stops[k].outcomes)
                      /\ \/ k \in OpenStops(db) /\ db'.stops[k].status \in {"entregue", "falha"}
                         \/ UploadWarehouseReturnProof(k)
    BY <1>1 DEF AnnouncedOnce
  <2>1. CASE Announced(db, db')
    BY <2>1 DEF Announced, AnnouncedBy
  <2>2. ASSUME NEW j \in StopIds, UploadWarehouseReturnProof(j)
        PROVE  k = j /\ db'.stops[k].outcomes = Tick(db.stops[k].outcomes)
    <3>1. WellFormed(db) /\ db' = AfterReturnProof(db, j)
      BY <1>1, <2>2 DEF Sound, TypeOK, WellFormed, Fresh, UploadWarehouseReturnProof
    <3> QED BY <3>1, ReceiptAnnounced
  <2> QED BY <1>1, <2>1, <2>2, AnnouncedStep
<1> QED BY <1>1, EventsAgreeAlways, SoundAlways, HistoryAlways, PTL DEF Spec, EventLedger

=============================================================================
