------------------------- MODULE RouteHandlers_proofs -------------------------
(***************************************************************************)
(* What the handlers of a route do to its rows, one at a time, for every    *)
(* number of stops and every set of occurrences.                            *)
(***************************************************************************)
EXTENDS RouteHandlers, TLAPS

-----------------------------------------------------------------------------
(* The handlers keep the rows well formed                                   *)

\* Ids not yet handed out have no row.
Fresh(d) == \A k \in StopIds : k >= d.next => d.stops[k] = NoRow
WellFormed(d) == d \in Db /\ Fresh(d)

\* A column is replaced by a value of its kind.
LEMMA StopTyped ==
    ASSUME NEW d, WellFormed(d), NEW k \in Stops(d), NEW r \in Row
    PROVE  WellFormed(WithStop(d, k, r))
<1>1. k \in StopIds /\ d.stops[k].status # "none" /\ k < d.next
  BY DEF WellFormed, Fresh, Stops, NoRow, NewStop, Db, StopIds
<1>2. WithStop(d, k, r) \in Db
  BY <1>1 DEF WithStop, WellFormed, Db
<1>3. Fresh(WithStop(d, k, r))
  BY <1>1 DEF WithStop, WellFormed, Fresh, Db, StopIds
<1> QED BY <1>2, <1>3 DEF WellFormed

\* Every way a handler writes one stop gives a row.
LEMMA RowTyped ==
    ASSUME NEW r \in Row
    PROVE  /\ Promoted(r) \in Row
           /\ EnsureStopCheckin(r) \in Row
           /\ ResetStop(r) \in Row
           /\ CheckedIn(r) \in Row
           /\ \A file \in BOOLEAN : Succeeded(r, file) \in Row /\ Failed(r, file) \in Row
<1>1. Tick(r.arrivals) \in Tally /\ Tick(r.outcomes) \in Tally
  BY DEF Tick, Tally
<1>2. Promoted(r) \in Row
  BY DEF Promoted, Row, StopStatuses, LiveStopStatuses
<1>3. EnsureStopCheckin(r) \in Row
  BY <1>1 DEF EnsureStopCheckin, Row, StopStatuses, LiveStopStatuses
<1>4. ResetStop(r) \in Row
  BY DEF ResetStop, Row, StopStatuses, LiveStopStatuses
<1>5. CheckedIn(r) \in Row
  BY <1>1 DEF CheckedIn, Row, StopStatuses, LiveStopStatuses
<1>6. ASSUME NEW file \in BOOLEAN PROVE Succeeded(r, file) \in Row /\ Failed(r, file) \in Row
  BY <1>1 DEF Succeeded, Failed, Row, StopStatuses, LiveStopStatuses, EndedStatuses
<1> QED BY <1>2, <1>3, <1>4, <1>5, <1>6

\* A promotion writes em_rota to open rows and nothing else.
LEMMA StartNextStopTravelTyped ==
    ASSUME NEW d, WellFormed(d)
    PROVE  WellFormed(StartNextStopTravel(d))
<1> DEFINE st == [k \in StopIds |->
                    IF FirstOpen(d, k) /\ d.stops[k].status = "pendente"
                    THEN Promoted(d.stops[k]) ELSE d.stops[k]]
<1>1. ASSUME NEW k \in StopIds PROVE Promoted(d.stops[k]) \in Row
  BY RowTyped DEF WellFormed, Db
<1>2. st \in [StopIds -> Row]
  BY <1>1 DEF WellFormed, Db
<1>3. [d EXCEPT !.stops = st] \in Db
  BY <1>2 DEF WellFormed, Db
<1>4. \A k \in StopIds : k >= d.next => st[k] = NoRow
  BY DEF WellFormed, Fresh, NoRow, NewStop
<1>5. Fresh([d EXCEPT !.stops = st])
  BY <1>4 DEF WellFormed, Fresh, Db
<1> QED BY <1>3, <1>5 DEF WellFormed, StartNextStopTravel

\* A new stop takes the next id.
LEMMA AddStopTyped ==
    ASSUME NEW d, WellFormed(d), NEW s \in Nat, NEW isCarga \in BOOLEAN,
           NEW admin \in BOOLEAN, CanAddStop(d, admin)
    PROVE  WellFormed(AfterAddStop(d, s, isCarga))
<1>1. NewStop(s, isCarga, "pendente") \in Row
  BY DEF NewStop, Row, StopStatuses, LiveStopStatuses, Tally
<1>2. d.next \in StopIds /\ d.next + 1 \in 1..(MaxStops + 1)
  BY MaxStopsAssumption DEF CanAddStop, WellFormed, Db, StopIds
<1> DEFINE added == WithStop(d, d.next, NewStop(s, isCarga, "pendente"))
<1>3. added \in Db /\ added.next = d.next
  BY <1>1, <1>2 DEF WithStop, WellFormed, Db
<1>4. [added EXCEPT !.next = d.next + 1] \in Db
  <2>1. ASSUME NEW e \in Db, NEW n \in 1..(MaxStops + 1) PROVE [e EXCEPT !.next = n] \in Db
    BY DEF Db
  <2> HIDE DEF added
  <2> QED BY <1>2, <1>3, <2>1
<1>5. Fresh(AfterAddStop(d, s, isCarga))
  BY <1>2 DEF AfterAddStop, WithStop, WellFormed, Fresh, Db, StopIds
<1> QED BY <1>4, <1>5 DEF WellFormed, AfterAddStop

\* Editing a stop touches its own row only.
LEMMA UpdateStopTyped ==
    ASSUME NEW d, WellFormed(d), NEW k \in Stops(d), NEW s \in Nat, NEW isCarga \in BOOLEAN
    PROVE  WellFormed(AfterUpdateStop(d, k, s, isCarga))
<1>1. d.stops[k] \in Row
  BY DEF WellFormed, Db, Stops
<1>2. [d.stops[k] EXCEPT !.seq = s, !.carga = isCarga] \in Row
  BY <1>1 DEF Row
<1> QED BY <1>2, StopTyped DEF AfterUpdateStop

\* A deleted stop leaves its id behind.
LEMMA DeleteStopTyped ==
    ASSUME NEW d, WellFormed(d), NEW k \in Stops(d)
    PROVE  WellFormed(AfterDeleteStop(d, k))
<1>1. NoRow \in Row
  BY DEF NewStop, NoRow, Row, StopStatuses, Tally
<1> QED BY <1>1, StopTyped DEF AfterDeleteStop

\* Reordering writes the sequences of the rows that exist.
LEMMA OptimizedSequenceTyped ==
    ASSUME NEW d, WellFormed(d), NEW order \in [StopIds -> StopIds]
    PROVE  WellFormed(AfterApplyOptimizedSequence(d, order))
<1> DEFINE st == [k \in StopIds |-> IF k \in Stops(d) THEN [d.stops[k] EXCEPT !.seq = order[k]]
                                                   ELSE d.stops[k]]
<1>1. ASSUME NEW k \in StopIds PROVE [d.stops[k] EXCEPT !.seq = order[k]] \in Row
  <2>1. d.stops[k] \in Row /\ order[k] \in Nat
    BY MaxStopsAssumption DEF WellFormed, Db, StopIds
  <2> QED BY <2>1 DEF Row
<1>2. st \in [StopIds -> Row]
  BY <1>1 DEF WellFormed, Db
<1>3. \A k \in StopIds : k >= d.next => st[k] = NoRow
  BY DEF WellFormed, Fresh, Stops, NoRow, NewStop
<1>4. [d EXCEPT !.stops = st] \in Db /\ Fresh([d EXCEPT !.stops = st])
  BY <1>2, <1>3 DEF WellFormed, Fresh, Db
<1> QED BY <1>4 DEF WellFormed, AfterApplyOptimizedSequence

\* The route's own columns keep their kinds through the dock and the closing.
LEMMA RouteColumnsTyped ==
    ASSUME NEW d, WellFormed(d), NEW field \in DockFields
    PROVE  /\ WellFormed(AfterSetDockTime(d, field))
           /\ WellFormed(AfterLoadedPhoto(d))
           /\ WellFormed(AfterRelease(d))
           /\ WellFormed(AfterDepart(d))
           /\ WellFormed(AfterForceStart(d))
           /\ WellFormed(AfterEmptyPhoto(d))
           /\ WellFormed(AfterClose(d))
           /\ WellFormed(AfterReopen(d))
<1>1. WellFormed(AfterSetDockTime(d, field))
  BY DEF AfterSetDockTime, WellFormed, Fresh, Db, RouteStatuses
<1>2. WellFormed(AfterLoadedPhoto(d)) /\ WellFormed(AfterEmptyPhoto(d))
  BY DEF AfterLoadedPhoto, AfterEmptyPhoto, WellFormed, Fresh, Db
<1>3. WellFormed(AfterRelease(d))
  <2>1. WellFormed([d EXCEPT !.dock = @ \cup {"operator_released_at", "departure_cd_at"},
                             !.departed = TRUE, !.status = "em_rota"])
    BY DEF WellFormed, Fresh, Db, RouteStatuses, DockFields
  <2> QED BY <2>1, StartNextStopTravelTyped DEF AfterRelease
<1>4. WellFormed(AfterDepart(d))
  <2>1. WellFormed([d EXCEPT !.dock = @ \cup {"departure_cd_at"},
                             !.departed = TRUE, !.status = "em_rota"])
    BY DEF WellFormed, Fresh, Db, RouteStatuses, DockFields
  <2> QED BY <2>1, StartNextStopTravelTyped DEF AfterDepart
<1>5. WellFormed(AfterForceStart(d))
  <2>1. WellFormed([d EXCEPT !.session = TRUE, !.dock = DockFields,
                             !.departed = TRUE, !.status = "em_rota"])
    BY DEF WellFormed, Fresh, Db, RouteStatuses
  <2> QED BY <2>1, StartNextStopTravelTyped DEF AfterForceStart
<1>6. WellFormed(AfterClose(d))
  <2>1. Tick(d.closings) \in Tally
    BY DEF Tally, Tick
  <2> QED BY <2>1 DEF AfterClose, WellFormed, Fresh, Db, RouteStatuses
<1>7. WellFormed(AfterReopen(d))
  <2>1. 0 \in Tally
    BY DEF Tally
  <2> QED BY <2>1 DEF AfterReopen, WellFormed, Fresh, Db, RouteStatuses
<1> QED BY <1>1, <1>2, <1>3, <1>4, <1>5, <1>6, <1>7

\* So do the columns of a stop on the road.
LEMMA RoadTyped ==
    ASSUME NEW d, WellFormed(d), NEW k \in Stops(d),
           NEW file \in BOOLEAN, NEW field \in {"proof", "returned"}
    PROVE  /\ WellFormed(AfterCheckin(d, k))
           /\ WellFormed(AfterSuccess(d, k, file))
           /\ \A o \in Occurrences : WellFormed(AfterFailure(d, k, file, o))
           /\ WellFormed(AfterReturnProof(d, k))
           /\ WellFormed(AfterReplaceProof(d, k))
           /\ WellFormed(AfterRemoveProof(d, k, field))
<1> DEFINE r == d.stops[k]
<1>1. k \in StopIds /\ r \in Row
  BY DEF Stops, WellFormed, Db
<1>2. /\ EnsureStopCheckin(r) \in Row
      /\ CheckedIn(r) \in Row
      /\ Succeeded(EnsureStopCheckin(r), file) \in Row
      /\ Failed(EnsureStopCheckin(r), file) \in Row
  BY <1>1, RowTyped
<1>3. WellFormed(AfterCheckin(d, k))
  BY <1>2, StopTyped DEF AfterCheckin
<1>4. WellFormed(AfterSuccess(d, k, file))
  BY <1>2, StopTyped, StartNextStopTravelTyped DEF AfterSuccess
<1>5. ASSUME NEW o \in Occurrences PROVE WellFormed(AfterFailure(d, k, file, o))
  <2> DEFINE failed == WithStop(d, k, Failed(EnsureStopCheckin(r), file))
  <2>1. WellFormed(failed)
    BY <1>2, StopTyped
  <2>2. WellFormed([failed EXCEPT !.occ[o] = "aberta"])
    <3> HIDE DEF failed
    <3> QED BY <2>1 DEF WellFormed, Fresh, Db, OccurrenceStatuses, OpenOccurrenceStatuses
  <2> QED BY <2>2, StartNextStopTravelTyped DEF AfterFailure
<1>6. WellFormed(AfterReturnProof(d, k))
  <2>1. Tick(r.outcomes) \in Tally
    BY DEF Tick, Tally
  <2>2. [r EXCEPT !.returned = TRUE, !.outcomes = Tick(r.outcomes)] \in Row
    BY <1>1, <2>1 DEF Row
  <2> QED BY <2>2, StopTyped DEF AfterReturnProof
<1>7. WellFormed(AfterReplaceProof(d, k))
  <2>1. [r EXCEPT !.proof = TRUE] \in Row
    BY <1>1 DEF Row
  <2> QED BY <2>1, StopTyped DEF AfterReplaceProof
<1>8. WellFormed(AfterRemoveProof(d, k, field))
  <2>1. [r EXCEPT ![field] = FALSE] \in Row
    BY <1>1 DEF Row
  <2> QED BY <2>1, StopTyped DEF AfterRemoveProof
<1> QED BY <1>3, <1>4, <1>5, <1>6, <1>7, <1>8

\* Occurrences change no stop but to take the current leg back.
LEMMA OccurrencesTyped ==
    ASSUME NEW d, WellFormed(d), NEW o \in Occurrences, NEW st \in OccurrenceStatuses
    PROVE  /\ WellFormed(AfterCreateOccurrence(d, o))
           /\ WellFormed(AfterUpdateOccurrence(d, o, st))
           /\ WellFormed(AfterMoveOccurrenceOut(d, o))
           /\ WellFormed(AfterMoveOccurrenceIn(d, o, st))
<1>1. WellFormed(AfterCreateOccurrence(d, o))
  <2> DEFINE stops == [k \in StopIds |-> IF Travelling(d, k)
                                         THEN [d.stops[k] EXCEPT !.status = "pendente"]
                                         ELSE d.stops[k]]
  <2>1. \A k \in StopIds : [d.stops[k] EXCEPT !.status = "pendente"] \in Row
    BY DEF WellFormed, Db, Row, StopStatuses, LiveStopStatuses
  <2>2. stops \in [StopIds -> Row]
    BY <2>1 DEF WellFormed, Db
  <2>3. \A k \in StopIds : k >= d.next => stops[k] = NoRow
    BY DEF WellFormed, Fresh, Travelling, NoRow, NewStop
  <2> HIDE DEF stops
  <2>4. WellFormed([d EXCEPT !.occ[o] = "aberta", !.stops = stops])
    BY <2>2, <2>3 DEF WellFormed, Fresh, Db, OccurrenceStatuses, OpenOccurrenceStatuses
  <2> QED BY <2>4 DEF AfterCreateOccurrence, stops
<1>2. /\ WellFormed(AfterUpdateOccurrence(d, o, st))
      /\ WellFormed(AfterMoveOccurrenceOut(d, o))
      /\ WellFormed(AfterMoveOccurrenceIn(d, o, st))
  <2>1. ASSUME NEW x \in OccurrenceStatuses \cup {"none"}
        PROVE  WellFormed([d EXCEPT !.occ[o] = x])
    BY DEF WellFormed, Fresh, Db
  <2> QED BY <2>1 DEF AfterUpdateOccurrence, AfterMoveOccurrenceOut, AfterMoveOccurrenceIn
<1> QED BY <1>1, <1>2

\* A correction may set the route's columns to any mixture of their values.
LEMMA RouteCorrectionTyped ==
    ASSUME NEW d, WellFormed(d), NEW rc \in RouteCorrection
    PROVE  WellFormed(AfterAdminRouteCorrection(d, rc))
<1>1. ASSUME NEW e, WellFormed(e), NEW st \in RouteStatuses \cup {"none"}, NEW reset \in BOOLEAN
      PROVE  WellFormed(AfterRouteStatus(e, st, reset))
  <2>1. ASSUME NEW s \in RouteStatuses, NEW c \in BOOLEAN, NEW p \in BOOLEAN
        PROVE  WellFormed([e EXCEPT !.status = s, !.closedAt = c, !.departed = p])
    BY <1>1 DEF WellFormed, Fresh, Db
  <2>2. WellFormed([e EXCEPT !.status = "planejada"])
    BY <1>1 DEF WellFormed, Fresh, Db, RouteStatuses
  <2>3. /\ (st = "finalizada") \in BOOLEAN
        /\ (e.departed /\ st \notin {"planejada", "em_carregamento", "liberada"}) \in BOOLEAN
    OBVIOUS
  <2>4. st # "none" => st \in RouteStatuses
    BY <1>1
  <2> QED BY <1>1, <2>1, <2>2, <2>3, <2>4 DEF AfterRouteStatus
<1>2. WellFormed(AfterAdminRouteCorrection(d, rc))
  <2> DEFINE e == IF rc.resetDock THEN ResetDockFlow(d) ELSE d
             stops == [j \in StopIds |->
                IF rc.resetStops /\ j \in Stops(d) THEN ResetStop(d.stops[j]) ELSE d.stops[j]]
             f == [e EXCEPT !.stops = stops, !.dock = @ \cup rc.times,
                            !.session = @ \/ rc.times # {}]
  <2>1. WellFormed(e) /\ e.next = d.next
    BY DEF ResetDockFlow, WellFormed, Fresh, Db, DockFields
  <2>2. stops \in [StopIds -> Row]
    <3>1. \A j \in StopIds : ResetStop(d.stops[j]) \in Row
      BY RowTyped DEF WellFormed, Db
    <3> QED BY <3>1 DEF WellFormed, Db
  <2>3. \A j \in StopIds : j >= d.next => stops[j] = NoRow
    BY DEF WellFormed, Fresh, Stops, NoRow, NewStop
  <2> HIDE DEF stops, e
  <2>4. WellFormed(f)
    BY <2>1, <2>2, <2>3 DEF WellFormed, Fresh, Db, RouteCorrection
  <2>5. rc.status \in RouteStatuses \cup {"none"} /\ rc.resetDock \in BOOLEAN
    BY DEF RouteCorrection
  <2> HIDE DEF f
  <2>6. WellFormed(AfterRouteStatus(f, rc.status, rc.resetDock))
    BY <1>1, <2>4, <2>5
  <2> QED BY <2>6 DEF AfterAdminRouteCorrection, f, e, stops
<1> QED BY <1>2

\* And so a correction of a stop.
LEMMA StopCorrectionTyped ==
    ASSUME NEW d, WellFormed(d), NEW k \in StopIds, NEW sc \in StopCorrection,
           CanAdminStopCorrection(d, k, sc)
    PROVE  WellFormed(AfterAdminStopCorrection(d, k, sc))
<1> DEFINE r == d.stops[k]
           undone == sc.status \in {"pendente", "em_rota"}
           status == IF sc.status = "none" THEN r.status ELSE sc.status
           checkin == r.checkin /\ ~sc.clearCheckin /\ sc.status # "pendente"
           delivered == ~undone /\ (sc.status = "entregue" \/ (r.delivered /\ ~sc.clearDelivery))
           reason == ~undone /\ CorrectedReason(d, k, sc)
           proof == r.proof /\ ~sc.clearProofs
           returned == r.returned /\ ~sc.clearProofs
           corrected == [r EXCEPT !.status = status, !.checkin = checkin,
                                  !.delivered = delivered, !.reason = reason,
                                  !.proof = proof, !.returned = returned]
<1>1. r \in Row /\ k \in Stops(d)
  BY DEF WellFormed, Db, CanAdminStopCorrection
<1>2. status \in StopStatuses
  BY <1>1 DEF Row, StopCorrection, StopStatuses
<1>3. corrected \in Row
  <2>1. /\ checkin \in BOOLEAN /\ delivered \in BOOLEAN /\ reason \in BOOLEAN
        /\ proof \in BOOLEAN /\ returned \in BOOLEAN
    OBVIOUS
  <2> HIDE DEF r, status, checkin, delivered, reason, proof, returned
  <2> QED BY <1>1, <1>2, <2>1 DEF Row
<1>4. AfterAdminStopCorrection(d, k, sc) = WithStop(d, k, corrected)
  BY DEF AfterAdminStopCorrection
<1> QED BY <1>1, <1>3, <1>4, StopTyped

\* Writing the stops a spreadsheet knows, and the one it adds.
LEMMA SheetTyped ==
    ASSUME NEW d, WellFormed(d), NEW added \in BOOLEAN, added => d.next <= MaxStops,
           NEW stops \in [StopIds -> Row], NEW st \in RouteStatuses,
           \A k \in StopIds : (k > d.next \/ (k = d.next /\ ~added)) => stops[k] = NoRow
    PROVE  WellFormed([d EXCEPT !.status = st,
                                !.next = IF added THEN d.next + 1 ELSE d.next,
                                !.stops = stops])
<1> DEFINE n == IF added THEN d.next + 1 ELSE d.next
<1>1. n \in 1..(MaxStops + 1)
  BY MaxStopsAssumption DEF WellFormed, Db
<1>2. \A k \in StopIds : k >= n => stops[k] = NoRow
  BY DEF WellFormed, Db, StopIds
<1> HIDE DEF n
<1>3. WellFormed([d EXCEPT !.status = st, !.next = n, !.stops = stops])
  BY <1>1, <1>2 DEF WellFormed, Fresh, Db
<1> QED BY <1>3 DEF n

\* What the two kinds of spreadsheet rely on.
LEMMA SheetRows ==
    ASSUME NEW d, WellFormed(d)
    PROVE  /\ \A s \in Nat, st \in StopStatuses : NewStop(s, FALSE, st) \in Row
           /\ \A k \in StopIds : d.stops[k] \in Row
           /\ \A k \in StopIds : k >= d.next => d.stops[k] = NoRow /\ k \notin Stops(d)
           /\ d.next \in Nat
<1>1. \A s \in Nat, st \in StopStatuses : NewStop(s, FALSE, st) \in Row
  BY DEF NewStop, Row, Tally
<1>2. \A k \in StopIds : d.stops[k] \in Row
  BY DEF WellFormed, Db
<1>3. \A k \in StopIds : k >= d.next => d.stops[k] = NoRow /\ k \notin Stops(d)
  BY DEF WellFormed, Fresh, Stops, NoRow, NewStop
<1>4. d.next \in Nat
  BY MaxStopsAssumption DEF WellFormed, Db
<1> QED BY <1>1, <1>2, <1>3, <1>4

\* The synchronisation settles the stops it knows and may add one.
LEMMA TorreSyncTyped ==
    ASSUME NEW d, WellFormed(d), NEW due \in BOOLEAN, NEW added \in BOOLEAN,
           CanTorreSync(d, added),
           NEW final \in [StopIds -> {"none", "entregue", "devolvido"}]
    PROVE  WellFormed(AfterTorreSync(d, due, final, added))
<1> DEFINE routeStatus == IF due THEN "finalizada" ELSE "planejada"
           settled(k, old) == IF final[k] = "none" THEN old ELSE final[k]
           stops == [k \in StopIds |->
             IF k \in Stops(d) THEN [d.stops[k] EXCEPT !.status = settled(k, d.stops[k].status)]
             ELSE IF added /\ k = d.next THEN NewStop(1, FALSE, settled(k, "pendente"))
             ELSE d.stops[k]]
<1>a. /\ \A s \in Nat, st \in StopStatuses : NewStop(s, FALSE, st) \in Row
      /\ \A k \in StopIds : d.stops[k] \in Row
      /\ \A k \in StopIds : k >= d.next => d.stops[k] = NoRow /\ k \notin Stops(d)
      /\ d.next \in Nat
  BY SheetRows
<1>1. \A k \in StopIds : /\ settled(k, d.stops[k].status) \in StopStatuses
                         /\ settled(k, "pendente") \in StopStatuses
  BY <1>a DEF Row, StopStatuses, LiveStopStatuses, EndedStatuses
<1>2. \A k \in StopIds : /\ [d.stops[k] EXCEPT !.status = settled(k, d.stops[k].status)] \in Row
                         /\ NewStop(1, FALSE, settled(k, "pendente")) \in Row
  <2> HIDE DEF settled
  <2> TAKE k \in StopIds
  <2>1. NewStop(1, FALSE, settled(k, "pendente")) \in Row
    BY <1>a, <1>1
  <2>2. \A r \in Row, st \in StopStatuses : [r EXCEPT !.status = st] \in Row
    BY DEF Row
  <2> QED BY <1>a, <1>1, <2>1, <2>2
<1>3. stops \in [StopIds -> Row]
  <2> HIDE DEF settled
  <2> QED BY <1>a, <1>2
<1>4. \A k \in StopIds : (k > d.next \/ (k = d.next /\ ~added)) => stops[k] = NoRow
  <2> HIDE DEF settled
  <2> TAKE k \in StopIds
  <2> HAVE k > d.next \/ (k = d.next /\ ~added)
  <2>1. k >= d.next /\ ~(added /\ k = d.next)
    BY <1>a DEF StopIds
  <2>2. k \notin Stops(d) /\ d.stops[k] = NoRow
    BY <1>a, <2>1
  <2> QED BY <2>1, <2>2
<1>5. routeStatus \in RouteStatuses
  BY DEF RouteStatuses
<1>6. AfterTorreSync(d, due, final, added)
        = [d EXCEPT !.status = routeStatus,
                    !.next = IF added THEN d.next + 1 ELSE d.next,
                    !.stops = stops]
  BY DEF AfterTorreSync
<1> HIDE DEF stops, routeStatus
<1>b. added => d.next <= MaxStops
  BY DEF CanTorreSync
<1>7. WellFormed([d EXCEPT !.status = routeStatus,
                           !.next = IF added THEN d.next + 1 ELSE d.next,
                           !.stops = stops])
  BY SheetTyped, <1>b, <1>3, <1>4, <1>5
<1> QED BY <1>6, <1>7

\* An import reorders the stops it knows and may append one.
LEMMA ImportPlanTyped ==
    ASSUME NEW d, WellFormed(d), NEW plan \in [StopIds -> Nat], NEW added \in BOOLEAN,
           NEW endsNewStops \in BOOLEAN, CanImportPlan(d, added)
    PROVE  WellFormed(AfterImportPlan(d, plan, added, endsNewStops))
<1> DEFINE new(k) == NewStop(plan[k], FALSE,
                       IF endsNewStops /\ d.status = "finalizada" THEN "entregue" ELSE "pendente")
           stops == [k \in StopIds |->
             IF k \in Stops(d) THEN [d.stops[k] EXCEPT !.seq = plan[k]]
             ELSE IF added /\ k = d.next THEN new(k) ELSE d.stops[k]]
<1>a. /\ \A s \in Nat, st \in StopStatuses : NewStop(s, FALSE, st) \in Row
      /\ \A k \in StopIds : d.stops[k] \in Row
      /\ \A k \in StopIds : k >= d.next => d.stops[k] = NoRow /\ k \notin Stops(d)
      /\ d.next \in Nat
  BY SheetRows
<1>1. \A k \in StopIds : plan[k] \in Nat
  OBVIOUS
<1>2. \A k \in StopIds : [d.stops[k] EXCEPT !.seq = plan[k]] \in Row /\ new(k) \in Row
  <2> TAKE k \in StopIds
  <2>1. new(k) \in Row
    BY <1>a, <1>1 DEF StopStatuses, LiveStopStatuses, EndedStatuses
  <2>2. \A r \in Row, s \in Nat : [r EXCEPT !.seq = s] \in Row
    BY DEF Row
  <2> QED BY <1>a, <1>1, <2>1, <2>2
<1>3. stops \in [StopIds -> Row]
  <2> HIDE DEF new
  <2> QED BY <1>a, <1>2
<1>4. \A k \in StopIds : (k > d.next \/ (k = d.next /\ ~added)) => stops[k] = NoRow
  <2> HIDE DEF new
  <2> QED BY <1>a DEF StopIds
<1>5. AfterImportPlan(d, plan, added, endsNewStops)
        = [d EXCEPT !.status = d.status,
                    !.next = IF added THEN d.next + 1 ELSE d.next,
                    !.stops = stops]
  <2> HIDE DEF stops
  <2>1. d.status \in RouteStatuses /\ d \in Db
    BY DEF WellFormed, Db
  <2>2. AfterImportPlan(d, plan, added, endsNewStops)
          = [d EXCEPT !.next = IF added THEN d.next + 1 ELSE d.next, !.stops = stops]
    BY DEF AfterImportPlan, stops
  <2> QED BY <2>1, <2>2 DEF Db
<1>6. added => d.next <= MaxStops
  BY DEF CanImportPlan
<1>7. d.status \in RouteStatuses
  BY DEF WellFormed, Db
<1> HIDE DEF stops
<1>8. WellFormed([d EXCEPT !.status = d.status,
                           !.next = IF added THEN d.next + 1 ELSE d.next,
                           !.stops = stops])
  BY SheetTyped, <1>3, <1>4, <1>6, <1>7
<1> QED BY <1>5, <1>8

=============================================================================
