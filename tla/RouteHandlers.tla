---------------------------- MODULE RouteHandlers ----------------------------
(***************************************************************************)
(* The request handlers that move one delivery route through its life, as  *)
(* functions on the rows the database keeps for that route: the route, its *)
(* dock session, its stops and its occurrences.  Every handler is a guard  *)
(* CanX(d, ...), the conditions under which it does not answer with an     *)
(* error, and an effect AfterX(d, ...), the rows after its commit.         *)
(*                                                                         *)
(* Timestamps and foreign keys are reduced to "set / not set".  The events *)
(* of the timeline are reduced to tallies: none, one, several.             *)
(***************************************************************************)
EXTENDS Naturals

CONSTANTS
    MaxStops,     \* bound: rows of route_stops ever created for the route
    Occurrences   \* ids of route_occurrences that may be tied to the route

ASSUME MaxStopsAssumption == MaxStops \in Nat

StopIds == 1..MaxStops

RouteStatuses ==
    {"planejada", "em_carregamento", "liberada", "em_rota", "finalizada", "cancelada"}
CLOSED_STATES == {"finalizada", "cancelada"}

EndedStatuses == {"entregue", "falha", "devolvido"}
LiveStopStatuses == {"pendente", "em_rota"} \cup EndedStatuses
StopStatuses == {"none"} \cup LiveStopStatuses      \* "none": no such row

OpenOccurrenceStatuses == {"aberta", "em_tratamento", "resolvida"}
OccurrenceStatuses == OpenOccurrenceStatuses \cup {"finalizada", "cancelada"}

DockFields ==
    {"arrival_cd_at", "dock_entry_at", "loading_started_at",
     "loading_finished_at", "operator_released_at", "departure_cd_at"}

\* The step that must already be recorded before each dock step.
DOCK_FLOW ==
    [f \in DockFields |->
       CASE f = "arrival_cd_at"        -> {}
         [] f = "dock_entry_at"        -> {"arrival_cd_at"}
         [] f = "loading_started_at"   -> {"dock_entry_at"}
         [] f = "loading_finished_at"  -> {"loading_started_at"}
         [] f = "operator_released_at" -> {"loading_finished_at"}
         [] OTHER                      -> {"operator_released_at"}]

Tally == 0..2                                   \* none, one, several
Tick(n) == IF n = 0 THEN 1 ELSE 2

Row ==
    [status: StopStatuses, seq: Nat,
     carga: BOOLEAN,       \* stop_type = "carga": no delivery proof required
     checkin: BOOLEAN,     \* checkin_at
     delivered: BOOLEAN,   \* delivered_at
     reason: BOOLEAN,      \* failure_reason_id
     proof: BOOLEAN,       \* proof_attachment_id
     returned: BOOLEAN,    \* warehouse_return_attachment_id
     travelled: BOOLEAN,   \* the stop has a DEPARTED_TO_STOP event
     arrivals: Tally,      \* ARRIVED_STOP events
     outcomes: Tally]      \* DELIVERED and FAILED_DELIVERY events

Db ==
    [status: RouteStatuses,
     session: BOOLEAN,     \* the route has its row of dock_sessions
     dock: SUBSET DockFields,
     departed: BOOLEAN,    \* actual_departure_at
     closedAt: BOOLEAN,    \* closed_at
     emptyPhoto: BOOLEAN, loadedPhoto: BOOLEAN,
     next: 1..(MaxStops + 1),                     \* next id of route_stops
     stops: [StopIds -> Row],
     occ: [Occurrences -> OccurrenceStatuses \cup {"none"}],
     closings: Tally]      \* ROUTE_CLOSED events since the last ROUTE_REOPENED

NewStop(s, isCarga, st) ==
    [status |-> st, seq |-> s, carga |-> isCarga, checkin |-> FALSE,
     delivered |-> FALSE, reason |-> FALSE, proof |-> FALSE, returned |-> FALSE,
     travelled |-> FALSE, arrivals |-> 0, outcomes |-> 0]

NoRow == NewStop(0, FALSE, "none")

-----------------------------------------------------------------------------
(* Reading the rows *)

Stops(d) == {k \in StopIds : d.stops[k].status # "none"}
OpenStops(d) == {k \in Stops(d) : d.stops[k].status \notin EndedStatuses}

\* On the way to the stop: promoted, and the arrival not yet recorded.
Travelling(d, k) == d.stops[k].status = "em_rota" /\ ~d.stops[k].checkin

\* Order of service: by sequence, then by id.
Before(d, a, b) ==
    \/ d.stops[a].seq < d.stops[b].seq
    \/ d.stops[a].seq = d.stops[b].seq /\ a < b

FirstOpen(d, k) ==
    /\ k \in OpenStops(d)
    /\ \A j \in OpenStops(d) \ {k} : Before(d, k, j)

\* Some occurrence of the route is still being treated.
Halted(d) == \E o \in Occurrences : d.occ[o] \in OpenOccurrenceStatuses

Editable(d) == d.status \notin CLOSED_STATES
Departed(d) == "departure_cd_at" \in d.dock
AllStopsClosed(d) == OpenStops(d) = {}

\* Planning edits: only a planned route, unless the global administrator asks.
MayPlan(d, admin) == admin \/ d.status = "planejada"

\* The rows after the stop k is written.
WithStop(d, k, r) == [d EXCEPT !.stops[k] = r]

Eventful(r) == r.travelled \/ r.arrivals + r.outcomes > 0

-----------------------------------------------------------------------------
(* Promotion of the next stop, a part of release, depart, force-start and  *)
(* deliver: the first open stop becomes em_rota, unless an occurrence of    *)
(* the route is still open or that stop is already beyond pendente.         *)

Promoted(r) == [r EXCEPT !.status = "em_rota", !.travelled = TRUE]

\* Variant: the order of service forgets the sequence.
StartNextStopTravel_ByIdOnly(d) ==
    IF Halted(d) THEN d
    ELSE [d EXCEPT !.stops = [k \in StopIds |->
            IF /\ k \in OpenStops(d)
               /\ \A j \in OpenStops(d) : k <= j
               /\ d.stops[k].status = "pendente"
            THEN Promoted(d.stops[k]) ELSE d.stops[k]]]

\* Variant: open occurrences no longer hold the vehicle.
StartNextStopTravel_IgnoringOccurrences(d) ==
    [d EXCEPT !.stops = [k \in StopIds |->
        IF FirstOpen(d, k) /\ d.stops[k].status = "pendente"
        THEN Promoted(d.stops[k]) ELSE d.stops[k]]]

StartNextStopTravel(d) ==
    IF Halted(d) THEN d
    ELSE [d EXCEPT !.stops = [k \in StopIds |->
            IF FirstOpen(d, k) /\ d.stops[k].status = "pendente"
            THEN Promoted(d.stops[k]) ELSE d.stops[k]]]

-----------------------------------------------------------------------------
(* Planning: create, add, edit, delete and reorder stops                    *)

\* The API creates the dock session with the route, a spreadsheet does not.
PlannedRoute(n, plan, withSession) ==
    [status |-> "planejada", session |-> withSession, dock |-> {},
     departed |-> FALSE, closedAt |-> FALSE, emptyPhoto |-> FALSE,
     loadedPhoto |-> FALSE, next |-> n + 1,
     stops |-> [k \in StopIds |-> IF k <= n
                                  THEN NewStop(plan[k].seq, plan[k].carga, "pendente")
                                  ELSE NoRow],
     occ |-> [o \in Occurrences |-> "none"], closings |-> 0]

\* A spreadsheet load whose delivery date is past enters the system finished.
HistoricRoute(n, plan) ==
    [PlannedRoute(n, plan, FALSE) EXCEPT
        !.status = "finalizada",
        !.stops = [k \in StopIds |-> IF k <= n THEN NewStop(plan[k].seq, FALSE, "entregue")
                                                ELSE NoRow]]

\* The sequence a stop gets when the request leaves it out: one past the last.
FollowsLast(d, s) ==
    /\ \A k \in Stops(d) : d.stops[k].seq < s
    /\ s = 1 \/ \E k \in Stops(d) : d.stops[k].seq + 1 = s

CanAddStop(d, admin) == MayPlan(d, admin) /\ d.next <= MaxStops
AfterAddStop(d, s, isCarga) ==
    [WithStop(d, d.next, NewStop(s, isCarga, "pendente")) EXCEPT !.next = d.next + 1]

CanUpdateStop(d, k, admin) == k \in Stops(d) /\ MayPlan(d, admin)
AfterUpdateStop(d, k, s, isCarga) ==
    WithStop(d, k, [d.stops[k] EXCEPT !.seq = s, !.carga = isCarga])

\* Variant: deleting a stop takes its events along.
CanDeleteStop_Cascading(d, k, admin) == k \in Stops(d) /\ MayPlan(d, admin)

\* Events and check-ins refer to the row with no cascade: the database then
\* refuses to delete it and the request fails.
CanDeleteStop(d, k, admin) ==
    k \in Stops(d) /\ MayPlan(d, admin) /\ ~Eventful(d.stops[k])
AfterDeleteStop(d, k) == WithStop(d, k, NoRow)

\* The optimiser's stored suggestion gives every stop a position of its own.
\* It may be older than the last deletion, so positions may be missing.
IsSuggestion(d, order) ==
    \A j, k \in Stops(d) : order[j] < d.next /\ (order[j] = order[k] => j = k)

CanApplyOptimizedSequence(d, order, admin) ==
    Stops(d) # {} /\ MayPlan(d, admin) /\ IsSuggestion(d, order)
AfterApplyOptimizedSequence(d, order) ==
    [d EXCEPT !.stops = [k \in StopIds |->
        IF k \in Stops(d) THEN [d.stops[k] EXCEPT !.seq = order[k]] ELSE d.stops[k]]]

-----------------------------------------------------------------------------
(* Distribution centre: dock steps, loaded photo, release, departure        *)

CanSetDockTime(d, field) ==
    /\ Editable(d)
    /\ field \notin d.dock
    /\ DOCK_FLOW[field] \subseteq d.dock
AfterSetDockTime(d, field) ==
    [d EXCEPT !.session = TRUE, !.dock = @ \cup {field},
              !.status = IF field = "dock_entry_at" THEN "em_carregamento" ELSE @]

CanLoadedPhoto(d) == Editable(d) /\ "operator_released_at" \notin d.dock
AfterLoadedPhoto(d) == [d EXCEPT !.loadedPhoto = TRUE]

\* Variant: the arrival at the distribution centre is not asked for.
CanRelease_WithoutArrival(d) ==
    /\ Editable(d)
    /\ d.dock \cap {"operator_released_at", "departure_cd_at"} = {}
    /\ d.loadedPhoto

CanRelease(d) ==
    /\ Editable(d)
    /\ "arrival_cd_at" \in d.dock
    /\ d.dock \cap {"operator_released_at", "departure_cd_at"} = {}
    /\ d.loadedPhoto

\* Variant: the status string of the released route is misspelt.
AfterRelease_Misspelt(d) ==
    StartNextStopTravel(
        [d EXCEPT !.dock = @ \cup {"operator_released_at", "departure_cd_at"},
                  !.departed = TRUE, !.status = "em rota"])

AfterRelease(d) ==
    StartNextStopTravel(
        [d EXCEPT !.dock = @ \cup {"operator_released_at", "departure_cd_at"},
                  !.departed = TRUE, !.status = "em_rota"])

CanDepart(d) == CanSetDockTime(d, "departure_cd_at")
AfterDepart(d) ==
    StartNextStopTravel(
        [d EXCEPT !.dock = @ \cup {"departure_cd_at"},
                  !.departed = TRUE, !.status = "em_rota"])

CanForceStart(d) == Editable(d)
AfterForceStart(d) ==
    StartNextStopTravel(
        [d EXCEPT !.session = TRUE, !.dock = DockFields, !.departed = TRUE, !.status = "em_rota"])

-----------------------------------------------------------------------------
(* On the road: check-in, delivery, return                                  *)

CanCheckin(d, k) ==
    /\ k \in Stops(d)
    /\ Editable(d)
    /\ Departed(d)
    /\ ~d.stops[k].checkin
CheckedIn(r) ==
    [r EXCEPT !.checkin = TRUE, !.status = "em_rota", !.arrivals = Tick(r.arrivals)]
AfterCheckin(d, k) == WithStop(d, k, CheckedIn(d.stops[k]))

\* Variant: the automatic check-in does not notice the driver's own.
EnsureStopCheckin_Always(r) ==
    [r EXCEPT !.checkin = TRUE, !.arrivals = Tick(r.arrivals),
              !.status = IF r.status = "pendente" THEN "em_rota" ELSE r.status]

EnsureStopCheckin(r) ==
    IF r.checkin THEN r
    ELSE [r EXCEPT !.checkin = TRUE, !.arrivals = Tick(r.arrivals),
                   !.status = IF r.status = "pendente" THEN "em_rota" ELSE r.status]

\* Variant: only delivered_at says that a delivery has ended.
Deliverable_UnlessDelivered(d, k) ==
    /\ k \in Stops(d)
    /\ Editable(d)
    /\ Departed(d)
    /\ ~d.stops[k].delivered

\* The guard the two delivery endpoints share.
Deliverable(d, k) ==
    /\ k \in Stops(d)
    /\ Editable(d)
    /\ Departed(d)
    /\ ~d.stops[k].delivered
    /\ d.stops[k].status \notin {"entregue", "falha"}

\* A success needs a proof on record, or in the form for deliver-with-proof.
CanDeliver(d, k) == Deliverable(d, k) /\ (d.stops[k].carga \/ d.stops[k].proof)
CanDeliverWithProof(d, k, file) == Deliverable(d, k) /\ (d.stops[k].carga \/ file)

Succeeded(r, file) ==
    [r EXCEPT !.status = "entregue", !.delivered = TRUE, !.reason = FALSE,
              !.proof = r.proof \/ file, !.outcomes = Tick(r.outcomes)]
AfterSuccess(d, k, file) ==
    StartNextStopTravel(
        WithStop(d, k, Succeeded(EnsureStopCheckin(d.stops[k]), file)))

\* A failure opens an occurrence o of category devolucao.
CanFail(d, k, o) == Deliverable(d, k) /\ d.occ[o] = "none"

\* Variant: a refused delivery is stamped with delivered_at as well.
Failed_Stamped(r, file) ==
    [r EXCEPT !.status = "falha", !.reason = TRUE, !.delivered = TRUE,
              !.proof = r.proof \/ file, !.outcomes = Tick(r.outcomes)]

Failed(r, file) ==
    [r EXCEPT !.status = "falha", !.reason = TRUE,
              !.proof = r.proof \/ file, !.outcomes = Tick(r.outcomes)]
AfterFailure(d, k, file, o) ==
    StartNextStopTravel(
        [WithStop(d, k, Failed(EnsureStopCheckin(d.stops[k]), file))
            EXCEPT !.occ[o] = "aberta"])

\* Variant: a finished route still takes the warehouse's receipt.
CanReturnProof_EvenClosed(d, k) == d.stops[k].status = "falha"

CanReturnProof(d, k) == Editable(d) /\ d.stops[k].status = "falha"
\* The receipt is announced with one more FAILED_DELIVERY event.
AfterReturnProof(d, k) ==
    WithStop(d, k, [d.stops[k] EXCEPT !.returned = TRUE,
                                      !.outcomes = Tick(d.stops[k].outcomes)])

CanReplaceProof(d, k) ==
    d.stops[k].status \in {"entregue", "falha"} /\ ~d.stops[k].proof

\* Variant: the replaced proof of a failure is announced like a receipt.
AfterReplaceProof_Announced(d, k) ==
    WithStop(d, k, [d.stops[k] EXCEPT
        !.proof = TRUE,
        !.outcomes = IF d.stops[k].status = "falha" THEN Tick(d.stops[k].outcomes) ELSE @])

AfterReplaceProof(d, k) == WithStop(d, k, [d.stops[k] EXCEPT !.proof = TRUE])

\* The gallery's removal, by the global administrator, at any route status.
CanRemoveProof(d, k, field) == k \in Stops(d) /\ d.stops[k][field]
AfterRemoveProof(d, k, field) == WithStop(d, k, [d.stops[k] EXCEPT ![field] = FALSE])

-----------------------------------------------------------------------------
(* Closing and reopening                                                    *)

CanEmptyPhoto(d) == Editable(d)
AfterEmptyPhoto(d) == [d EXCEPT !.emptyPhoto = TRUE]

\* Variant: open stops do not keep the route open.
CanClose_WithOpenStops(d) ==
    /\ Editable(d)
    /\ Departed(d)
    /\ d.emptyPhoto

CanClose(d) ==
    /\ Editable(d)
    /\ Departed(d)
    /\ AllStopsClosed(d)
    /\ d.emptyPhoto
AfterClose(d) ==
    [d EXCEPT !.status = "finalizada", !.closedAt = TRUE, !.closings = Tick(@)]

CanReopen(d) == ~Editable(d)

AfterReopen(d) ==
    [d EXCEPT !.status = IF d.departed THEN "em_rota" ELSE "planejada",
              !.closedAt = FALSE, !.closings = 0]

-----------------------------------------------------------------------------
(* Occurrences                                                              *)

\* Registering one sends the vehicle's current leg back to pendente; a stop
\* where the arrival is recorded keeps it.  No guard on the route's status.
CanCreateOccurrence(d, o) == d.occ[o] = "none"
AfterCreateOccurrence(d, o) ==
    [d EXCEPT
        !.occ[o] = "aberta",
        !.stops = [k \in StopIds |-> IF Travelling(d, k)
                                     THEN [d.stops[k] EXCEPT !.status = "pendente"]
                                     ELSE d.stops[k]]]

OccurrenceTransitions ==
    {<<"aberta", "em_tratamento">>, <<"aberta", "cancelada">>,
     <<"em_tratamento", "resolvida">>, <<"em_tratamento", "cancelada">>,
     <<"resolvida", "finalizada">>, <<"resolvida", "em_tratamento">>}

CanUpdateOccurrence(d, o, st) == <<d.occ[o], st>> \in OccurrenceTransitions
AfterUpdateOccurrence(d, o, st) == [d EXCEPT !.occ[o] = st]

\* The same edit may tie the occurrence to another route: it leaves this one (or
\* its row is deleted), or comes to it in whatever status it has; no stop is
\* looked at.
CanMoveOccurrenceOut(d, o) == d.occ[o] # "none"
AfterMoveOccurrenceOut(d, o) == [d EXCEPT !.occ[o] = "none"]
CanMoveOccurrenceIn(d, o) == d.occ[o] = "none"
AfterMoveOccurrenceIn(d, o, st) == [d EXCEPT !.occ[o] = st]

-----------------------------------------------------------------------------
(* Corrections by the global administrator.  A request c leaves out what it *)
(* does not touch: status "none", no dock times, flags FALSE.               *)

RouteCorrection ==
    [status: RouteStatuses \cup {"none"}, times: SUBSET DockFields,
     resetDock: BOOLEAN, resetStops: BOOLEAN]

ResetStop(r) ==
    [r EXCEPT !.status = "pendente", !.checkin = FALSE, !.delivered = FALSE,
              !.reason = FALSE]

\* The reset of a route with no dock session returns before it clears anything.
ResetDockFlow(d) ==
    IF d.session THEN [d EXCEPT !.dock = {}, !.departed = FALSE, !.closedAt = FALSE]
    ELSE d

AfterRouteStatus(d, st, resetDock) ==
    IF st # "none"
    THEN [d EXCEPT !.status = st, !.closedAt = (st = "finalizada"),
                   !.departed = @ /\ st \notin {"planejada", "em_carregamento", "liberada"}]
    ELSE IF resetDock THEN [d EXCEPT !.status = "planejada"] ELSE d

AfterAdminRouteCorrection(d, c) ==
    LET afterReset == IF c.resetDock THEN ResetDockFlow(d) ELSE d
        afterStops == [afterReset EXCEPT
            !.stops = [k \in StopIds |->
                IF c.resetStops /\ k \in Stops(d) THEN ResetStop(d.stops[k]) ELSE d.stops[k]],
            !.dock = @ \cup c.times,
            !.session = @ \/ c.times # {}]
    IN  AfterRouteStatus(afterStops, c.status, c.resetDock)

StopCorrection ==
    [status: LiveStopStatuses \cup {"none"}, clearCheckin: BOOLEAN,
     clearDelivery: BOOLEAN, clearFailure: BOOLEAN, clearProofs: BOOLEAN,
     reason: BOOLEAN]

\* The failure reason once the clears and the request's own reason apply.
CorrectedReason(d, k, c) == c.reason \/ (d.stops[k].reason /\ ~c.clearFailure)

CanAdminStopCorrection(d, k, c) ==
    k \in Stops(d) /\ (c.status = "falha" => CorrectedReason(d, k, c))

\* Variant: a stop marked delivered is marked as arrived at, too.
AfterAdminStopCorrection_Arriving(d, k, c) ==
    WithStop(d, k, [d.stops[k] EXCEPT
        !.status = IF c.status = "none" THEN @ ELSE c.status,
        !.checkin = @ \/ c.status = "entregue",
        !.delivered = @ \/ c.status = "entregue"])

AfterAdminStopCorrection(d, k, c) ==
    LET r == d.stops[k]
        undone == c.status \in {"pendente", "em_rota"}
    IN  WithStop(d, k,
          [r EXCEPT
              !.status = IF c.status = "none" THEN r.status ELSE c.status,
              !.checkin = r.checkin /\ ~c.clearCheckin /\ c.status # "pendente",
              !.delivered = ~undone /\ (c.status = "entregue" \/ (r.delivered /\ ~c.clearDelivery)),
              !.reason = ~undone /\ CorrectedReason(d, k, c),
              !.proof = r.proof /\ ~c.clearProofs,
              !.returned = r.returned /\ ~c.clearProofs])

-----------------------------------------------------------------------------
(* Rows written from outside the handlers                                   *)

\* The hourly synchronisation with the control tower's spreadsheet: the date
\* alone (due) decides the route's status; a stop takes the spreadsheet's final
\* status when it has one; an order seen for the first time becomes a stop.
CanTorreSync(d, added) == added => d.next <= MaxStops
AfterTorreSync(d, due, final, added) ==
    LET known(k) == k \in Stops(d)
        status(k, old) == IF final[k] = "none" THEN old ELSE final[k]
    IN  [d EXCEPT
           !.status = IF due THEN "finalizada" ELSE "planejada",
           !.next = IF added THEN @ + 1 ELSE @,
           !.stops = [k \in StopIds |->
               IF known(k) THEN [d.stops[k] EXCEPT !.status = status(k, d.stops[k].status)]
               ELSE IF added /\ k = d.next THEN NewStop(1, FALSE, status(k, "pendente"))
               ELSE d.stops[k]]]

\* A confirmed import of the load's spreadsheet: stops are put in its order,
\* new orders are appended, at any status of the route.  One of the layouts
\* gives the new stops of a finished route the status entregue.
CanImportPlan(d, added) == added => d.next <= MaxStops

AfterImportPlan(d, plan, added, endsNewStops) ==
    [d EXCEPT
       !.next = IF added THEN @ + 1 ELSE @,
       !.stops = [k \in StopIds |->
           IF k \in Stops(d) THEN [d.stops[k] EXCEPT !.seq = plan[k]]
           ELSE IF added /\ k = d.next
                THEN NewStop(plan[k], FALSE, IF endsNewStops /\ d.status = "finalizada"
                                             THEN "entregue" ELSE "pendente")
                ELSE d.stops[k]]]

=============================================================================
