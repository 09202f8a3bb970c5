---------------------------- MODULE RouteLifecycle ----------------------------
(***************************************************************************)
(* One delivery route as its users drive it, one request at a time: every  *)
(* action is one endpoint of the API, run from load to commit with nothing *)
(* in between.  What two overlapping requests can do is another module's   *)
(* subject; here each request sees the rows the one before it committed.   *)
(*                                                                         *)
(* Who may call an endpoint (roles, carriers, branches, the driver of the  *)
(* route, the expiry of its date) is left out: any user who passes those   *)
(* checks is taken to send any request at any time.                        *)
(***************************************************************************)
EXTENDS RouteHandlers

CONSTANTS
    Seqs,              \* bound: sequence numbers a request or a sheet may carry
    RouteCorrections,  \* admin-correction requests on the route considered
    StopCorrections,   \* admin-correction requests on a stop considered
    Interventions      \* which of "admin", "sync", "import" take place

ASSUME SeqsAssumption == Seqs \subseteq Nat \ {0}
ASSUME CorrectionsAssumption ==
    RouteCorrections \subseteq RouteCorrection /\ StopCorrections \subseteq StopCorrection
ASSUME InterventionsAssumption == Interventions \subseteq {"admin", "sync", "import"}

VARIABLES
    db,         \* the route's rows
    overrides   \* history: the interventions that have overwritten operation

vars == <<db, overrides>>

Plans == [StopIds -> [seq: Seqs, carga: BOOLEAN]]

InitPlanned ==
    /\ \E n \in 0..MaxStops, plan \in Plans, withSession \in BOOLEAN :
          db = PlannedRoute(n, plan, withSession)
    /\ overrides = {}

InitHistoric ==
    /\ "import" \in Interventions
    /\ \E n \in 0..MaxStops, plan \in Plans : db = HistoricRoute(n, plan)
    /\ overrides = {"import"}

Init == InitPlanned \/ InitHistoric

\* A planning edit outside planejada is the administrator overruling the guard.
Planning(admin) ==
    /\ admin => "admin" \in Interventions
    /\ overrides' = IF db.status = "planejada" THEN overrides ELSE overrides \cup {"admin"}

AddStop(s, isCarga, admin) ==
    /\ CanAddStop(db, admin)
    /\ db' = AfterAddStop(db, s, isCarga)
    /\ Planning(admin)

AppendStop(isCarga, admin) ==
    \E s \in {1} \cup {db.stops[k].seq + 1 : k \in StopIds} :
        FollowsLast(db, s) /\ AddStop(s, isCarga, admin)

UpdateStop(k, s, isCarga, admin) ==
    /\ CanUpdateStop(db, k, admin)
    /\ db' = AfterUpdateStop(db, k, s, isCarga)
    /\ Planning(admin)

DeleteStop(k, admin) ==
    /\ CanDeleteStop(db, k, admin)
    /\ db' = AfterDeleteStop(db, k)
    /\ Planning(admin)

ApplyOptimizedSequence(order, admin) ==
    /\ CanApplyOptimizedSequence(db, order, admin)
    /\ db' = AfterApplyOptimizedSequence(db, order)
    /\ Planning(admin)

ArriveCd == CanSetDockTime(db, "arrival_cd_at") /\ db' = AfterSetDockTime(db, "arrival_cd_at") /\ UNCHANGED overrides
EnterDock == CanSetDockTime(db, "dock_entry_at") /\ db' = AfterSetDockTime(db, "dock_entry_at") /\ UNCHANGED overrides
LoadingStart == CanSetDockTime(db, "loading_started_at") /\ db' = AfterSetDockTime(db, "loading_started_at") /\ UNCHANGED overrides
LoadingFinish == CanSetDockTime(db, "loading_finished_at") /\ db' = AfterSetDockTime(db, "loading_finished_at") /\ UNCHANGED overrides
UploadLoadedPhoto == CanLoadedPhoto(db) /\ db' = AfterLoadedPhoto(db) /\ UNCHANGED overrides
OperatorRelease == CanRelease(db) /\ db' = AfterRelease(db) /\ UNCHANGED overrides
DepartCd == CanDepart(db) /\ db' = AfterDepart(db) /\ UNCHANGED overrides
ForceStart == CanForceStart(db) /\ db' = AfterForceStart(db) /\ UNCHANGED overrides

Checkin(k) == CanCheckin(db, k) /\ db' = AfterCheckin(db, k) /\ UNCHANGED overrides

DeliverSuccess(k) ==
    CanDeliver(db, k) /\ db' = AfterSuccess(db, k, FALSE) /\ UNCHANGED overrides
DeliverFailure(k, o) ==
    CanFail(db, k, o) /\ db' = AfterFailure(db, k, FALSE, o) /\ UNCHANGED overrides
DeliverWithProofSuccess(k, file) ==
    CanDeliverWithProof(db, k, file) /\ db' = AfterSuccess(db, k, file) /\ UNCHANGED overrides
DeliverWithProofFailure(k, o) ==
    CanFail(db, k, o) /\ db' = AfterFailure(db, k, TRUE, o) /\ UNCHANGED overrides

UploadWarehouseReturnProof(k) ==
    CanReturnProof(db, k) /\ db' = AfterReturnProof(db, k) /\ UNCHANGED overrides
ReplaceRequestedProof(k) ==
    CanReplaceProof(db, k) /\ db' = AfterReplaceProof(db, k) /\ UNCHANGED overrides
RemoveRouteProof(k, field) ==
    CanRemoveProof(db, k, field) /\ db' = AfterRemoveProof(db, k, field) /\ UNCHANGED overrides

UploadEmptyTruckPhoto == CanEmptyPhoto(db) /\ db' = AfterEmptyPhoto(db) /\ UNCHANGED overrides
CloseRoute == CanClose(db) /\ db' = AfterClose(db) /\ UNCHANGED overrides
ReopenRoute == CanReopen(db) /\ db' = AfterReopen(db) /\ UNCHANGED overrides

CreateOccurrence(o) ==
    CanCreateOccurrence(db, o) /\ db' = AfterCreateOccurrence(db, o) /\ UNCHANGED overrides
UpdateOccurrence(o, st) ==
    CanUpdateOccurrence(db, o, st) /\ db' = AfterUpdateOccurrence(db, o, st) /\ UNCHANGED overrides
MoveOccurrenceOut(o) ==
    CanMoveOccurrenceOut(db, o) /\ db' = AfterMoveOccurrenceOut(db, o) /\ UNCHANGED overrides
MoveOccurrenceIn(o, st) ==
    CanMoveOccurrenceIn(db, o) /\ db' = AfterMoveOccurrenceIn(db, o, st) /\ UNCHANGED overrides

AdminRouteCorrection(c) ==
    /\ "admin" \in Interventions
    /\ db' = AfterAdminRouteCorrection(db, c)
    /\ overrides' = overrides \cup {"admin"}

AdminStopCorrection(k, c) ==
    /\ "admin" \in Interventions
    /\ CanAdminStopCorrection(db, k, c)
    /\ db' = AfterAdminStopCorrection(db, k, c)
    /\ overrides' = overrides \cup {"admin"}

TorreSync(due, final, added) ==
    /\ "sync" \in Interventions
    /\ CanTorreSync(db, added)
    /\ db' = AfterTorreSync(db, due, final, added)
    /\ overrides' = overrides \cup {"sync"}

\* Into a planned route the import is ordinary planning.
ImportPlan(plan, added, endsNewStops) ==
    /\ "import" \in Interventions
    /\ CanImportPlan(db, added)
    /\ db' = AfterImportPlan(db, plan, added, endsNewStops)
    /\ overrides' = IF db.status = "planejada" THEN overrides ELSE overrides \cup {"import"}

Next ==
    \/ \E s \in Seqs, isCarga, admin \in BOOLEAN : AddStop(s, isCarga, admin)
    \/ \E isCarga, admin \in BOOLEAN : AppendStop(isCarga, admin)
    \/ \E k \in StopIds, s \in Seqs, isCarga, admin \in BOOLEAN : UpdateStop(k, s, isCarga, admin)
    \/ \E k \in StopIds, admin \in BOOLEAN : DeleteStop(k, admin)
    \/ \E order \in [StopIds -> StopIds], admin \in BOOLEAN : ApplyOptimizedSequence(order, admin)
    \/ ArriveCd \/ EnterDock \/ LoadingStart \/ LoadingFinish
    \/ UploadLoadedPhoto \/ OperatorRelease \/ DepartCd \/ ForceStart
    \/ \E k \in StopIds : Checkin(k)
    \/ \E k \in StopIds : DeliverSuccess(k)
    \/ \E k \in StopIds, o \in Occurrences : DeliverFailure(k, o)
    \/ \E k \in StopIds, file \in BOOLEAN : DeliverWithProofSuccess(k, file)
    \/ \E k \in StopIds, o \in Occurrences : DeliverWithProofFailure(k, o)
    \/ \E k \in StopIds : UploadWarehouseReturnProof(k)
    \/ \E k \in StopIds : ReplaceRequestedProof(k)
    \/ \E k \in StopIds, field \in {"proof", "returned"} : RemoveRouteProof(k, field)
    \/ UploadEmptyTruckPhoto \/ CloseRoute \/ ReopenRoute
    \/ \E o \in Occurrences : CreateOccurrence(o)
    \/ \E o \in Occurrences, st \in OccurrenceStatuses : UpdateOccurrence(o, st)
    \/ \E o \in Occurrences : MoveOccurrenceOut(o)
    \/ \E o \in Occurrences, st \in OccurrenceStatuses : MoveOccurrenceIn(o, st)
    \/ \E c \in RouteCorrections : AdminRouteCorrection(c)
    \/ \E k \in StopIds, c \in StopCorrections : AdminStopCorrection(k, c)
    \/ \E due, added \in BOOLEAN, final \in [StopIds -> {"none", "entregue", "devolvido"}] :
          TorreSync(due, final, added)
    \/ \E plan \in [StopIds -> Seqs], added, endsNewStops \in BOOLEAN :
          ImportPlan(plan, added, endsNewStops)

Spec == Init /\ [][Next]_vars

-----------------------------------------------------------------------------
(* Invariants.  Most are promises of the operational handlers, so they are  *)
(* stated for routes nobody has overwritten: overrides = {}.                *)

Untouched == overrides = {}

\* Every column has a value of its kind, and the ids not yet handed out have
\* no row (a promotion or a check-in never conjures a stop up).
TypeOK ==
    /\ db \in Db
    /\ \A k \in StopIds : k >= db.next => db.stops[k] = NoRow
    /\ overrides \subseteq Interventions

\* While the road trip follows the handlers alone, the only stop the vehicle
\* can be travelling to is the first open one in the order of service
\* (_start_next_stop_travel picks it, create_occurrence takes it back,
\* deliveries out of order and late occurrences must not confuse it).
TravelFollowsPlan ==
    Untouched => \A k \in StopIds : Travelling(db, k) => FirstOpen(db, k)

\* The columns of a stop tell one story: an open stop has no trace of an
\* outcome (so the deliver guard can never refuse it for good), a delivered
\* one has its time, an arrival and no failure, a failed one the reverse.
OutcomeConsistent ==
    Untouched => \A k \in Stops(db) :
        LET r == db.stops[k] IN
        /\ r.status \in {"pendente", "em_rota"} => ~r.delivered /\ ~r.reason
        /\ r.status = "pendente" => ~r.checkin
        /\ r.status = "entregue" => r.delivered /\ r.checkin /\ ~r.reason
        /\ r.status = "falha" => ~r.delivered /\ r.checkin /\ r.reason
        /\ r.status # "devolvido"

\* The timeline agrees with the rows: one ARRIVED_STOP per recorded arrival
\* (by check-in or by the automatic check-in of deliver), one outcome event
\* per delivery, one or more per failure, with a receipt at least two.
EventsAgree ==
    Untouched =>
        /\ \A k \in Stops(db) :
              LET r == db.stops[k] IN
              /\ r.arrivals = IF r.checkin THEN 1 ELSE 0
              /\ k \in OpenStops(db) => r.outcomes = 0
              /\ r.status = "entregue" => r.outcomes = 1
              /\ r.status = "falha" => r.outcomes >= IF r.returned THEN 2 ELSE 1
        /\ db.closings = IF db.status = "finalizada" THEN 1 ELSE 0

\* Nothing happens at a stop before the vehicle leaves the distribution
\* centre, and leaving it is what the route's own columns say it is.
NothingBeforeDeparture ==
    Untouched =>
        /\ ~Departed(db) => \A k \in Stops(db) :
              db.stops[k].status = "pendente" /\ ~Eventful(db.stops[k])
        /\ Departed(db) <=> db.departed
        /\ Departed(db) => db.status \in {"em_rota", "em_carregamento", "finalizada"}
        /\ ~Departed(db) => db.status \in {"planejada", "em_carregamento"}

\* A finished route is complete: it left, every stop has an outcome and the
\* photo of the empty vehicle is there, whatever came after the close.
FinishedIsComplete ==
    Untouched /\ db.status = "finalizada" =>
        Departed(db) /\ AllStopsClosed(db) /\ db.emptyPhoto

\* The dock session never skips ahead: a recorded step has the steps it needs
\* behind it, on either way out of the distribution centre (step by step, or
\* straight from arrival to release), and a release is a departure.
DockOrder ==
    Untouched =>
        /\ "dock_entry_at" \in db.dock => "arrival_cd_at" \in db.dock
        /\ "loading_started_at" \in db.dock => "dock_entry_at" \in db.dock
        /\ "loading_finished_at" \in db.dock => "loading_started_at" \in db.dock
        /\ "operator_released_at" \in db.dock => "arrival_cd_at" \in db.dock
        /\ "operator_released_at" \in db.dock <=> "departure_cd_at" \in db.dock

\* Nobody fabricates an arrival: whatever was corrected, synchronised or
\* imported, a stop with checkin_at has its ARRIVED_STOP event.
ArrivalHasEvent ==
    \A k \in StopIds : db.stops[k].checkin => db.stops[k].arrivals >= 1

-----------------------------------------------------------------------------
(* Action properties                                                        *)

\* An outcome is never overwritten by operation: once a stop is delivered or
\* failed, no later request changes what was recorded (deliver, checkin and
\* their "cannot be overwritten" messages), only its proofs may come and go.
OutcomeKept ==
    overrides' = {} => \A k \in StopIds :
        db.stops[k].status \in {"entregue", "falha"} =>
            /\ db'.stops[k].status = db.stops[k].status
            /\ db'.stops[k].delivered = db.stops[k].delivered
            /\ db'.stops[k].reason = db.stops[k].reason
            /\ db'.stops[k].checkin = db.stops[k].checkin
            /\ db'.stops[k].seq = db.stops[k].seq
OutcomeIsFinal == [][OutcomeKept]_vars

\* And no event comes from elsewhere: the outcome is announced once, by the
\* request that ends the delivery, and after it every FAILED_DELIVERY is the one
\* with which the warehouse's receipt is announced.
AnnouncedOnce ==
    overrides' = {} => \A k \in StopIds :
        db'.stops[k].outcomes # db.stops[k].outcomes =>
            /\ db'.stops[k].outcomes = Tick(db.stops[k].outcomes)
            /\ \/ k \in OpenStops(db) /\ db'.stops[k].status \in {"entregue", "falha"}
               \/ UploadWarehouseReturnProof(k)
EventLedger == []EventsAgree /\ [][AnnouncedOnce]_vars

\* A closed route is frozen: until it is reopened, the only things a request
\* still changes are the proofs of its stops and its occurrences.
ClosedKept ==
    overrides' = {} /\ db.status \in CLOSED_STATES =>
        \/ /\ Editable(db') /\ ~db'.closedAt
           /\ db'.stops = db.stops /\ db'.dock = db.dock
        \/ /\ db' = [db EXCEPT !.stops = db'.stops, !.occ = db'.occ]
           /\ \A k \in StopIds :
                 db'.stops[k] = [db.stops[k] EXCEPT !.proof = db'.stops[k].proof,
                                                    !.returned = db'.stops[k].returned]
           /\ \A k \in StopIds : ~db.stops[k].returned => ~db'.stops[k].returned
ClosedIsFrozen == [][ClosedKept]_vars

\* The history of a stop outlives every intervention: a row that events refer
\* to is never deleted, and its events are only ever added to.
HistoryStep ==
    \A k \in StopIds : Eventful(db.stops[k]) =>
        /\ k \in Stops(db')
        /\ db'.stops[k].arrivals >= db.stops[k].arrivals
        /\ db'.stops[k].outcomes >= db.stops[k].outcomes
HistoryKept == [][HistoryStep]_vars

-----------------------------------------------------------------------------
(* A claim of the program's own message that the code does not keep.         *)

\* An ended delivery cannot be overwritten (message of the deliver endpoint).
\* Checking in at a stop the administrator has marked delivered reopens it.
CheckinKeepsOutcome ==
    [][\A k \in StopIds :
          /\ db.stops[k].status \in {"entregue", "falha"}
          /\ db'.stops[k].checkin /\ ~db.stops[k].checkin
          => db'.stops[k].status = db.stops[k].status]_vars

=============================================================================
