----------------------------- MODULE CarrierAccess -----------------------------
(***************************************************************************)
(* Who may drive what, for whom, and where.  Carriers serve branches; their  *)
(* drivers and vehicles become available there, with or without the approval *)
(* of the branch; a vehicle's receiver of freight is kept twice, on the       *)
(* vehicle and as a link of the carrier; a route of a branch is given a       *)
(* carrier, and a driver and a vehicle of that carrier.                       *)
(*                                                                         *)
(* Six routers and three importers write these rows, each its own part.  One  *)
(* tenant; the requests are one transaction each.                             *)
(***************************************************************************)
EXTENDS Naturals, FiniteSets

CONSTANTS
    Branches, Carriers, Drivers, Vehicles,   \* ids
    None,                                    \* NULL
    MaxRequests                              \* bound: requests served

ASSUME NoneAssumption == None \notin Branches \cup Carriers \cup Drivers \cup Vehicles
ASSUME KindsAssumption == Drivers \cap Vehicles = {} /\ MaxRequests \in Nat

Resources == Drivers \cup Vehicles

VARIABLES
    branches,   \* the branches of the tenant
    closed,     \* those that are not active
    carriers,   \* per carrier: "absent", "active" or "inactive", and its ANTT number
    served,     \* carrier_branches (never withdrawn)
    policy,     \* per branch: the kinds of resource that need its approval
    register,   \* per driver and vehicle: its row
    fleet,      \* carrier_vehicle_links
    available,  \* driver_branches and vehicle_branches
    route,      \* one route: its branch, carrier and crew
    unsynced,   \* history: <<resource, branch>> that a change passed over
    drifted,    \* history: the crew or its carrier was changed behind the route
    requests    \* number of requests served

vars == <<branches, closed, carriers, served, policy, register, fleet, available, route,
          unsynced, drifted, requests>>

CarrierRows == [state: {"absent", "active", "inactive"}, antt: BOOLEAN]

\* fit: active and not blocked.  ownership: "proprio", "agregado" (of a vehicle).
Rows == [present: BOOLEAN, carrier: Carriers \cup {None}, fit: BOOLEAN,
         ownership: {"proprio", "agregado"}, antt: BOOLEAN]
NoRow == [present |-> FALSE, carrier |-> None, fit |-> FALSE, ownership |-> "agregado", antt |-> FALSE]

CarrierVehicleLink == [carrier: Carriers, vehicle: Vehicles, antt: BOOLEAN]

\* antt: the reason noted at the review is "ANTT pendente" (of a vehicle's link; of a
\* driver's nobody reads it).
Availability == [active: BOOLEAN, approval: {"absent", "pending", "approved", "rejected"}, antt: BOOLEAN]
Absent == [active |-> FALSE, approval |-> "absent", antt |-> FALSE]

\* A carrier of None: pending_carrier, the route waits for a valid one.
Routes == [branch: Branches \cup {None}, carrier: Carriers \cup {None},
           driver: Drivers \cup {None}, vehicle: Vehicles \cup {None}]
NoRoute == [branch |-> None, carrier |-> None, driver |-> None, vehicle |-> None]

TypeOK ==
    /\ branches \subseteq Branches /\ closed \subseteq branches
    /\ carriers \in [Carriers -> CarrierRows]
    /\ served \subseteq Carriers \X branches
    /\ policy \in [Branches -> SUBSET {"driver", "vehicle"}]
    /\ register \in [Resources -> Rows]
    /\ fleet \subseteq CarrierVehicleLink
    /\ available \in [Resources -> [Branches -> Availability]]
    /\ route \in Routes /\ route.branch \in branches \cup {None}
    /\ \A r \in Resources : ~register[r].present =>
          \A b \in Branches : available[r][b] = Absent
    /\ unsynced \subseteq Resources \X Branches /\ drifted \in BOOLEAN
    /\ requests \in 0..MaxRequests

Init ==
    /\ branches = {} /\ closed = {} /\ served = {} /\ fleet = {} /\ unsynced = {}
    /\ carriers = [c \in Carriers |-> [state |-> "absent", antt |-> FALSE]]
    /\ policy = [b \in Branches |-> {}]
    /\ register = [r \in Resources |-> NoRow]
    /\ available = [r \in Resources |-> [b \in Branches |-> Absent]]
    /\ route = NoRoute /\ drifted = FALSE /\ requests = 0

-----------------------------------------------------------------------------
(* Reading the rows *)

Kind(r) == IF r \in Drivers THEN "driver" ELSE "vehicle"
Requires(b, r) == Kind(r) \in policy[b]
Present(r) == register[r].present
Crew == {route.driver, route.vehicle}
Unlinked(r) == Present(r) /\ register[r].carrier = None

\* The branches for a resource of carrier c: all, without a carrier.
ServedBy(c) == {b \in branches : c = None \/ <<c, b>> \in served}

NewLink(b, r) ==
    [active |-> TRUE, approval |-> IF Requires(b, r) THEN "pending" ELSE "approved", antt |-> FALSE]

\* Missing links are added, none is changed or taken away.
Offered(links, r, bs) ==
    [b \in Branches |-> IF b \in bs /\ links[b] = Absent THEN NewLink(b, r) ELSE links[b]]

\* Variant: a held link counts as approved once the number is there.
Lifted_Approving(link) == [link EXCEPT !.active = TRUE, !.antt = FALSE, !.approval = "approved"]

\* A link held back for the ANTT number is in use again, its decision as it was.
Lifted(link) == [link EXCEPT !.active = TRUE, !.antt = FALSE]

\* The look at a vehicle: held links are lifted wherever they are, and it is offered
\* in the branches that are active.
Looked(links, v, bs) ==
    Offered([b \in Branches |-> IF links[b].antt THEN Lifted(links[b]) ELSE links[b]], v, bs \ closed)

\* What a change leaves out: of the resources rs, these branches and no others.
LeftOut(rs, bs) == (unsynced \ (rs \X Branches)) \cup (rs \X bs)

ValidCarrier(b, c) == c # None /\ carriers[c].state = "active" /\ <<c, b>> \in served

\* A driver needs the branch, a vehicle only its register.
ValidResource(r, b, c) ==
    /\ Present(r) /\ register[r].fit
    /\ c = None \/ register[r].carrier = c
    /\ r \in Drivers => /\ available[r][b].active
                        /\ Requires(b, r) => available[r][b].approval = "approved"

Authorized(vehicleAntt, carrierAntt) == vehicleAntt /\ carrierAntt

-----------------------------------------------------------------------------
(* Branches and the access model *)

CreateBranch(b) ==
    /\ b \notin branches
    /\ branches' = branches \cup {b}
    /\ available' = [r \in Resources |->
                        IF Unlinked(r) THEN Offered(available[r], r, {b}) ELSE available[r]]
    /\ UNCHANGED <<closed, carriers, served, policy, register, fleet, route, unsynced, drifted>>

\* Nothing is looked at again when a branch opens or closes.
UpdateBranch(b, active) ==
    /\ b \in branches
    /\ closed' = IF active THEN closed \ {b} ELSE closed \cup {b}
    /\ UNCHANGED <<branches, carriers, served, policy, register, fleet, available, route, unsynced, drifted>>

\* Variant: only the branch is enabled.
OfferedByCarrier_Nobody(c, b) == available

OfferedByCarrier(c, b) ==
    [r \in Resources |-> IF Present(r) /\ register[r].carrier = c
                         THEN Offered(available[r], r, {b}) ELSE available[r]]

EnableCarrierBranch(c, b) ==
    /\ carriers[c].state # "absent" /\ b \in branches
    /\ served' = served \cup {<<c, b>>}
    /\ available' = OfferedByCarrier(c, b)
    /\ UNCHANGED <<branches, closed, carriers, policy, register, fleet, route, unsynced, drifted>>

\* The links that wait for a review once the requirement is new.
Reviewed(b, enabling) ==
    [r \in Resources |->
        [available[r] EXCEPT ![b] =
            IF Kind(r) \in enabling /\ @.active THEN [@ EXCEPT !.approval = "pending"] ELSE @]]

ConfigureApproval(b, required, reviewExisting) ==
    /\ b \in branches
    /\ policy' = [policy EXCEPT ![b] = required]
    /\ available' = IF reviewExisting THEN Reviewed(b, required \ policy[b]) ELSE available
    /\ UNCHANGED <<branches, closed, carriers, served, register, fleet, route, unsynced, drifted>>

\* Switched on, it starts anew; switched off, its decision and its note stay (a new
\* row's decision is the default of the column).
Switched(link, b, r, active) ==
    IF active THEN NewLink(b, r)
    ELSE [link EXCEPT !.active = FALSE, !.approval = IF link = Absent THEN "approved" ELSE @]

SetAvailability(r, b, active) ==
    /\ Present(r) /\ register[r].carrier # None /\ <<register[r].carrier, b>> \in served
    /\ available' = [available EXCEPT ![r][b] = Switched(@, b, r, active)]
    /\ UNCHANGED <<branches, closed, carriers, served, policy, register, fleet, route, unsynced, drifted>>

\* The reason that goes with the decision is free; only one text is ever read again.
ReviewAvailability(r, b, decision, antt) ==
    /\ available[r][b] # Absent /\ (antt => r \in Vehicles)
    /\ available' = [available EXCEPT ![r][b] = [@ EXCEPT !.approval = decision, !.antt = antt]]
    /\ UNCHANGED <<branches, closed, carriers, served, policy, register, fleet, route, unsynced, drifted>>

-----------------------------------------------------------------------------
(* Drivers *)

CreateDriver(d, c) ==
    /\ ~Present(d) /\ branches # {}
    /\ c # None => carriers[c].state # "absent"
    /\ register' = [register EXCEPT ![d] = [NoRow EXCEPT !.present = TRUE, !.carrier = c, !.fit = TRUE]]
    /\ available' = [available EXCEPT ![d] = Offered(@, d, ServedBy(c))]
    /\ UNCHANGED <<branches, closed, carriers, served, policy, fleet, route, unsynced, drifted>>

\* The branches are looked at only when the request lists branches; links with
\* the branches of the former carrier stay.
UpdateDriver(d, c, sync) ==
    /\ Present(d) /\ (sync \/ c # register[d].carrier)
    /\ c # None => carriers[c].state # "absent"
    /\ register' = [register EXCEPT ![d].carrier = c]
    /\ available' = IF sync THEN [available EXCEPT ![d] = Offered(@, d, ServedBy(c))] ELSE available
    /\ unsynced' = IF sync THEN LeftOut({d}, {}) ELSE unsynced \cup ({d} \X ServedBy(c))
    /\ drifted' = (drifted \/ (d \in Crew /\ c # register[d].carrier))
    /\ UNCHANGED <<branches, closed, carriers, served, policy, fleet, route>>

\* activate, deactivate, block, unblock: never the approvals of the branches.
ChangeStatus(r, fit) ==
    /\ Present(r)
    /\ register' = [register EXCEPT ![r].fit = fit]
    /\ UNCHANGED <<branches, closed, carriers, served, policy, fleet, available, route, unsynced, drifted>>

\* Refused while a route has it; the links go with the row.
DeleteResource(r) ==
    /\ Present(r) /\ r \notin Crew
    /\ register' = [register EXCEPT ![r] = NoRow]
    /\ available' = [available EXCEPT ![r] = [b \in Branches |-> Absent]]
    /\ fleet' = {l \in fleet : l.vehicle # r}
    /\ unsynced' = LeftOut({r}, {})
    /\ UNCHANGED <<branches, closed, carriers, served, policy, route, drifted>>

-----------------------------------------------------------------------------
(* Vehicles and the receiver of their freight *)

\* A vehicle of its own has no carrier; one that has a carrier must lose it first.
ValidReceiver(current, ownership, c) ==
    /\ ownership = "proprio" => c = None
    /\ c # None => carriers[c].state = "active" /\ current \in {None, c}

\* Every link of the vehicle goes, at most one comes.
ReceiverLink(v, c, antt) ==
    {l \in fleet : l.vehicle # v} \cup
    {[carrier |-> c2, vehicle |-> v, antt |-> Authorized(antt, carriers[c2].antt)] : c2 \in {c} \ {None}}

SaveVehicle(v, ownership, c, antt, fit) ==
    /\ register' = [register EXCEPT ![v] = [present |-> TRUE, carrier |-> c, fit |-> fit,
                                            ownership |-> ownership, antt |-> antt]]
    /\ fleet' = ReceiverLink(v, c, antt)
    /\ available' = [available EXCEPT ![v] = Looked(@, v, ServedBy(c))]
    /\ unsynced' = LeftOut({v}, ServedBy(c) \cap closed)
    /\ UNCHANGED <<branches, closed, carriers, served, policy, route>>

\* It is registered in an active branch that its carrier serves.
CreateVehicle(v, ownership, c, antt) ==
    /\ ~Present(v) /\ ServedBy(c) \ closed # {}
    /\ ValidReceiver(None, ownership, c)
    /\ SaveVehicle(v, ownership, c, antt, TRUE)
    /\ UNCHANGED drifted

UpdateVehicle(v, ownership, c, antt) ==
    /\ Present(v)
    /\ ValidReceiver(register[v].carrier, ownership, c)
    /\ SaveVehicle(v, ownership, c, antt, register[v].fit)
    /\ drifted' = (drifted \/ (v \in Crew /\ c # register[v].carrier))

-----------------------------------------------------------------------------
(* Carriers *)

Owned(c) == {v \in Vehicles : register[v].carrier = c}

CanSyncVehicles(c, vs) ==
    /\ \A v \in vs : Present(v) /\ register[v].ownership = "agregado" /\ register[v].fit
    /\ \A l \in fleet : l.vehicle \in vs => l.carrier = c

\* The list of the carrier's form: its links are made anew, vehicles no longer on
\* it are released, without a look at the branches they are now offered in.
SyncVehicles(c, vs, antt) ==
    LET released == Owned(c) \ vs
    IN  /\ fleet' = {l \in fleet : l.carrier # c} \cup
                    {[carrier |-> c, vehicle |-> v, antt |-> Authorized(register[v].antt, antt)] : v \in vs}
        /\ register' = [r \in Resources |->
                           IF r \in vs THEN [register[r] EXCEPT !.carrier = c]
                           ELSE IF r \in released THEN [register[r] EXCEPT !.carrier = None]
                           ELSE register[r]]
        /\ available' = [r \in Resources |->
                            IF r \in vs THEN Looked(available[r], r, ServedBy(c)) ELSE available[r]]
        /\ unsynced' = LeftOut(vs, ServedBy(c) \cap closed) \cup (released \X branches)
        /\ drifted' = (drifted \/ \E v \in released \cup (vs \ Owned(c)) : v \in Crew)

CreateCarrier(c, vs, antt) ==
    /\ carriers[c].state = "absent" /\ CanSyncVehicles(c, vs)
    /\ carriers' = [carriers EXCEPT ![c] = [state |-> "active", antt |-> antt]]
    /\ SyncVehicles(c, vs, antt)
    /\ UNCHANGED <<branches, closed, served, policy, route>>

\* Variant: a new ANTT number does not reach the links.
AnttOfLinks_Kept(c, antt) == fleet

\* The carrier's ANTT number counts for the vehicles it has.
AnttOfLinks(c, antt) ==
    {IF l.carrier = c THEN [l EXCEPT !.antt = Authorized(register[l.vehicle].antt, antt)] ELSE l : l \in fleet}

\* Fields without the ANTT number.
UpdateCarrier(c, state) ==
    /\ carriers[c].state # "absent"
    /\ carriers' = [carriers EXCEPT ![c].state = state]
    /\ UNCHANGED <<branches, closed, served, policy, register, fleet, available, route, unsynced, drifted>>

\* With it, changed or not, the carrier's vehicles are looked at.
UpdateCarrierAntt(c, state, antt) ==
    /\ carriers[c].state # "absent"
    /\ carriers' = [carriers EXCEPT ![c] = [state |-> state, antt |-> antt]]
    /\ fleet' = AnttOfLinks(c, antt)
    /\ available' = [r \in Resources |-> IF r \in Owned(c) THEN Looked(available[r], r, ServedBy(c))
                                         ELSE available[r]]
    /\ unsynced' = LeftOut(Owned(c), ServedBy(c) \cap closed)
    /\ UNCHANGED <<branches, closed, served, policy, register, route, drifted>>

UpdateCarrierVehicles(c, vs) ==
    /\ carriers[c].state # "absent" /\ CanSyncVehicles(c, vs)
    /\ SyncVehicles(c, vs, carriers[c].antt)
    /\ UNCHANGED <<branches, closed, carriers, served, policy, route>>

\* Refused while a driver, a vehicle or (by its foreign key) a route has it.
DeleteCarrier(c) ==
    /\ carriers[c].state # "absent" /\ route.carrier # c
    /\ \A r \in Resources : register[r].carrier # c
    /\ carriers' = [carriers EXCEPT ![c] = [state |-> "absent", antt |-> FALSE]]
    /\ served' = {l \in served : l[1] # c}
    /\ fleet' = {l \in fleet : l.carrier # c}
    /\ UNCHANGED <<branches, closed, policy, register, available, route, unsynced, drifted>>

-----------------------------------------------------------------------------
(* The route: its carrier and its crew *)

CreateRoute(b, c, d, v) ==
    /\ route.branch = None /\ b \in branches
    /\ ValidCarrier(b, c)
    /\ d # None => ValidResource(d, b, c)
    /\ v # None => ValidResource(v, b, c)
    /\ route' = [branch |-> b, carrier |-> c, driver |-> d, vehicle |-> v]
    /\ UNCHANGED <<branches, closed, carriers, served, policy, register, fleet, available, unsynced, drifted>>

\* A sheet names any carrier (or none it can resolve).  A new route gets the driver
\* and the vehicle the sheet names, whoever they belong to; on a known one the
\* carrier is overwritten after the changes to confirm were collected, the crew stays.
ImportRoute(b, c, d, v) ==
    /\ b \in branches /\ route.branch \in {None, b}
    /\ route.branch # None => d = route.driver /\ v = route.vehicle
    /\ d # None => Present(d)
    /\ v # None => Present(v)
    /\ LET carrier == IF ValidCarrier(b, c) THEN c ELSE None
       IN  /\ route' = [route EXCEPT !.branch = b, !.carrier = carrier, !.driver = d, !.vehicle = v]
           /\ drifted' = (drifted \/ ((d # None \/ v # None) /\ carrier # route.carrier))
    /\ UNCHANGED <<branches, closed, carriers, served, policy, register, fleet, available, unsynced>>

\* A row of the Torre sheet: a name or a plate that the branch does not know is
\* registered, without a carrier and without branches.
NoCarrierRow == [NoRow EXCEPT !.present = TRUE, !.fit = TRUE, !.ownership = "proprio"]

\* The crew that the sheet names is written over the route's; its carrier stays.
TorreCrew(b, d, v) ==
    [route EXCEPT !.branch = b, !.driver = IF d = None THEN @ ELSE d, !.vehicle = IF v = None THEN @ ELSE v]

ImportTorre(b, d, v) ==
    LET new == {r \in {d, v} \ {None} : ~Present(r)} IN
    /\ b \in branches /\ route.branch \in {None, b}
    /\ register' = [r \in Resources |-> IF r \in new THEN NoCarrierRow ELSE register[r]]
    /\ unsynced' = unsynced \cup (new \X branches)
    /\ route' = TorreCrew(b, d, v)
    /\ drifted' = (drifted \/ (route.carrier # None /\ {route'.driver, route'.vehicle} # Crew))
    /\ UNCHANGED <<branches, closed, carriers, served, policy, fleet, available>>

\* PUT assignment looks at both, PUT route only at those it changes.
CanAssign(d, v) ==
    /\ d \notin {None, route.driver} => ValidResource(d, route.branch, route.carrier)
    /\ v \notin {None, route.vehicle} => ValidResource(v, route.branch, route.carrier)

\* While the route has no carrier, a crew of any carrier is accepted.
AssignRoute(d, v) ==
    /\ route.branch # None /\ <<d, v>> # <<route.driver, route.vehicle>>
    /\ CanAssign(d, v)
    /\ route' = [route EXCEPT !.driver = d, !.vehicle = v]
    /\ UNCHANGED <<branches, closed, carriers, served, policy, register, fleet, available, unsynced, drifted>>

\* Variant: the crew stays on the route.
AfterCarrierChange_KeepingCrew(c) == [route EXCEPT !.carrier = c]

AfterCarrierChange(c) ==
    [route EXCEPT !.carrier = c, !.driver = None, !.vehicle = None]

ChangeRouteCarrier(c) ==
    /\ route.branch # None /\ ValidCarrier(route.branch, c) /\ route.carrier # c
    /\ route' = AfterCarrierChange(c)
    /\ UNCHANGED <<branches, closed, carriers, served, policy, register, fleet, available, unsynced, drifted>>

-----------------------------------------------------------------------------

Request ==
    \/ \E b \in Branches : CreateBranch(b)
    \/ \E b \in Branches, active \in BOOLEAN : UpdateBranch(b, active)
    \/ \E c \in Carriers, b \in Branches : EnableCarrierBranch(c, b)
    \/ \E b \in Branches, required \in SUBSET {"driver", "vehicle"}, review \in BOOLEAN :
          ConfigureApproval(b, required, review)
    \/ \E r \in Resources, b \in Branches, active \in BOOLEAN : SetAvailability(r, b, active)
    \/ \E r \in Resources, b \in Branches, decision \in {"approved", "rejected"}, antt \in BOOLEAN :
          ReviewAvailability(r, b, decision, antt)
    \/ \E d \in Drivers, c \in Carriers \cup {None} : CreateDriver(d, c)
    \/ \E d \in Drivers, c \in Carriers \cup {None}, sync \in BOOLEAN : UpdateDriver(d, c, sync)
    \/ \E r \in Resources, fit \in BOOLEAN : ChangeStatus(r, fit)
    \/ \E r \in Resources : DeleteResource(r)
    \/ \E v \in Vehicles, own \in {"proprio", "agregado"}, c \in Carriers \cup {None}, antt \in BOOLEAN :
          CreateVehicle(v, own, c, antt)
    \/ \E v \in Vehicles, own \in {"proprio", "agregado"}, c \in Carriers \cup {None}, antt \in BOOLEAN :
          UpdateVehicle(v, own, c, antt)
    \/ \E c \in Carriers, vs \in SUBSET Vehicles, antt \in BOOLEAN : CreateCarrier(c, vs, antt)
    \/ \E c \in Carriers, state \in {"active", "inactive"} : UpdateCarrier(c, state)
    \/ \E c \in Carriers, state \in {"active", "inactive"}, antt \in BOOLEAN :
          UpdateCarrierAntt(c, state, antt)
    \/ \E c \in Carriers, vs \in SUBSET Vehicles : UpdateCarrierVehicles(c, vs)
    \/ \E c \in Carriers : DeleteCarrier(c)
    \/ \E b \in Branches, c \in Carriers, d \in Drivers \cup {None}, v \in Vehicles \cup {None} :
          CreateRoute(b, c, d, v)
    \/ \E b \in Branches, c \in Carriers \cup {None}, d \in Drivers \cup {None}, v \in Vehicles \cup {None} :
          ImportRoute(b, c, d, v)
    \/ \E b \in Branches, d \in Drivers \cup {None}, v \in Vehicles \cup {None} : ImportTorre(b, d, v)
    \/ \E d \in Drivers \cup {None}, v \in Vehicles \cup {None} : AssignRoute(d, v)
    \/ \E c \in Carriers : ChangeRouteCarrier(c)

Next == requests < MaxRequests /\ requests' = requests + 1 /\ Request

Spec == Init /\ [][Next]_vars

-----------------------------------------------------------------------------
(* Properties *)

\* The vehicle's carrier_id and the carrier's links are two copies of one fact,
\* written by the forms of both: they agree, no vehicle has two receivers, a
\* vehicle of the company has none, and the ANTT authorisation on the link is
\* that of the two numbers of this moment.
FleetAgreesWithVehicles ==
    fleet = {[carrier |-> register[v].carrier, vehicle |-> v,
              antt |-> Authorized(register[v].antt, carriers[register[v].carrier].antt)] :
                 v \in {x \in Vehicles : Present(x) /\ register[x].carrier # None}}

\* "Drivers are available in the branches their carrier serves, new ones
\* included" (docs/arquitetura-acessos-filiais.md), and vehicles with them,
\* whichever came first, the branch, the carrier's link to it, the row or its
\* move to that carrier.  Passed over are only: the branches that the new carrier
\* served when a row moved without a look, those that were closed at the last look
\* at a vehicle, and those there were when the Torre sheet made the row.
ServedBranchesOffered ==
    \A r \in Resources, b \in Branches :
        Present(r) /\ b \in ServedBy(register[r].carrier) /\ <<r, b>> \notin unsynced
        => available[r][b] # Absent

Usable(link) == link.active /\ link.approval = "approved"

\* While a branch asks for approval, nothing but its own review lets a resource
\* in: not a new carrier, a new availability, an edited register or a status.  The
\* one other way is back: a vehicle that the branch had approved, but held with
\* the note on the ANTT number, is in use again when its register is saved.
ApprovedOnlyByReview ==
    [][\A r \in Resources, b \in Branches :
          /\ Requires(b, r) /\ policy' = policy
          /\ Usable(available'[r][b]) /\ ~Usable(available[r][b])
          => \/ \E antt \in BOOLEAN : ReviewAvailability(r, b, "approved", antt)
             \/ available[r][b].antt /\ available[r][b].approval = "approved"]_vars

\* The crew of a route belongs to its carrier, through every change of carrier,
\* of crew and of registers, until a register of the crew moves to another
\* carrier, an import overwrites the route's carrier, or the Torre sheet its crew.
CrewOfCarrier ==
    ~drifted /\ route.carrier # None =>
        \A r \in Crew \ {None} : register[r].carrier = route.carrier

=============================================================================
