---------------------------- MODULE DriverTracking ----------------------------
(***************************************************************************)
(* The positions of the driver's telephone: the loop of components/         *)
(* Layout.tsx that asks for the driver's routes, starts and stops the watch *)
(* of the telephone's position and tells the server of the driver's         *)
(* consent, and the handlers of tracking/router.py.                         *)
(*                                                                         *)
(* One driver, one route.  The loop is an effect of the page: when the user *)
(* changes it is disposed of and another is started, while a request of the *)
(* old one may still be under way.  A poll ends by setting a timer; what    *)
(* the timer finds hidden or busy sets none.  Requests reach the server in  *)
(* any order.                                                              *)
(***************************************************************************)
EXTENDS Integers, FiniteSets

CONSTANTS
    MaxSwitches,   \* bound: changes of the route, of its day, of the page or the user
    MaxPositions,  \* bound: positions sent
    MaxTimers,     \* bound: timers pending at the same time
    MaxFailures    \* bound: requests that fail

VARIABLES
    route,      \* status, and whether its day is today
    used,       \* whether a driver uses the application at all
    consent,    \* given: the last row of tracking_consents; ever: some row accepts
    recorded,   \* number of vehicle_positions
    open,       \* the page is that of a driver with the terms accepted
    visible,    \* the page is not hidden
    polls,      \* per effect: the one in force and the one disposed of
    timers,     \* timers of the effect in force that are set
    tracking,   \* driverTrackingRoute is set
    watch,      \* the telephone reports its position
    calls,      \* requests under way that nobody waits for
    switches, sent, failures   \* history, for the bounds

driverVars == <<route, used, consent, recorded, open, visible, polls, timers, tracking, watch, calls,
                switches, sent, failures>>
page == <<open, visible, polls, timers, tracking, watch>>
history == <<switches, sent, failures>>

Effects == {"now", "old"}
Steps == {"idle", "asking", "active", "none", "consenting", "consented"}

TrackingConsent == [given: BOOLEAN, ever: BOOLEAN]
VehiclePositions == 0..MaxPositions   \* how many

DriverTypeOK ==
    /\ route \in [status: {"planejada", "em_rota", "finalizada"}, today: BOOLEAN]
    /\ used \in BOOLEAN /\ consent \in TrackingConsent /\ recorded \in VehiclePositions
    /\ open \in BOOLEAN /\ visible \in BOOLEAN
    /\ polls \in [Effects -> Steps] /\ timers \in 0..MaxTimers
    /\ tracking \in BOOLEAN /\ watch \in BOOLEAN
    /\ calls \in [{"revoke", "position"} -> 0..MaxPositions + MaxSwitches]
    /\ switches \in 0..MaxSwitches /\ sent \in 0..MaxPositions /\ failures \in 0..MaxFailures

DriverInit ==
    /\ route = [status |-> "planejada", today |-> TRUE]
    /\ used \in BOOLEAN /\ open = FALSE /\ visible = TRUE
    /\ consent = [given |-> FALSE, ever |-> FALSE] /\ recorded = 0
    /\ polls = [e \in Effects |-> "idle"] /\ timers = 0 /\ tracking = FALSE /\ watch = FALSE
    /\ calls = [c \in {"revoke", "position"} |-> 0]
    /\ switches = 0 /\ sent = 0 /\ failures = 0

-----------------------------------------------------------------------------
(* The server                                                              *)

\* The route departs, is closed, is set back, or its day goes by.
RouteChanges ==
    /\ used /\ switches < MaxSwitches /\ switches' = switches + 1
    /\ \/ route.status = "planejada" /\ route' = [route EXCEPT !.status = "em_rota"]
       \/ route.status = "em_rota" /\ \E new \in {"planejada", "finalizada"} : route' = [route EXCEPT !.status = new]
       \/ route.today /\ route' = [route EXCEPT !.today = FALSE]
    /\ UNCHANGED <<used, consent, recorded, page, calls, sent, failures>>

\* The route the loop would pick from GET /routes.
Active == route.status = "em_rota" \/ (route.today /\ route.status # "finalizada")

\* update_consent: one more row.
Consented(accepted) == [given |-> accepted, ever |-> consent.ever \/ accepted]

\* record_position: some row accepts, and the route is not closed.
MayRecord == consent.ever /\ route.status # "finalizada"

\* A request that nobody waits for is handled, or is lost.
Handled(c) ==
    /\ calls[c] > 0
    /\ calls' = [calls EXCEPT ![c] = @ - 1]
    /\ consent' = IF c = "revoke" THEN Consented(FALSE) ELSE consent
    /\ recorded' = IF c = "position" /\ MayRecord THEN recorded + 1 ELSE recorded
    /\ UNCHANGED <<route, used, page, history>>
Lost(c) ==
    /\ calls[c] > 0 /\ failures < MaxFailures /\ failures' = failures + 1
    /\ calls' = [calls EXCEPT ![c] = @ - 1]
    /\ UNCHANGED <<route, used, consent, recorded, page, switches, sent>>

-----------------------------------------------------------------------------
(* The page                                                                *)

\* stop: the watch goes, and the consent with it when the loop asks for that.
Stopped(revoke) ==
    /\ watch' = FALSE /\ tracking' = FALSE
    /\ calls' = IF revoke /\ tracking THEN [calls EXCEPT !["revoke"] = @ + 1] ELSE calls

\* refresh, where it goes on.
Refreshed == polls' = [polls EXCEPT !["now"] = "asking"]
CanRefresh == open /\ visible /\ polls["now"] = "idle"

\* The effect of a user who is a driver: its first poll.
Opens ==
    /\ used /\ ~open /\ switches < MaxSwitches /\ switches' = switches + 1
    /\ open' = TRUE
    /\ IF visible THEN Refreshed ELSE UNCHANGED polls
    /\ UNCHANGED <<route, used, consent, recorded, visible, timers, tracking, watch, calls, sent, failures>>

\* Its cleanup.  A request of an effect before it is given up for the model.
Leaves ==
    /\ open /\ switches < MaxSwitches /\ switches' = switches + 1
    /\ polls["old"] = "idle"
    /\ open' = FALSE /\ timers' = 0
    /\ polls' = [now |-> "idle", old |-> polls["now"]]
    /\ Stopped(FALSE)
    /\ UNCHANGED <<route, used, consent, recorded, visible, sent, failures>>

\* Variant: nothing happens when the page is shown again.
Shown_Silent == UNCHANGED polls

\* onVisible
Shown == IF open /\ polls["now"] = "idle" THEN Refreshed ELSE UNCHANGED polls

Hides ==
    /\ used /\ visible /\ switches < MaxSwitches /\ switches' = switches + 1
    /\ visible' = FALSE
    /\ UNCHANGED <<route, used, consent, recorded, open, polls, timers, tracking, watch, calls, sent, failures>>
Shows ==
    /\ used /\ ~visible
    /\ visible' = TRUE /\ Shown
    /\ UNCHANGED <<route, used, consent, recorded, open, timers, tracking, watch, calls, history>>

Timer ==
    /\ timers > 0 /\ timers' = timers - 1
    /\ IF CanRefresh THEN Refreshed ELSE UNCHANGED polls
    /\ UNCHANGED <<route, used, consent, recorded, open, visible, tracking, watch, calls, history>>

\* GET /routes is answered.
Answered(e) ==
    /\ polls[e] = "asking"
    /\ polls' = [polls EXCEPT ![e] = IF Active THEN "active" ELSE "none"]
    /\ UNCHANGED <<route, used, consent, recorded, open, visible, timers, tracking, watch, calls, history>>

\* The end of a poll: another is due, unless the effect is disposed of.
PollEnds(e) ==
    /\ polls' = [polls EXCEPT ![e] = "idle"]
    /\ timers' = IF e = "now" /\ timers < MaxTimers THEN timers + 1 ELSE timers

\* No active route: stop(true).  A disposed effect does it too.
StopsTracking(e) ==
    /\ polls[e] = "none"
    /\ Stopped(TRUE) /\ PollEnds(e)
    /\ UNCHANGED <<route, used, consent, recorded, open, visible, history>>

\* start: nothing to do when the route is tracked already or the effect is disposed
\* of; otherwise the old watch goes and the consent is sent.
StartsTracking(e) ==
    /\ polls[e] = "active"
    /\ IF tracking \/ e = "old"
       THEN PollEnds(e) /\ UNCHANGED <<tracking, watch, calls>>
       ELSE Stopped(FALSE) /\ polls' = [polls EXCEPT ![e] = "consenting"] /\ UNCHANGED timers
    /\ UNCHANGED <<route, used, consent, recorded, open, visible, history>>

\* The server handles the consent that start waits for.
ConsentHandled(e) ==
    /\ polls[e] = "consenting"
    /\ polls' = [polls EXCEPT ![e] = "consented"]
    /\ consent' = Consented(TRUE)
    /\ UNCHANGED <<route, used, recorded, open, visible, timers, tracking, watch, calls, history>>

\* Variant: start does not look again whether it is disposed of.
GoesOn_Unchecked(e) == TRUE

\* `if (disposed) return' after the await.
GoesOn(e) == e = "now"

Watches(e) ==
    /\ polls[e] = "consented"
    /\ tracking' = (tracking \/ GoesOn(e)) /\ watch' = (watch \/ GoesOn(e))
    /\ PollEnds(e)
    /\ UNCHANGED <<route, used, consent, recorded, open, visible, calls, history>>

\* A request of the loop fails: the poll ends.
PollFails(e) ==
    /\ polls[e] \in {"asking", "consenting", "consented"} /\ failures < MaxFailures
    /\ failures' = failures + 1
    /\ PollEnds(e)
    /\ UNCHANGED <<route, used, consent, recorded, open, visible, tracking, watch, calls, switches, sent>>

\* The telephone reports where it is.
Reports ==
    /\ watch /\ sent < MaxPositions /\ sent' = sent + 1
    /\ calls' = [calls EXCEPT !["position"] = @ + 1]
    /\ UNCHANGED <<route, used, consent, recorded, page, switches, failures>>

PollStep(e) == Answered(e) \/ StopsTracking(e) \/ StartsTracking(e) \/ ConsentHandled(e) \/ Watches(e)

DriverNext ==
    \/ RouteChanges \/ Opens \/ Leaves \/ Hides \/ Shows \/ Timer \/ Reports
    \/ \E c \in {"revoke", "position"} : Handled(c) \/ Lost(c)
    \/ \E e \in Effects : PollStep(e) \/ PollFails(e)

\* A timer goes off, and a request is answered or fails.
DriverFairness == WF_driverVars(Timer) /\ \A e \in Effects : WF_driverVars(PollStep(e))

-----------------------------------------------------------------------------

\* When the driver has left the page, his position is no longer watched, though a
\* request of the loop was under way when he left; and it is never watched without
\* the loop knowing that it tracks (Layout.tsx, start and stop).
NoWatchLeft == (watch => open) /\ (watch <=> tracking)

\* Once the route is closed the watch is given up, unless the page stays hidden or
\* the route is opened again (Layout.tsx, stop).
WatchEnds == watch /\ ~Active ~> ~watch \/ Active \/ ~visible

\* A position is recorded only while the driver's last word is his consent: "E
\* necessario aceitar o termo de rastreamento" (record_position).
RecordedWithConsent == [][recorded' # recorded => consent.given]_driverVars
=============================================================================
