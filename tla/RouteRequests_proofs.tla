------------------------ MODULE RouteRequests_proofs ------------------------
(***************************************************************************)
(* RouteRequests implements StopLedger, for any number of stops, workers and *)
(* requests: however requests overlap, their commits only add to what the    *)
(* timeline says.  The argument is that what a request has read may be old    *)
(* but is never ahead of the rows, and that a commit writes only what the     *)
(* handler has changed.                                                       *)
(*                                                                         *)
(* What the overlaps do to the promises of the handlers is proved second: as  *)
(* long as no writer of stops has missed an outcome, an ended stop stays       *)
(* ended, and what a request has read differs from the rows only by what the   *)
(* commits it missed can write (Drift, OverlapSound).                          *)
(***************************************************************************)
EXTENDS RouteRequests, RouteHandlers_proofs

\* What the timeline tells of a stop and of the route.
SameFacts(r, q) ==
    /\ q.checkin = r.checkin /\ q.delivered = r.delivered
    /\ q.arrivals = r.arrivals /\ q.outcomes = r.outcomes

\* The departure is recorded in both its places.
Agree(d) == Departed(d) => d.departed

\* The rows d are no newer than the rows e.
Behind(d, e) ==
    /\ d.departed => e.departed
    /\ \A j \in StopIds : /\ d.stops[j].checkin => e.stops[j].checkin
                          /\ d.stops[j].delivered => e.stops[j].delivered
                          /\ d.stops[j].arrivals <= e.stops[j].arrivals
                          /\ d.stops[j].outcomes <= e.stops[j].outcomes

\* What handler op does to the facts: at most those of stop k change.
Arrived(r, q) ==
    /\ ~r.checkin /\ q.checkin /\ q.arrivals = Tick(r.arrivals)
    /\ q.delivered = r.delivered /\ q.outcomes = r.outcomes

Ended(r, q) ==
    /\ q.checkin /\ q.outcomes = Tick(r.outcomes)
    /\ q.arrivals = IF r.checkin THEN r.arrivals ELSE Tick(r.arrivals)
    /\ q.delivered = r.delivered \/ q.delivered

Effect(d, e, op, k) ==
    /\ e \in Db /\ e.next = d.next
    /\ d.dock \subseteq e.dock
    /\ "departure_cd_at" \in e.dock => Departed(d) \/ op = "start"
    /\ e.departed = IF op = "start" THEN TRUE ELSE d.departed
    /\ \A j \in StopIds \ {k} : SameFacts(d.stops[j], e.stops[j])
    /\ CASE op = "checkin"                -> Departed(d) /\ Arrived(d.stops[k], e.stops[k])
         [] op \in {"success", "failure"} -> Departed(d) /\ Ended(d.stops[k], e.stops[k])
         [] OTHER                         -> SameFacts(d.stops[k], e.stops[k])

-----------------------------------------------------------------------------
(* The handlers                                                             *)

\* The rows of RouteRequests: all ids have been handed out.
Rows(d) == d \in Db /\ d.next = MaxStops + 1

LEMMA RowsWellFormed ==
    ASSUME NEW d, Rows(d)
    PROVE  WellFormed(d)
BY MaxStopsAssumption DEF Rows, WellFormed, Fresh, StopIds

LEMMA PromotionFacts ==
    ASSUME NEW d, Rows(d)
    PROVE  /\ Rows(StartNextStopTravel(d))
           /\ StartNextStopTravel(d).dock = d.dock
           /\ StartNextStopTravel(d).departed = d.departed
           /\ \A j \in StopIds : SameFacts(d.stops[j], StartNextStopTravel(d).stops[j])
<1> DEFINE e == StartNextStopTravel(d)
<1>1. Rows(e) /\ e.dock = d.dock /\ e.departed = d.departed
  <2>1. e \in Db
    BY RowsWellFormed, StartNextStopTravelTyped DEF WellFormed
  <2> QED BY <2>1 DEF StartNextStopTravel, Rows, Db
<1>2. ASSUME NEW j \in StopIds PROVE SameFacts(d.stops[j], e.stops[j])
  <2>1. e.stops[j] = d.stops[j] \/ e.stops[j] = Promoted(d.stops[j])
    BY DEF StartNextStopTravel, Rows, Db
  <2>2. d.stops[j] \in Row
    BY DEF Rows, Db
  <2> QED BY <2>1, <2>2 DEF SameFacts, Promoted, Row
<1> QED BY <1>1, <1>2

\* A stop is written, and the next one promoted.
LEMMA StopThenPromotion ==
    ASSUME NEW d, Rows(d), NEW k \in Stops(d), NEW r \in Row,
           NEW e, Rows(e), e.stops = WithStop(d, k, r).stops,
           e.dock = d.dock, e.departed = d.departed
    PROVE  /\ Rows(StartNextStopTravel(e))
           /\ StartNextStopTravel(e).dock = d.dock
           /\ StartNextStopTravel(e).departed = d.departed
           /\ \A j \in StopIds \ {k} : SameFacts(d.stops[j], StartNextStopTravel(e).stops[j])
           /\ SameFacts(r, StartNextStopTravel(e).stops[k])
<1>1. k \in StopIds /\ \A j \in StopIds : e.stops[j] = IF j = k THEN r ELSE d.stops[j]
  BY DEF WithStop, Rows, Db, Stops
<1> QED BY <1>1, PromotionFacts

LEMMA StartEffect ==
    ASSUME NEW d, Rows(d), NEW k \in StopIds
    PROVE  Effect(d, AfterRelease(d), "start", k)
<1> DEFINE e == [d EXCEPT !.dock = @ \cup {"operator_released_at", "departure_cd_at"},
                          !.departed = TRUE, !.status = "em_rota"]
<1>1. Rows(e) /\ d.dock \subseteq e.dock /\ e.departed /\ e.stops = d.stops
  BY DEF Rows, Db, RouteStatuses, DockFields
<1>2. AfterRelease(d) = StartNextStopTravel(e)
  BY DEF AfterRelease
<1> HIDE DEF e
<1>3. e.departed = TRUE
  BY <1>1 DEF Rows, Db
<1> QED BY <1>1, <1>2, <1>3, PromotionFacts DEF Effect, Rows

LEMMA CheckinEffect ==
    ASSUME NEW d, Rows(d), NEW k \in StopIds, CanCheckin(d, k)
    PROVE  Effect(d, AfterCheckin(d, k), "checkin", k)
<1> DEFINE e == AfterCheckin(d, k)
<1>1. d.stops[k] \in Row /\ CheckedIn(d.stops[k]) \in Row
  BY RowTyped DEF Rows, Db
<1>2. e \in Db /\ e.next = d.next /\ e.dock = d.dock /\ e.departed = d.departed
      /\ \A j \in StopIds : e.stops[j] = IF j = k THEN CheckedIn(d.stops[k]) ELSE d.stops[j]
  BY <1>1 DEF AfterCheckin, WithStop, Rows, Db
<1>3. Arrived(d.stops[k], CheckedIn(d.stops[k]))
  BY <1>1 DEF CanCheckin, Arrived, CheckedIn, Row
<1> HIDE DEF e
<1>4. Departed(d) /\ Arrived(d.stops[k], e.stops[k])
  BY <1>2, <1>3 DEF CanCheckin
<1> QED BY <1>2, <1>4 DEF Effect, SameFacts, Departed, e

LEMMA OutcomeEffect ==
    ASSUME NEW d, Rows(d), NEW k \in StopIds
    PROVE  Deliverable(d, k) =>
             /\ Effect(d, AfterSuccess(d, k, FALSE), "success", k)
             /\ \A o \in Occurrences : Effect(d, AfterFailure(d, k, FALSE, o), "failure", k)
<1>1. ASSUME Deliverable(d, k), NEW r \in Row, Ended(d.stops[k], r),
             NEW e, Rows(e), e.stops = WithStop(d, k, r).stops, e.dock = d.dock,
             e.departed = d.departed, NEW op \in {"success", "failure"}
      PROVE  Effect(d, StartNextStopTravel(e), op, k)
  <2> DEFINE f == StartNextStopTravel(e)
  <2>1. /\ Rows(f) /\ f.dock = d.dock /\ f.departed = d.departed
        /\ \A j \in StopIds \ {k} : SameFacts(d.stops[j], f.stops[j])
        /\ SameFacts(r, f.stops[k])
    BY <1>1, StopThenPromotion DEF Deliverable
  <2> HIDE DEF f
  <2>2. Ended(d.stops[k], f.stops[k])
    BY <1>1, <2>1 DEF Ended, SameFacts
  <2>3. Departed(d)
    BY <1>1 DEF Deliverable
  <2> QED BY <2>1, <2>2, <2>3 DEF Effect, Rows, Departed, f
<1> DEFINE q == EnsureStopCheckin(d.stops[k])
<1>2. d.stops[k] \in Row /\ q \in Row /\ Succeeded(q, FALSE) \in Row /\ Failed(q, FALSE) \in Row
  BY RowTyped DEF Rows, Db
<1>3. /\ q.checkin /\ q.delivered = d.stops[k].delivered /\ q.outcomes = d.stops[k].outcomes
      /\ q.arrivals = IF d.stops[k].checkin THEN d.stops[k].arrivals ELSE Tick(d.stops[k].arrivals)
  BY <1>2 DEF EnsureStopCheckin, Row
<1> HIDE DEF q
<1>4. Ended(d.stops[k], Succeeded(q, FALSE)) /\ Ended(d.stops[k], Failed(q, FALSE))
  BY <1>2, <1>3 DEF Ended, Succeeded, Failed, Row
<1>5. ASSUME Deliverable(d, k) PROVE Effect(d, AfterSuccess(d, k, FALSE), "success", k)
  <2> DEFINE r == Succeeded(q, FALSE)
             e == WithStop(d, k, r)
  <2>1. Rows(e) /\ e.dock = d.dock /\ e.departed = d.departed
    BY <1>2 DEF WithStop, Rows, Db
  <2> HIDE DEF r
  <2>2. Effect(d, StartNextStopTravel(e), "success", k)
    BY <1>1, <1>2, <1>4, <1>5, <2>1 DEF r
  <2> QED BY <2>2 DEF AfterSuccess, r, q
<1>6. ASSUME NEW o \in Occurrences, Deliverable(d, k)
      PROVE  Effect(d, AfterFailure(d, k, FALSE, o), "failure", k)
  <2> DEFINE r == Failed(q, FALSE)
             e == [WithStop(d, k, r) EXCEPT !.occ[o] = "aberta"]
  <2>1. /\ Rows(e) /\ e.dock = d.dock /\ e.departed = d.departed
        /\ e.stops = WithStop(d, k, r).stops
    <3>1. Rows(WithStop(d, k, r)) /\ WithStop(d, k, r).dock = d.dock
          /\ WithStop(d, k, r).departed = d.departed
      BY <1>2 DEF WithStop, Rows, Db
    <3> HIDE DEF r
    <3> QED BY <3>1 DEF Rows, Db, OccurrenceStatuses, OpenOccurrenceStatuses
  <2> HIDE DEF r
  <2>2. Effect(d, StartNextStopTravel(e), "failure", k)
    BY <1>1, <1>2, <1>4, <1>6, <2>1 DEF r
  <2> QED BY <2>2 DEF AfterFailure, r, q
<1> QED BY <1>5, <1>6

\* Closing, reopening and occurrences say nothing new of the stops.
LEMMA OtherEffect ==
    ASSUME NEW d, Rows(d), NEW k \in StopIds
    PROVE  /\ Effect(d, AfterClose(d), "close", k)
           /\ Effect(d, AfterReopen(d), "reopen", k)
           /\ \A o \in Occurrences :
                 /\ Effect(d, AfterCreateOccurrence(d, o), "occurrence", k)
                 /\ Effect(d, AfterUpdateOccurrence(d, o, "cancelada"), "settle", k)
<1>1. ASSUME NEW op \in {"close", "reopen", "occurrence", "settle"}, NEW e \in Db,
             e.next = d.next, e.dock = d.dock, e.departed = d.departed,
             \A j \in StopIds : SameFacts(d.stops[j], e.stops[j])
      PROVE  Effect(d, e, op, k)
  BY <1>1 DEF Effect, Departed
<1>2. WellFormed(d) /\ "arrival_cd_at" \in DockFields /\ "cancelada" \in OccurrenceStatuses
  BY RowsWellFormed DEF DockFields, OccurrenceStatuses
<1>3. /\ AfterClose(d) \in Db /\ AfterReopen(d) \in Db
      /\ \A o \in Occurrences : /\ AfterCreateOccurrence(d, o) \in Db
                                /\ AfterUpdateOccurrence(d, o, "cancelada") \in Db
  BY <1>2, RouteColumnsTyped, OccurrencesTyped DEF WellFormed
<1>4. Effect(d, AfterClose(d), "close", k) /\ Effect(d, AfterReopen(d), "reopen", k)
  BY <1>1, <1>3 DEF AfterClose, AfterReopen, Rows, Db, SameFacts
<1>5. ASSUME NEW o \in Occurrences
      PROVE  /\ Effect(d, AfterCreateOccurrence(d, o), "occurrence", k)
             /\ Effect(d, AfterUpdateOccurrence(d, o, "cancelada"), "settle", k)
  <2>1. ASSUME NEW j \in StopIds PROVE SameFacts(d.stops[j], AfterCreateOccurrence(d, o).stops[j])
    <3>1. \/ AfterCreateOccurrence(d, o).stops[j] = d.stops[j]
          \/ AfterCreateOccurrence(d, o).stops[j] = [d.stops[j] EXCEPT !.status = "pendente"]
      BY DEF AfterCreateOccurrence, Rows, Db
    <3>2. d.stops[j] \in Row
      BY DEF Rows, Db
    <3> QED BY <3>1, <3>2 DEF SameFacts, Row
  <2>2. Effect(d, AfterCreateOccurrence(d, o), "occurrence", k)
    BY <1>1, <1>3, <2>1 DEF AfterCreateOccurrence, Rows, Db
  <2>3. Effect(d, AfterUpdateOccurrence(d, o, "cancelada"), "settle", k)
    BY <1>1, <1>3 DEF AfterUpdateOccurrence, Rows, Db, SameFacts
  <2> QED BY <2>2, <2>3
<1> QED BY <1>4, <1>5

-----------------------------------------------------------------------------
(* The commit                                                               *)

\* Events are inserted: what a request adds comes on top of what the others have.
LEMMA InsertedEvents ==
    ASSUME NEW old \in Tally, NEW current \in Tally, old <= current
    PROVE  /\ Inserted(old, old, current) = current
           /\ Inserted(old, Tick(old), current) = IF current = 0 THEN 1 ELSE 2
BY DEF Inserted, Tick, Tally

LEMMA MergedTyped ==
    ASSUME NEW d, Rows(d), NEW e \in Db, NEW current, Rows(current)
    PROVE  Rows(Merged(d, e, current))
<1>1. ASSUME NEW o \in Row, NEW n \in Row, NEW c \in Row PROVE MergedRow(o, n, c) \in Row
  <2>1. ASSUME NEW a \in Tally, NEW b \in Tally, NEW x \in Tally PROVE Inserted(a, b, x) \in Tally
    BY DEF Inserted, Tick, Tally
  <2>2. /\ Written(o.status, n.status, c.status) \in StopStatuses
        /\ Written(o.checkin, n.checkin, c.checkin) \in BOOLEAN
        /\ Written(o.delivered, n.delivered, c.delivered) \in BOOLEAN
        /\ Written(o.reason, n.reason, c.reason) \in BOOLEAN
        /\ Written(o.travelled, n.travelled, c.travelled) \in BOOLEAN
    BY DEF Written, Row
  <2>3. /\ Inserted(o.arrivals, n.arrivals, c.arrivals) \in Tally
        /\ Inserted(o.outcomes, n.outcomes, c.outcomes) \in Tally
    BY <2>1 DEF Row
  <2> QED BY <2>2, <2>3 DEF MergedRow, Row
<1> DEFINE stops == [k \in StopIds |-> MergedRow(d.stops[k], e.stops[k], current.stops[k])]
           occ == [o \in Occurrences |-> Written(d.occ[o], e.occ[o], current.occ[o])]
           dock == (current.dock \cup (e.dock \ d.dock)) \ (d.dock \ e.dock)
           status == Written(d.status, e.status, current.status)
           departed == Written(d.departed, e.departed, current.departed)
           closedAt == Written(d.closedAt, e.closedAt, current.closedAt)
           closings == Inserted(d.closings, e.closings, current.closings)
<1>2. stops \in [StopIds -> Row]
  BY <1>1 DEF Rows, Db
<1>3. occ \in [Occurrences -> OccurrenceStatuses \cup {"none"}]
  BY DEF Rows, Db, Written
<1>4. dock \subseteq DockFields
  BY DEF Rows, Db
<1>5. status \in RouteStatuses /\ departed \in BOOLEAN /\ closedAt \in BOOLEAN
  BY DEF Rows, Db, Written
<1>6. closings \in Tally
  BY DEF Rows, Db, Inserted, Tick, Tally
<1>7. Merged(d, e, current) = [current EXCEPT !.status = status, !.dock = dock,
         !.departed = departed, !.closedAt = closedAt, !.stops = stops, !.occ = occ,
         !.closings = closings]
  BY DEF Merged, Rows, Db
<1> HIDE DEF stops, occ, dock, status, departed, closedAt, closings
<1>8. current \in Db /\ current.next = MaxStops + 1
  BY DEF Rows
<1>9. Merged(d, e, current) = [status |-> status, session |-> current.session, dock |-> dock,
         departed |-> departed, closedAt |-> closedAt, emptyPhoto |-> current.emptyPhoto,
         loadedPhoto |-> current.loadedPhoto, next |-> current.next, stops |-> stops,
         occ |-> occ, closings |-> closings]
  BY <1>7, <1>8 DEF Db
<1>10. Merged(d, e, current) \in Db
  <2>1. /\ current.session \in BOOLEAN /\ current.next \in 1..(MaxStops + 1)
        /\ current.emptyPhoto \in BOOLEAN /\ current.loadedPhoto \in BOOLEAN
    BY <1>8 DEF Db
  <2> QED BY <2>1, <1>2, <1>3, <1>4, <1>5, <1>6, <1>9 DEF Db
<1> QED BY <1>8, <1>9, <1>10 DEF Rows

More(n) == IF n = 0 THEN 1 ELSE 2

\* What the commit of op leaves of the rows d: the effect of its handler, on the
\* rows of now instead of those it has read.
ArrivalCommitted(r, q) ==
    /\ q.checkin /\ q.delivered = r.delivered
    /\ q.arrivals = More(r.arrivals) /\ q.outcomes = r.outcomes

EndCommitted(r, q) ==
    /\ q.checkin /\ q.outcomes = More(r.outcomes)
    /\ q.delivered = r.delivered \/ q.delivered
    /\ q.arrivals = More(r.arrivals) \/ (r.checkin /\ q.arrivals = r.arrivals)

Committed(d, e, op, k) ==
    /\ Rows(e) /\ Agree(e)
    /\ e.departed = IF op = "start" THEN TRUE ELSE d.departed
    /\ \A j \in StopIds \ {k} : SameFacts(d.stops[j], e.stops[j])
    /\ op \in {"checkin", "success", "failure"} => d.departed
    /\ op = "checkin" => ArrivalCommitted(d.stops[k], e.stops[k])
    /\ op \in {"success", "failure"} => EndCommitted(d.stops[k], e.stops[k])
    /\ op \notin {"checkin", "success", "failure"} => SameFacts(d.stops[k], e.stops[k])

LEMMA CommittedEffect ==
    ASSUME NEW d, Rows(d), Agree(d), NEW current, Rows(current), Agree(current),
           Behind(d, current), NEW op, NEW k \in StopIds, NEW e, Effect(d, e, op, k),
           op \in {"checkin", "success", "failure"} => Departed(d)
    PROVE  Committed(current, Merged(d, e, current), op, k)
<1> DEFINE m == Merged(d, e, current)
<1>1. Rows(m)
  BY MergedTyped DEF Effect
<1>2. /\ m.departed = Written(d.departed, e.departed, current.departed)
      /\ m.dock = (current.dock \cup (e.dock \ d.dock)) \ (d.dock \ e.dock)
      /\ \A j \in StopIds : m.stops[j] = MergedRow(d.stops[j], e.stops[j], current.stops[j])
  BY DEF Merged, Rows, Db
<1>3. \A j \in StopIds : /\ d.stops[j] \in Row /\ e.stops[j] \in Row /\ current.stops[j] \in Row
                          /\ m.stops[j] \in Row
  BY <1>1 DEF Effect, Rows, Db
<1>4. ASSUME NEW j \in StopIds
      PROVE  LET o == d.stops[j]  n == e.stops[j]  c == current.stops[j]  q == m.stops[j] IN
             /\ q.checkin = Written(o.checkin, n.checkin, c.checkin)
             /\ q.delivered = Written(o.delivered, n.delivered, c.delivered)
             /\ q.arrivals = Inserted(o.arrivals, n.arrivals, c.arrivals)
             /\ q.outcomes = Inserted(o.outcomes, n.outcomes, c.outcomes)
  <2>1. PICK o, n, c, q : o = d.stops[j] /\ n = e.stops[j] /\ c = current.stops[j] /\ q = m.stops[j]
    OBVIOUS
  <2>2. q = MergedRow(o, n, c) /\ c \in Row
    BY <1>2, <1>3, <2>1
  <2>3. /\ q.checkin = Written(o.checkin, n.checkin, c.checkin)
        /\ q.delivered = Written(o.delivered, n.delivered, c.delivered)
        /\ q.arrivals = Inserted(o.arrivals, n.arrivals, c.arrivals)
        /\ q.outcomes = Inserted(o.outcomes, n.outcomes, c.outcomes)
    BY <2>2 DEF MergedRow, Row
  <2> QED BY <2>1, <2>3
<1>5. d.departed \in BOOLEAN /\ current.departed \in BOOLEAN /\ (d.departed => current.departed)
  BY DEF Rows, Db, Behind
<1> HIDE DEF m
<1>6. m.departed = IF op = "start" THEN TRUE ELSE current.departed
  BY <1>2, <1>5 DEF Effect, Written
<1>7. op \in {"checkin", "success", "failure"} => current.departed
  BY <1>5 DEF Agree
<1>8. Agree(m)
  <2>1. "departure_cd_at" \in m.dock => "departure_cd_at" \in current.dock \/ op = "start" \/ Departed(d)
    BY <1>2 DEF Effect
  <2> QED BY <1>5, <1>6, <2>1 DEF Agree, Departed
<1>9. ASSUME NEW j \in StopIds, SameFacts(d.stops[j], e.stops[j])
      PROVE  SameFacts(current.stops[j], m.stops[j])
  BY <1>3, <1>4, <1>9 DEF SameFacts, Written, Inserted
<1>10. ASSUME NEW j \in StopIds
       PROVE  /\ d.stops[j].arrivals \in Tally /\ current.stops[j].arrivals \in Tally
              /\ d.stops[j].outcomes \in Tally /\ current.stops[j].outcomes \in Tally
              /\ d.stops[j].arrivals <= current.stops[j].arrivals
              /\ d.stops[j].outcomes <= current.stops[j].outcomes
              /\ d.stops[j].checkin \in BOOLEAN /\ current.stops[j].checkin \in BOOLEAN
              /\ d.stops[j].delivered \in BOOLEAN /\ current.stops[j].delivered \in BOOLEAN
              /\ d.stops[j].checkin => current.stops[j].checkin
              /\ d.stops[j].delivered => current.stops[j].delivered
  BY <1>3 DEF Row, Behind
<1>11. \A j \in StopIds \ {k} : SameFacts(current.stops[j], m.stops[j])
  BY <1>9 DEF Effect
<1>12. ASSUME op = "checkin" PROVE ArrivalCommitted(current.stops[k], m.stops[k])
  <2>1. Arrived(d.stops[k], e.stops[k])
    BY <1>12 DEF Effect
  <2>2. m.stops[k].checkin /\ m.stops[k].delivered = current.stops[k].delivered
    BY <1>4, <1>10, <2>1 DEF Arrived, Written
  <2>3. m.stops[k].arrivals = More(current.stops[k].arrivals)
    BY <1>4, <1>10, <2>1, InsertedEvents DEF Arrived, More
  <2>4. m.stops[k].outcomes = current.stops[k].outcomes
    BY <1>4, <1>10, <2>1, InsertedEvents DEF Arrived
  <2> QED BY <2>2, <2>3, <2>4 DEF ArrivalCommitted
<1>13. ASSUME op \in {"success", "failure"} PROVE EndCommitted(current.stops[k], m.stops[k])
  <2>1. Ended(d.stops[k], e.stops[k])
    BY <1>13 DEF Effect
  <2>2. m.stops[k].checkin
    BY <1>4, <1>10, <2>1 DEF Ended, Written
  <2>3. m.stops[k].delivered = current.stops[k].delivered \/ m.stops[k].delivered
    BY <1>3, <1>4, <1>10, <2>1 DEF Ended, Written, Row
  <2>4. m.stops[k].outcomes = More(current.stops[k].outcomes)
    BY <1>4, <1>10, <2>1, InsertedEvents DEF Ended, More
  <2>5. \/ m.stops[k].arrivals = More(current.stops[k].arrivals)
        \/ current.stops[k].checkin /\ m.stops[k].arrivals = current.stops[k].arrivals
    BY <1>4, <1>10, <2>1, InsertedEvents DEF Ended, More
  <2> QED BY <2>2, <2>3, <2>4, <2>5 DEF EndCommitted
<1>14. op \notin {"checkin", "success", "failure"} => SameFacts(current.stops[k], m.stops[k])
  BY <1>9 DEF Effect
<1>15. Committed(current, m, op, k)
  BY <1>1, <1>6, <1>7, <1>8, <1>11, <1>12, <1>13, <1>14 DEF Committed
<1> QED BY <1>15 DEF m

\* A commit is not behind the rows it finds.
LEMMA CommittedAhead ==
    ASSUME NEW d, Rows(d), NEW e, NEW op, NEW k \in StopIds, Committed(d, e, op, k)
    PROVE  Behind(d, e)
<1>1. \A j \in StopIds : d.stops[j] \in Row
  BY DEF Rows, Db
<1>2. ASSUME NEW r \in Row, NEW q,
             SameFacts(r, q) \/ ArrivalCommitted(r, q) \/ EndCommitted(r, q)
      PROVE  /\ r.checkin => q.checkin
             /\ r.delivered => q.delivered
             /\ r.arrivals <= q.arrivals /\ r.outcomes <= q.outcomes
  <2>1. r.arrivals \in Tally /\ r.outcomes \in Tally
    BY DEF Row
  <2> QED BY <1>2, <2>1 DEF SameFacts, ArrivalCommitted, EndCommitted, More, Tally
<1>3. \A j \in StopIds : \/ SameFacts(d.stops[j], e.stops[j])
                         \/ ArrivalCommitted(d.stops[j], e.stops[j])
                         \/ EndCommitted(d.stops[j], e.stops[j])
  BY DEF Committed
<1>4. d.departed => e.departed
  BY DEF Committed
<1> QED BY <1>1, <1>2, <1>3, <1>4 DEF Behind

LEMMA BehindBoth ==
    ASSUME NEW d, Rows(d), NEW e, Rows(e), NEW f, Rows(f), Behind(d, e), Behind(e, f)
    PROVE  Behind(d, f)
<1>1. \A x \in {d, e, f} : \A j \in StopIds : x.stops[j].arrivals \in Nat /\ x.stops[j].outcomes \in Nat
  <2>1. \A x \in {d, e, f} : \A j \in StopIds : x.stops[j] \in Row
    BY DEF Rows, Db
  <2>2. \A r \in Row : r.arrivals \in Nat /\ r.outcomes \in Nat
    BY DEF Row, Tally
  <2> QED BY <2>1, <2>2
<1> QED BY <1>1 DEF Behind

LEMMA BehindItself ==
    ASSUME NEW d, Rows(d)
    PROVE  Behind(d, d)
BY DEF Behind, Rows, Db, Row, Tally

-----------------------------------------------------------------------------
(* The invariant: what a request has read is behind the rows, and fits what   *)
(* it is going to write.                                                     *)

Allowed(d, op, k, o) ==
    /\ k \in StopIds /\ op \in AllOps
    /\ op \in {"failure", "occurrence", "settle"} => o \in Occurrences
    /\ op = "checkin" => CanCheckin(d, k)
    /\ op \in {"success", "failure"} => Deliverable(d, k)

RequestSound(r, current) ==
    /\ r = Request(r.pc, r.op, r.stop, r.occ, r.seen, r.after, r.missed)
    /\ Rows(r.seen) /\ Agree(r.seen) /\ Behind(r.seen, current)
    /\ Allowed(r.seen, r.op, r.stop, r.occ)
    /\ r.pc = "decided" => r.after = After(r.seen, r.op, r.stop, r.occ)

RequestsSound ==
    /\ Rows(db) /\ Agree(db)
    /\ work = [w \in Workers |-> work[w]]
    /\ \A w \in Workers : work[w].pc # "idle" => RequestSound(work[w], db)

LEMMA HandlerEffect ==
    ASSUME NEW d, Rows(d), NEW op, NEW k, NEW o, Allowed(d, op, k, o)
    PROVE  Effect(d, After(d, op, k, o), op, k)
<1>1. CASE op = "start"
  BY <1>1, StartEffect DEF After, Allowed
<1>2. CASE op = "checkin"
  BY <1>2, CheckinEffect DEF After, Allowed
<1>3. CASE op = "success" \/ op = "failure"
  <2>1. k \in StopIds /\ Deliverable(d, k) /\ (op = "failure" => o \in Occurrences)
    BY <1>3 DEF Allowed
  <2>2. /\ Effect(d, AfterSuccess(d, k, FALSE), "success", k)
        /\ op = "failure" => Effect(d, AfterFailure(d, k, FALSE, o), "failure", k)
    BY <2>1, OutcomeEffect
  <2> QED BY <1>3, <2>2 DEF After
<1>4. CASE op = "close" \/ op = "reopen"
  BY <1>4, OtherEffect DEF After, Allowed
<1>5. CASE op = "occurrence" \/ op = "settle"
  BY <1>5, OtherEffect DEF After, Allowed
<1> QED BY <1>1, <1>2, <1>3, <1>4, <1>5 DEF Allowed, AllOps

LEMMA RequestsInit == Init => RequestsSound /\ Ledger!Init
<1> SUFFICES ASSUME Init PROVE RequestsSound /\ Ledger!Init
  OBVIOUS
<1>1. Rows(Ready) /\ Agree(Ready) /\ \A k \in StopIds : SameFacts(NoRow, Ready.stops[k])
  <2> DEFINE p == PlannedRoute(MaxStops, [k \in StopIds |-> [seq |-> MaxStops + 1 - k, carga |-> TRUE]], TRUE)
  <2>1. \A k \in StopIds : /\ NewStop(MaxStops + 1 - k, TRUE, "pendente") \in Row
                            /\ SameFacts(NoRow, NewStop(MaxStops + 1 - k, TRUE, "pendente"))
    BY MaxStopsAssumption DEF StopIds, NewStop, NoRow, Row, StopStatuses, LiveStopStatuses, Tally, SameFacts
  <2>2. p.stops = [k \in StopIds |-> NewStop(MaxStops + 1 - k, TRUE, "pendente")]
    BY MaxStopsAssumption DEF PlannedRoute, StopIds
  <2>3. MaxStops + 1 \in 1..(MaxStops + 1) /\ 0 \in Tally
    BY MaxStopsAssumption DEF Tally
  <2>4. p \in Db /\ p.next = MaxStops + 1 /\ p.dock = {}
    BY <2>1, <2>2, <2>3 DEF PlannedRoute, Db, RouteStatuses
  <2>5. Ready = [p EXCEPT !.dock = {"arrival_cd_at"}, !.loadedPhoto = TRUE, !.emptyPhoto = TRUE]
    BY DEF Ready
  <2> HIDE DEF p
  <2>6. Rows(Ready) /\ Ready.stops = p.stops /\ Ready.dock = {"arrival_cd_at"}
    BY <2>4, <2>5 DEF Rows, Db, DockFields
  <2> QED BY <2>1, <2>2, <2>6 DEF Agree, Departed
<1>2. Rows(db) /\ Agree(db) /\ \A k \in StopIds : SameFacts(NoRow, db.stops[k])
  <2>1. CASE db = Ready
    BY <1>1, <2>1
  <2>2. CASE db = AfterRelease(Ready)
    <3> DEFINE e == [Ready EXCEPT !.dock = @ \cup {"operator_released_at", "departure_cd_at"},
                                  !.departed = TRUE, !.status = "em_rota"]
    <3>1. Rows(e) /\ e.departed = TRUE /\ e.stops = Ready.stops
      BY <1>1 DEF Rows, Db, RouteStatuses, DockFields
    <3>2. db = StartNextStopTravel(e)
      BY <2>2 DEF AfterRelease
    <3> HIDE DEF e
    <3>3. Rows(db) /\ db.departed = TRUE /\ \A k \in StopIds : SameFacts(e.stops[k], db.stops[k])
      BY <3>1, <3>2, PromotionFacts
    <3> QED BY <1>1, <3>1, <3>3 DEF Agree, SameFacts
  <2> QED BY <2>1, <2>2 DEF Init
<1>3. RequestsSound
  BY <1>2 DEF Init, RequestsSound, Idle
<1>4. db.departed \in BOOLEAN /\ \A k \in StopIds : /\ ~db.stops[k].checkin /\ ~db.stops[k].delivered
                                                    /\ db.stops[k].arrivals = 0 /\ db.stops[k].outcomes = 0
  BY <1>2 DEF Rows, Db, SameFacts, NoRow, NewStop
<1>5. Ledger!Init
  BY <1>4 DEF Ledger!Init
<1> QED BY <1>3, <1>5

LEMMA LoadSound ==
    ASSUME RequestsSound, NEW w \in Workers, NEW op \in Ops, NEW k \in StopIds,
           NEW o \in Occurrences \cup {NoOccurrence}, Load(w, op, k, o)
    PROVE  RequestsSound'
<1> DEFINE r == Request("loaded", op, k, o, db, db, {})
<1>1. work' = [work EXCEPT ![w] = r] /\ db' = db /\ Can(db, op, k, o)
  BY DEF Load
<1>2. Allowed(db, op, k, o)
  <2>1. op \in AllOps
    BY OpsAssumption
  <2> QED BY <1>1, <2>1 DEF Can, Allowed, CanDeliver, CanFail, AllOps
<1>3. /\ r.pc = "loaded" /\ r.op = op /\ r.stop = k /\ r.occ = o /\ r.seen = db /\ r.after = db
      /\ r.missed = {}
  BY DEF Request
<1> HIDE DEF r
<1>4. RequestSound(r, db)
  <2>1. r = Request(r.pc, r.op, r.stop, r.occ, r.seen, r.after, r.missed)
    BY <1>3 DEF r
  <2> QED BY <1>2, <1>3, <2>1, BehindItself DEF RequestSound, RequestsSound
<1>5. \A v \in Workers : work'[v] = IF v = w THEN r ELSE work[v]
  BY <1>1 DEF RequestsSound
<1>6. work' = [v \in Workers |-> work'[v]]
  BY <1>1, <1>5 DEF RequestsSound
<1> QED BY <1>1, <1>4, <1>5, <1>6 DEF RequestsSound

LEMMA DecideSound ==
    ASSUME RequestsSound, NEW w \in Workers, Decide(w)
    PROVE  RequestsSound'
<1>0. PICK r : r = work[w]
  OBVIOUS
<1>1. PICK s : s = Seen(r)
  OBVIOUS
<1> DEFINE q == [r EXCEPT !.pc = "decided", !.seen = s, !.after = After(s, r.op, r.stop, r.occ)]
<1>2. work' = [work EXCEPT ![w] = q] /\ db' = db /\ RequestSound(r, db)
  BY <1>0, <1>1 DEF Decide, RequestsSound
<1>3. /\ s \in Db /\ s.next = r.seen.next /\ s.dock = r.seen.dock /\ s.departed = r.seen.departed
      /\ s.status = r.seen.status /\ s.stops = r.seen.stops
  <2>1. r.seen \in Db /\ db.occ \in [Occurrences -> OccurrenceStatuses \cup {"none"}]
    BY <1>2 DEF RequestSound, RequestsSound, Rows, Db
  <2>2. CASE r.op = "settle"
    BY <1>1, <2>1, <2>2 DEF Seen
  <2>3. CASE r.op # "settle"
    <3>1. s = [r.seen EXCEPT !.occ = db.occ]
      BY <1>1, <2>3 DEF Seen
    <3> QED BY <2>1, <3>1 DEF Db
  <2> QED BY <2>2, <2>3
<1>4. Rows(s) /\ Agree(s) /\ Behind(s, db)
  BY <1>2, <1>3 DEF RequestSound, Rows, Agree, Departed, Behind
<1>5. Allowed(s, r.op, r.stop, r.occ)
  BY <1>2, <1>3 DEF RequestSound, Allowed, CanCheckin, Deliverable, Stops, Editable, Departed
<1>6. q = Request("decided", r.op, r.stop, r.occ, s, After(s, r.op, r.stop, r.occ), r.missed)
  <2>1. r = Request(r.pc, r.op, r.stop, r.occ, r.seen, r.after, r.missed)
    BY <1>2 DEF RequestSound
  <2>2. PICK pc, op, k, o, seen, after, missed, a :
          /\ pc = r.pc /\ op = r.op /\ k = r.stop /\ o = r.occ /\ seen = r.seen
          /\ after = r.after /\ missed = r.missed /\ a = After(s, r.op, r.stop, r.occ)
    OBVIOUS
  <2>3. q = [r EXCEPT !.pc = "decided", !.seen = s, !.after = a]
    BY <2>2
  <2> HIDE DEF q
  <2>4. r = Request(pc, op, k, o, seen, after, missed)
    BY <2>1, <2>2
  <2>5. [r EXCEPT !.pc = "decided"] = Request("decided", op, k, o, seen, after, missed)
    BY <2>4 DEF Request
  <2>6. [Request("decided", op, k, o, seen, after, missed) EXCEPT !.seen = s]
          = Request("decided", op, k, o, s, after, missed)
    BY DEF Request
  <2>7. [Request("decided", op, k, o, s, after, missed) EXCEPT !.after = a]
          = Request("decided", op, k, o, s, a, missed)
    BY DEF Request
  <2>8. q = [[[r EXCEPT !.pc = "decided"] EXCEPT !.seen = s] EXCEPT !.after = a]
    BY <2>3
  <2>9. q = Request("decided", op, k, o, s, a, missed)
    BY <2>5, <2>6, <2>7, <2>8
  <2> QED BY <2>2, <2>9
<1>7. RequestSound(q, db)
  <2> HIDE DEF q
  <2>1. /\ q.pc = "decided" /\ q.op = r.op /\ q.stop = r.stop /\ q.occ = r.occ /\ q.seen = s
        /\ q.after = After(s, r.op, r.stop, r.occ) /\ q.missed = r.missed
    BY <1>6 DEF Request
  <2> QED BY <1>4, <1>5, <1>6, <2>1 DEF RequestSound
<1> HIDE DEF q
<1>8. \A v \in Workers : work'[v] = IF v = w THEN q ELSE work[v]
  BY <1>2 DEF RequestsSound
<1>9. work' = [v \in Workers |-> work'[v]]
  BY <1>2, <1>8 DEF RequestsSound
<1> QED BY <1>2, <1>7, <1>8, <1>9 DEF RequestsSound

\* A commit is one step of the ledger, or none.
LEMMA LedgerStep ==
    ASSUME Rows(db), NEW op \in AllOps, NEW k \in StopIds, Committed(db, db', op, k)
    PROVE  [Ledger!Next]_(Ledger!vars)
<1> DEFINE arrived == {j \in StopIds : db.stops[j].checkin}
           delivered == {j \in StopIds : db.stops[j].delivered}
           arrivals == [j \in StopIds |-> db.stops[j].arrivals]
           outcomes == [j \in StopIds |-> db.stops[j].outcomes]
<1>1. \A j \in StopIds \ {k} : SameFacts(db.stops[j], db'.stops[j])
  BY DEF Committed
<1>2. ASSUME SameFacts(db.stops[k], db'.stops[k])
      PROVE  UNCHANGED <<arrived, delivered, arrivals, outcomes>>
  <2>1. \A j \in StopIds : SameFacts(db.stops[j], db'.stops[j])
    BY <1>1, <1>2
  <2> QED BY <2>1 DEF SameFacts
<1>3. CASE op = "start"
  <2>1. db'.departed = TRUE /\ SameFacts(db.stops[k], db'.stops[k])
    BY <1>3 DEF Committed
  <2>2. Ledger!Depart
    BY <1>2, <2>1 DEF Ledger!Depart
  <2> QED BY <2>2 DEF Ledger!Next
<1>4. CASE op = "checkin"
  <2>1. db.departed /\ db'.departed = db.departed /\ ArrivalCommitted(db.stops[k], db'.stops[k])
    BY <1>4 DEF Committed
  <2>2. arrived' = arrived \cup {k} /\ delivered' = delivered
    BY <1>1, <2>1 DEF ArrivalCommitted, SameFacts
  <2>3. arrivals' = Ledger!OneMore(arrivals, k) /\ outcomes' = outcomes
    BY <1>1, <2>1 DEF ArrivalCommitted, SameFacts, More, Ledger!OneMore
  <2>4. Ledger!Arrive(k)
    BY <2>1, <2>2, <2>3 DEF Ledger!Arrive
  <2> QED BY <2>4 DEF Ledger!Next
<1>5. CASE op \in {"success", "failure"}
  <2>1. db.departed /\ db'.departed = db.departed /\ EndCommitted(db.stops[k], db'.stops[k])
    BY <1>5 DEF Committed
  <2>2. arrived' = arrived \cup {k} /\ delivered' \in {delivered, delivered \cup {k}}
    <3>1. arrived' = arrived \cup {k}
      BY <1>1, <2>1 DEF EndCommitted, SameFacts
    <3>2. CASE db'.stops[k].delivered
      <4>1. delivered' = delivered \cup {k}
        BY <1>1, <3>2 DEF SameFacts
      <4> QED BY <3>1, <4>1
    <3>3. CASE ~db'.stops[k].delivered
      <4>1. delivered' = delivered
        BY <1>1, <2>1, <3>3 DEF EndCommitted, SameFacts
      <4> QED BY <3>1, <4>1
    <3> QED BY <3>2, <3>3
  <2>3. outcomes' = Ledger!OneMore(outcomes, k)
    BY <1>1, <2>1 DEF EndCommitted, SameFacts, More, Ledger!OneMore
  <2>4. arrivals' = Ledger!OneMore(arrivals, k) \/ (k \in arrived /\ arrivals' = arrivals)
    <3>1. CASE db'.stops[k].arrivals = More(db.stops[k].arrivals)
      BY <1>1, <3>1 DEF SameFacts, More, Ledger!OneMore
    <3>2. CASE db.stops[k].checkin /\ db'.stops[k].arrivals = db.stops[k].arrivals
      BY <1>1, <3>2 DEF SameFacts
    <3> QED BY <2>1, <3>1, <3>2 DEF EndCommitted
  <2>5. Ledger!End(k)
    BY <2>1, <2>2, <2>3, <2>4 DEF Ledger!End
  <2> QED BY <2>5 DEF Ledger!Next
<1>6. CASE op \notin {"start", "checkin", "success", "failure"}
  <2>1. db'.departed = db.departed /\ SameFacts(db.stops[k], db'.stops[k])
    BY <1>6 DEF Committed
  <2> QED BY <1>2, <2>1 DEF Ledger!vars
<1> QED BY <1>3, <1>4, <1>5, <1>6

LEMMA CommitSound ==
    ASSUME RequestsSound, NEW w \in Workers, Commit(w)
    PROVE  RequestsSound' /\ [Ledger!Next]_(Ledger!vars)
<1>0. PICK r : r = work[w]
  OBVIOUS
<1>1. /\ RequestSound(r, db) /\ r.pc = "decided"
      /\ db' = Merged(r.seen, r.after, db)
      /\ work' = [v \in Workers |->
            CASE v = w               -> Idle
              [] work[v].pc = "idle" -> Idle
              [] OTHER               -> [work[v] EXCEPT !.missed = @ \cup {r.op}]]
  BY <1>0 DEF Commit, RequestsSound
<1>2. PICK k \in StopIds, op \in AllOps : k = r.stop /\ op = r.op
  BY <1>1 DEF RequestSound, Allowed
<1>3. Committed(db, db', op, k)
  <2>1. Effect(r.seen, r.after, op, k)
    BY <1>1, <1>2, HandlerEffect DEF RequestSound
  <2>2. op \in {"checkin", "success", "failure"} => Departed(r.seen)
    BY <1>1, <1>2 DEF RequestSound, Allowed, CanCheckin, Deliverable
  <2>3. Rows(db) /\ Agree(db) /\ Rows(r.seen) /\ Agree(r.seen) /\ Behind(r.seen, db)
    BY <1>1 DEF RequestsSound, RequestSound
  <2> QED BY <1>1, <2>1, <2>2, <2>3, CommittedEffect
<1>4. Rows(db') /\ Agree(db') /\ Behind(db, db')
  BY <1>3, CommittedAhead DEF Committed, RequestsSound
<1>5. ASSUME NEW v \in Workers, work'[v].pc # "idle" PROVE RequestSound(work'[v], db')
  <2>1. PICK q : q = work[v]
    OBVIOUS
  <2>2. v # w /\ q.pc # "idle" /\ work'[v] = [q EXCEPT !.missed = @ \cup {r.op}]
    BY <1>1, <1>5, <2>1 DEF Idle
  <2>3. RequestSound(q, db)
    BY <2>1, <2>2 DEF RequestsSound
  <2>4. work'[v] = Request(q.pc, q.op, q.stop, q.occ, q.seen, q.after, q.missed \cup {r.op})
    BY <2>2, <2>3 DEF RequestSound, Request
  <2>5. PICK p : p = work'[v]
    OBVIOUS
  <2>6. /\ p.pc = q.pc /\ p.op = q.op /\ p.stop = q.stop /\ p.occ = q.occ /\ p.seen = q.seen
        /\ p.after = q.after /\ p.missed = q.missed \cup {r.op}
    BY <2>4, <2>5 DEF Request
  <2>7. Behind(q.seen, db')
    BY <1>4, <2>3, BehindBoth DEF RequestSound, RequestsSound
  <2> QED BY <2>3, <2>4, <2>5, <2>6, <2>7 DEF RequestSound
<1>6. RequestsSound'
  BY <1>1, <1>4, <1>5 DEF RequestsSound
<1> QED BY <1>2, <1>3, <1>6, LedgerStep DEF RequestsSound

LEMMA RequestsStep ==
    ASSUME RequestsSound, [Next]_vars
    PROVE  RequestsSound' /\ [Ledger!Next]_(Ledger!vars)
<1>1. ASSUME NEW w \in Workers, NEW op \in Ops, NEW k \in StopIds,
             NEW o \in Occurrences \cup {NoOccurrence}, Load(w, op, k, o)
      PROVE  RequestsSound' /\ db' = db
  BY <1>1, LoadSound DEF Load
<1>2. ASSUME NEW w \in Workers, Decide(w) PROVE RequestsSound' /\ db' = db
  BY <1>2, DecideSound DEF Decide
<1>3. ASSUME NEW w \in Workers, Commit(w) PROVE RequestsSound' /\ [Ledger!Next]_(Ledger!vars)
  BY <1>3, CommitSound
<1>4. ASSUME UNCHANGED vars PROVE RequestsSound' /\ db' = db
  BY <1>4 DEF vars, RequestsSound
<1>5. db' = db => UNCHANGED Ledger!vars
  BY DEF Ledger!vars
<1> QED BY <1>1, <1>2, <1>3, <1>4, <1>5 DEF Next

\* However requests overlap, the rows implement the ledger that the timeline
\* promises: arrivals and outcomes come with their events, after the departure,
\* and nothing recorded is taken back.
THEOREM LedgerImplemented == Spec => LedgerKept
<1>1. RequestsSound /\ [Next]_vars => RequestsSound' /\ [Ledger!Next]_(Ledger!vars)
  BY RequestsStep
<1> QED BY <1>1, RequestsInit, PTL DEF Spec, LedgerKept, Ledger!Spec

-----------------------------------------------------------------------------
(* Which overlaps break what.  First the handlers, row by row.               *)

\* A row is promoted, or left alone; always left alone when halted.
Leg(halted, r, q) == q = r \/ (~halted /\ r.status = "pendente" /\ q = Promoted(r))

\* What handler op does to a row; own: it is the stop of the request.
RowAfter(op, own, halted, r, q) ==
    /\ op = "start" => Leg(halted, r, q)
    /\ op = "checkin" => q = IF own THEN CheckedIn(r) ELSE r
    /\ op = "success" => IF own THEN q = Succeeded(EnsureStopCheckin(r), FALSE)
                                ELSE Leg(halted, r, q)
    /\ op = "failure" => q = IF own THEN Failed(EnsureStopCheckin(r), FALSE) ELSE r
    /\ op = "occurrence" => q = IF r.status = "em_rota" /\ ~r.checkin
                                THEN [r EXCEPT !.status = "pendente"] ELSE r
    /\ op \in {"close", "reopen", "settle"} => q = r

\* The columns of the route and its occurrences.
ColumnsAfter(op, d, e) ==
    /\ e.status = CASE op = "start"  -> "em_rota"
                    [] op = "close"  -> "finalizada"
                    [] op = "reopen" -> IF d.departed THEN "em_rota" ELSE "planejada"
                    [] OTHER         -> d.status
    /\ e.closings = CASE op = "close" -> Tick(d.closings) [] op = "reopen" -> 0 [] OTHER -> d.closings
    /\ op \in {"start", "checkin", "success", "close", "reopen"} => e.occ = d.occ
    /\ op = "settle" => \A x \in Occurrences : e.occ[x] = d.occ[x] \/ e.occ[x] = "cancelada"

LEMMA PromotionRows ==
    ASSUME NEW d, Rows(d)
    PROVE  /\ \A j \in StopIds : Leg(Halted(d), d.stops[j], StartNextStopTravel(d).stops[j])
           /\ StartNextStopTravel(d).status = d.status
           /\ StartNextStopTravel(d).closings = d.closings
           /\ StartNextStopTravel(d).occ = d.occ
<1>1. CASE Halted(d)
  BY <1>1 DEF StartNextStopTravel, Leg
<1>2. CASE ~Halted(d)
  <2>1. StartNextStopTravel(d) = [d EXCEPT !.stops = [k \in StopIds |->
             IF FirstOpen(d, k) /\ d.stops[k].status = "pendente"
             THEN Promoted(d.stops[k]) ELSE d.stops[k]]]
    BY <1>2 DEF StartNextStopTravel
  <2> QED BY <1>2, <2>1 DEF Leg, Rows, Db
<1> QED BY <1>1, <1>2

LEMMA StartRows ==
    ASSUME NEW d, Rows(d)
    PROVE  /\ \A j \in StopIds : Leg(Halted(d), d.stops[j], AfterRelease(d).stops[j])
           /\ ColumnsAfter("start", d, AfterRelease(d))
<1> DEFINE e == [d EXCEPT !.dock = @ \cup {"operator_released_at", "departure_cd_at"},
                          !.departed = TRUE, !.status = "em_rota"]
<1>1. /\ Rows(e) /\ e.stops = d.stops /\ e.status = "em_rota" /\ e.closings = d.closings
      /\ e.occ = d.occ
  BY DEF Rows, Db, RouteStatuses, DockFields
<1>2. AfterRelease(d) = StartNextStopTravel(e)
  BY DEF AfterRelease
<1>3. Halted(e) = Halted(d)
  BY <1>1 DEF Halted
<1> HIDE DEF e
<1>4. \A j \in StopIds : Leg(Halted(d), d.stops[j], AfterRelease(d).stops[j])
  BY <1>1, <1>2, <1>3, PromotionRows
<1>5. /\ AfterRelease(d).status = "em_rota" /\ AfterRelease(d).closings = d.closings
      /\ AfterRelease(d).occ = d.occ
  BY <1>1, <1>2, PromotionRows
<1> QED BY <1>4, <1>5 DEF ColumnsAfter

\* The columns of an outcome that is written into a stop.
LEMMA StopWritten ==
    ASSUME NEW d, Rows(d), NEW k \in StopIds, NEW q \in Row
    PROVE  /\ Rows(WithStop(d, k, q))
           /\ \A j \in StopIds : WithStop(d, k, q).stops[j] = IF j = k THEN q ELSE d.stops[j]
           /\ WithStop(d, k, q).status = d.status /\ WithStop(d, k, q).closings = d.closings
           /\ WithStop(d, k, q).occ = d.occ
BY DEF WithStop, Rows, Db

LEMMA EndedRow ==
    ASSUME NEW r \in Row
    PROVE  LET q == EnsureStopCheckin(r) IN
           /\ Succeeded(q, FALSE) \in Row /\ Succeeded(q, FALSE).status = "entregue"
           /\ Failed(q, FALSE) \in Row /\ Failed(q, FALSE).status = "falha"
<1> DEFINE q == EnsureStopCheckin(r)
<1>1. q \in Row
  BY RowTyped
<1> HIDE DEF q
<1>2. Succeeded(q, FALSE) \in Row /\ Failed(q, FALSE) \in Row
  BY <1>1, RowTyped
<1>3. Succeeded(q, FALSE).status = "entregue" /\ Failed(q, FALSE).status = "falha"
  BY <1>1 DEF Succeeded, Failed, Row
<1> QED BY <1>2, <1>3 DEF q

LEMMA SuccessRows ==
    ASSUME NEW d, Rows(d), NEW k \in StopIds, NEW e, e = AfterSuccess(d, k, FALSE)
    PROVE  /\ \A j \in StopIds : RowAfter("success", j = k, Halted(d), d.stops[j], e.stops[j])
           /\ ColumnsAfter("success", d, e)
<1> DEFINE q == Succeeded(EnsureStopCheckin(d.stops[k]), FALSE)
           f == WithStop(d, k, q)
<1>1. d.stops[k] \in Row
  BY DEF Rows, Db
<1>2. q \in Row /\ q.status = "entregue"
  BY <1>1, EndedRow
<1>3. e = StartNextStopTravel(f)
  BY DEF AfterSuccess
<1>4. q = Succeeded(EnsureStopCheckin(d.stops[k]), FALSE)
  OBVIOUS
<1> HIDE DEF q
<1>5. /\ Rows(f) /\ f.status = d.status /\ f.closings = d.closings /\ f.occ = d.occ
      /\ \A j \in StopIds : f.stops[j] = IF j = k THEN q ELSE d.stops[j]
  BY <1>2, StopWritten
<1>6. Halted(f) = Halted(d)
  BY <1>5 DEF Halted
<1> HIDE DEF f
<1>7. /\ \A j \in StopIds : Leg(Halted(d), f.stops[j], e.stops[j])
      /\ e.status = d.status /\ e.closings = d.closings /\ e.occ = d.occ
  BY <1>3, <1>5, <1>6, PromotionRows
<1>8. ASSUME NEW j \in StopIds
      PROVE  RowAfter("success", j = k, Halted(d), d.stops[j], e.stops[j])
  <2>1. CASE j = k
    BY <1>2, <1>4, <1>5, <1>7, <2>1 DEF RowAfter, Leg
  <2>2. CASE j # k
    BY <1>5, <1>7, <2>2 DEF RowAfter
  <2> QED BY <2>1, <2>2
<1> QED BY <1>7, <1>8 DEF ColumnsAfter

LEMMA FailureRows ==
    ASSUME NEW d, Rows(d), NEW k \in StopIds, NEW o \in Occurrences,
           NEW e, e = AfterFailure(d, k, FALSE, o)
    PROVE  /\ \A j \in StopIds : RowAfter("failure", j = k, Halted(d), d.stops[j], e.stops[j])
           /\ ColumnsAfter("failure", d, e)
<1> DEFINE q == Failed(EnsureStopCheckin(d.stops[k]), FALSE)
           g == WithStop(d, k, q)
           f == [g EXCEPT !.occ[o] = "aberta"]
<1>1. d.stops[k] \in Row
  BY DEF Rows, Db
<1>2. q \in Row
  BY <1>1, EndedRow
<1>3. e = StartNextStopTravel(f)
  BY DEF AfterFailure
<1>4. q = Failed(EnsureStopCheckin(d.stops[k]), FALSE)
  OBVIOUS
<1> HIDE DEF q
<1>5. /\ Rows(g) /\ g.status = d.status /\ g.closings = d.closings
      /\ \A j \in StopIds : g.stops[j] = IF j = k THEN q ELSE d.stops[j]
  BY <1>2, StopWritten
<1> HIDE DEF g
<1>6. /\ f.status = d.status /\ f.closings = d.closings /\ f.occ[o] = "aberta"
      /\ f.stops = g.stops
  BY <1>5 DEF Rows, Db
<1>7. Halted(f)
  BY <1>6 DEF Halted, OpenOccurrenceStatuses
<1> HIDE DEF f
<1>8. e = f
  BY <1>3, <1>7 DEF StartNextStopTravel
<1>9. ASSUME NEW j \in StopIds
      PROVE  RowAfter("failure", j = k, Halted(d), d.stops[j], e.stops[j])
  BY <1>4, <1>5, <1>6, <1>8 DEF RowAfter
<1> QED BY <1>5, <1>6, <1>8, <1>9 DEF ColumnsAfter

LEMMA HandlerRows ==
    ASSUME NEW d, Rows(d), NEW op, NEW k, NEW o, Allowed(d, op, k, o)
    PROVE  /\ \A j \in StopIds :
                 RowAfter(op, j = k, Halted(d), d.stops[j], After(d, op, k, o).stops[j])
           /\ ColumnsAfter(op, d, After(d, op, k, o))
<1> DEFINE e == After(d, op, k, o)
<1>0. k \in StopIds /\ op \in AllOps
  BY DEF Allowed
<1>1. CASE op = "start"
  <2>1. e = AfterRelease(d)
    BY <1>1 DEF After
  <2> HIDE DEF e
  <2> QED BY <1>1, <2>1, StartRows DEF RowAfter, e
<1>2. CASE op = "checkin"
  <2>1. e = WithStop(d, k, CheckedIn(d.stops[k]))
    BY <1>2 DEF After, AfterCheckin
  <2>2. /\ \A j \in StopIds : e.stops[j] = IF j = k THEN CheckedIn(d.stops[j]) ELSE d.stops[j]
        /\ e.status = d.status /\ e.closings = d.closings /\ e.occ = d.occ
    BY <1>0, <2>1 DEF WithStop, Rows, Db
  <2> HIDE DEF e
  <2> QED BY <1>2, <2>2 DEF RowAfter, ColumnsAfter, e
<1>3. CASE op = "success"
  <2>1. e = AfterSuccess(d, k, FALSE)
    BY <1>3 DEF After
  <2> HIDE DEF e
  <2>2. /\ \A j \in StopIds : RowAfter("success", j = k, Halted(d), d.stops[j], e.stops[j])
        /\ ColumnsAfter("success", d, e)
    BY <1>0, <2>1, SuccessRows
  <2> QED BY <1>3, <2>2 DEF e
<1>4. CASE op = "failure"
  <2>1. e = AfterFailure(d, k, FALSE, o) /\ o \in Occurrences
    BY <1>4 DEF After, Allowed
  <2> HIDE DEF e
  <2>2. /\ \A j \in StopIds : RowAfter("failure", j = k, Halted(d), d.stops[j], e.stops[j])
        /\ ColumnsAfter("failure", d, e)
    BY <1>0, <2>1, FailureRows
  <2> QED BY <1>4, <2>2 DEF e
<1>5. CASE op = "close"
  <2>1. e = AfterClose(d)
    BY <1>5 DEF After
  <2>2. e.stops = d.stops /\ e.status = "finalizada" /\ e.closings = Tick(d.closings) /\ e.occ = d.occ
    BY <2>1 DEF AfterClose, Rows, Db
  <2> HIDE DEF e
  <2> QED BY <1>5, <2>2 DEF RowAfter, ColumnsAfter, e
<1>6. CASE op = "reopen"
  <2>1. e = AfterReopen(d)
    BY <1>6 DEF After
  <2>2. /\ e.stops = d.stops /\ e.closings = 0 /\ e.occ = d.occ
        /\ e.status = IF d.departed THEN "em_rota" ELSE "planejada"
    BY <2>1 DEF AfterReopen, Rows, Db
  <2> HIDE DEF e
  <2> QED BY <1>6, <2>2 DEF RowAfter, ColumnsAfter, e
<1>7. CASE op = "occurrence"
  <2>1. e = AfterCreateOccurrence(d, o)
    BY <1>7 DEF After
  <2>2. /\ \A j \in StopIds : e.stops[j] = IF d.stops[j].status = "em_rota" /\ ~d.stops[j].checkin
                                           THEN [d.stops[j] EXCEPT !.status = "pendente"]
                                           ELSE d.stops[j]
        /\ e.status = d.status /\ e.closings = d.closings
    BY <2>1 DEF AfterCreateOccurrence, Travelling, Rows, Db
  <2> HIDE DEF e
  <2> QED BY <1>7, <2>2 DEF RowAfter, ColumnsAfter, e
<1>8. CASE op = "settle"
  <2>1. e = [d EXCEPT !.occ[o] = "cancelada"]
    BY <1>8 DEF After, AfterUpdateOccurrence
  <2>2. /\ e.stops = d.stops /\ e.status = d.status /\ e.closings = d.closings
        /\ \A x \in Occurrences : e.occ[x] = d.occ[x] \/ e.occ[x] = "cancelada"
    BY <2>1 DEF Rows, Db
  <2> HIDE DEF e
  <2> QED BY <1>8, <2>2 DEF RowAfter, ColumnsAfter, e
<1> QED BY <1>0, <1>1, <1>2, <1>3, <1>4, <1>5, <1>6, <1>7, <1>8 DEF AllOps

-----------------------------------------------------------------------------
(* A commit, row by row: s is the row as read, n as the handler leaves it, c   *)
(* the row of now, q the row after the commit.                               *)

IsOpen(r) == r.status \in {"pendente", "em_rota"}

\* OutcomeConsistent of one row, without what it says of the arrival of an open one.
EndStory(r) ==
    /\ r \in Row /\ ~r.returned
    /\ r.status \in {"pendente", "em_rota", "entregue", "falha"}
    /\ IsOpen(r) => ~r.delivered /\ ~r.reason
    /\ r.status = "entregue" => r.delivered /\ r.checkin /\ ~r.reason
    /\ r.status = "falha" => ~r.delivered /\ r.checkin /\ r.reason

WaitStory(r) == r.status = "pendente" => ~r.checkin

\* EventsAgree of one row.
TallyStory(r) ==
    /\ r.arrivals = IF r.checkin THEN 1 ELSE 0
    /\ r.outcomes = IF IsOpen(r) THEN 0 ELSE 1

\* How far the row can have moved from what was read, by commits of ops, none of
\* which is an outcome.
Drift(ops, s, c) ==
    /\ c.delivered = s.delivered /\ c.reason = s.reason /\ c.outcomes = s.outcomes
    /\ c.status = s.status \/ (IsOpen(s) /\ IsOpen(c))
    /\ s.checkin => c.checkin
    /\ "checkin" \notin ops => c.checkin = s.checkin /\ c.arrivals = s.arrivals
    /\ "occurrence" \notin ops => (c.status = "pendente" => s.status = "pendente")

LEMMA DriftItself ==
    ASSUME NEW ops, NEW c \in Row
    PROVE  Drift(ops, c, c)
BY DEF Drift

LEMMA DriftOn ==
    ASSUME NEW ops, NEW op, NEW s, NEW c, NEW q, Drift(ops, s, c), Drift({op}, c, q)
    PROVE  Drift(ops \cup {op}, s, q)
BY DEF Drift, IsOpen

LEMMA RowMerged ==
    ASSUME NEW s \in Row, NEW n \in Row, NEW c \in Row
    PROVE  LET q == MergedRow(s, n, c) IN
           /\ q.status = IF n.status = s.status THEN c.status ELSE n.status
           /\ q.checkin = IF n.checkin = s.checkin THEN c.checkin ELSE n.checkin
           /\ q.delivered = IF n.delivered = s.delivered THEN c.delivered ELSE n.delivered
           /\ q.reason = IF n.reason = s.reason THEN c.reason ELSE n.reason
           /\ q.arrivals = Inserted(s.arrivals, n.arrivals, c.arrivals)
           /\ q.outcomes = Inserted(s.outcomes, n.outcomes, c.outcomes)
           /\ q.returned = c.returned /\ q \in Row
<1>1. ASSUME NEW a \in Tally, NEW b \in Tally, NEW x \in Tally PROVE Inserted(a, b, x) \in Tally
  BY DEF Inserted, Tick, Tally
<1>2. /\ Inserted(s.arrivals, n.arrivals, c.arrivals) \in Tally
      /\ Inserted(s.outcomes, n.outcomes, c.outcomes) \in Tally
  BY <1>1 DEF Row
<1>3. /\ Written(s.status, n.status, c.status) \in StopStatuses
      /\ Written(s.checkin, n.checkin, c.checkin) \in BOOLEAN
      /\ Written(s.delivered, n.delivered, c.delivered) \in BOOLEAN
      /\ Written(s.reason, n.reason, c.reason) \in BOOLEAN
      /\ Written(s.travelled, n.travelled, c.travelled) \in BOOLEAN
  BY DEF Written, Row
<1>4. MergedRow(s, n, c) \in Row
  BY <1>2, <1>3 DEF MergedRow, Row
<1>5. LET q == MergedRow(s, n, c) IN
      /\ q.status = Written(s.status, n.status, c.status)
      /\ q.checkin = Written(s.checkin, n.checkin, c.checkin)
      /\ q.delivered = Written(s.delivered, n.delivered, c.delivered)
      /\ q.reason = Written(s.reason, n.reason, c.reason)
      /\ q.arrivals = Inserted(s.arrivals, n.arrivals, c.arrivals)
      /\ q.outcomes = Inserted(s.outcomes, n.outcomes, c.outcomes)
      /\ q.returned = c.returned
  BY DEF MergedRow, Row
<1> QED BY <1>4, <1>5 DEF Written

LEMMA RowLeftAlone ==
    ASSUME NEW s \in Row, NEW c \in Row
    PROVE  MergedRow(s, s, c) = c
<1>1. MergedRow(s, s, c) = [c EXCEPT !.status = c.status, !.checkin = c.checkin,
         !.delivered = c.delivered, !.reason = c.reason, !.travelled = c.travelled,
         !.arrivals = c.arrivals, !.outcomes = c.outcomes]
  BY DEF MergedRow, Written, Inserted
<1> QED BY <1>1 DEF Row

\* What the guard of op says of the stop of the request.
OwnOpen(op, s) ==
    /\ op \in {"checkin"} \cup Outcomes => IsOpen(s)
    /\ op = "checkin" => ~s.checkin

\* What a commit leaves of a row.
Kept(ops, op, c, q) ==
    /\ EndStory(q)
    /\ IsOpen(q) => IsOpen(c)
    /\ op \notin Outcomes => Drift({op}, c, q)
    /\ /\ op = "checkin" => "occurrence" \notin ops
       /\ op = "occurrence" => "checkin" \notin ops
       /\ WaitStory(c)
       => WaitStory(q)
    /\ (op \in {"checkin"} \cup Outcomes => "checkin" \notin ops) /\ TallyStory(c) => TallyStory(q)

LEMMA RowCommitted ==
    ASSUME NEW ops, NEW op, op \in AllOps, NEW own \in BOOLEAN, NEW halted,
           NEW s, EndStory(s), NEW c, EndStory(c), Drift(ops, s, c), NEW n \in Row,
           RowAfter(op, own, halted, s, n), own => OwnOpen(op, s)
    PROVE  Kept(ops, op, c, MergedRow(s, n, c))
<1>0. s \in Row /\ c \in Row
  BY DEF EndStory
<1>a. /\ s.arrivals \in Tally /\ s.outcomes \in Tally /\ c.arrivals \in Tally /\ c.outcomes \in Tally
      /\ s.checkin \in BOOLEAN /\ s.delivered \in BOOLEAN /\ s.reason \in BOOLEAN
      /\ c.checkin \in BOOLEAN /\ c.delivered \in BOOLEAN /\ c.reason \in BOOLEAN
      /\ c.returned \in BOOLEAN
  BY <1>0 DEF Row
<1> DEFINE q == MergedRow(s, n, c)
<1>1. /\ q.status = IF n.status = s.status THEN c.status ELSE n.status
      /\ q.checkin = IF n.checkin = s.checkin THEN c.checkin ELSE n.checkin
      /\ q.delivered = IF n.delivered = s.delivered THEN c.delivered ELSE n.delivered
      /\ q.reason = IF n.reason = s.reason THEN c.reason ELSE n.reason
      /\ q.arrivals = Inserted(s.arrivals, n.arrivals, c.arrivals)
      /\ q.outcomes = Inserted(s.outcomes, n.outcomes, c.outcomes)
      /\ q.returned = c.returned /\ q \in Row
  BY <1>0, RowMerged
<1>2. ASSUME n = s PROVE q = c
  BY <1>0, <1>2, RowLeftAlone
<1>3. ASSUME q = c PROVE Kept(ops, op, c, q)
  BY <1>3 DEF Kept, Drift
<1> HIDE DEF q
\* A status alone is written, from one open one to another.
<1>4. ASSUME n.checkin = s.checkin, n.delivered = s.delivered, n.reason = s.reason,
             n.arrivals = s.arrivals, n.outcomes = s.outcomes, IsOpen(s), IsOpen(n),
             n.status = "pendente" => op = "occurrence" /\ ~s.checkin, op \notin Outcomes \cup {"checkin"} \/ n.status = "em_rota",
             op # "checkin"
      PROVE  Kept(ops, op, c, q)
  <2>1. /\ q.checkin = c.checkin /\ q.delivered = c.delivered /\ q.reason = c.reason
        /\ q.arrivals = c.arrivals /\ q.outcomes = c.outcomes /\ q.returned = c.returned
    BY <1>1, <1>4 DEF Inserted
  <2>2. IsOpen(c) /\ IsOpen(q)
    BY <1>1, <1>4 DEF Drift, IsOpen
  <2>3. EndStory(q)
    BY <1>1, <2>1, <2>2 DEF EndStory, IsOpen
  <2>4. Drift({op}, c, q)
    BY <1>1, <1>4, <2>1, <2>2 DEF Drift
  <2>5. TallyStory(c) => TallyStory(q)
    BY <2>1, <2>2 DEF TallyStory
  <2>6. (op = "occurrence" => "checkin" \notin ops) /\ WaitStory(c) => WaitStory(q)
    BY <1>1, <1>4, <2>1 DEF WaitStory, Drift
  <2> QED BY <1>4, <2>2, <2>3, <2>4, <2>5, <2>6 DEF Kept
<1>5. ASSUME Leg(halted, s, n), op \in {"start", "success"}
      PROVE  Kept(ops, op, c, q)
  <2>1. CASE n = s
    BY <1>2, <1>3, <2>1
  <2>2. CASE s.status = "pendente" /\ n = Promoted(s)
    <3>1. /\ n.checkin = s.checkin /\ n.delivered = s.delivered /\ n.reason = s.reason
          /\ n.arrivals = s.arrivals /\ n.outcomes = s.outcomes /\ IsOpen(s) /\ n.status = "em_rota"
      BY <1>0, <2>2 DEF Promoted, Row, IsOpen
    <3>2. IsOpen(n)
      BY <3>1 DEF IsOpen
    <3> QED BY <1>4, <1>5, <3>1, <3>2
  <2> QED BY <1>5, <2>1, <2>2 DEF Leg
\* The arrival.
<1>6. ASSUME op = "checkin", own PROVE Kept(ops, op, c, q)
  <2>1. n = CheckedIn(s) /\ IsOpen(s) /\ ~s.checkin
    BY <1>6 DEF RowAfter, OwnOpen
  <2>2. /\ n.checkin /\ n.status = "em_rota" /\ n.arrivals = Tick(s.arrivals)
        /\ n.delivered = s.delivered /\ n.reason = s.reason /\ n.outcomes = s.outcomes
    BY <1>0, <2>1 DEF CheckedIn, Row
  <2>3. /\ q.checkin /\ q.delivered = c.delivered /\ q.reason = c.reason
        /\ q.outcomes = c.outcomes /\ q.returned = c.returned
    BY <1>1, <2>1, <2>2 DEF Inserted
  <2>4. IsOpen(c) /\ IsOpen(q)
    BY <1>1, <2>1, <2>2 DEF Drift, IsOpen
  <2>5. EndStory(q)
    BY <1>1, <2>3, <2>4 DEF EndStory, IsOpen
  <2>6. Drift({op}, c, q)
    BY <1>1, <1>6, <2>1, <2>2, <2>3, <2>4 DEF Drift
  <2>7. "occurrence" \notin ops => WaitStory(q)
    BY <1>1, <2>2 DEF WaitStory, Drift
  <2>8. "checkin" \notin ops /\ TallyStory(c) => TallyStory(q)
    BY <1>1, <1>a, <2>1, <2>2, <2>3, <2>4 DEF TallyStory, Drift, Inserted, Tick
  <2> QED BY <1>6, <2>4, <2>5, <2>6, <2>7, <2>8 DEF Kept
\* The outcome, with the arrival if it was not recorded.
<1>7. ASSUME op \in Outcomes, own PROVE Kept(ops, op, c, q)
  <2> DEFINE e == EnsureStopCheckin(s)
  <2>1. IsOpen(s) /\ IsOpen(c)
    BY <1>7 DEF OwnOpen, Drift, IsOpen
  <2>2. /\ e.checkin /\ e.delivered = s.delivered /\ e.reason = s.reason /\ e.outcomes = s.outcomes
        /\ e.arrivals = IF s.checkin THEN s.arrivals ELSE Tick(s.arrivals)
        /\ e \in Row
    <3>1. e \in Row
      BY <1>0, RowTyped
    <3>2. CASE s.checkin
      <4>1. e = s
        BY <3>2 DEF EnsureStopCheckin
      <4> QED BY <1>0, <3>2, <4>1
    <3>3. CASE ~s.checkin
      <4>1. e = [s EXCEPT !.checkin = TRUE, !.arrivals = Tick(s.arrivals),
                          !.status = IF s.status = "pendente" THEN "em_rota" ELSE s.status]
        BY <3>3 DEF EnsureStopCheckin
      <4> QED BY <1>0, <3>1, <3>3, <4>1 DEF Row
    <3> QED BY <3>2, <3>3
  <2> HIDE DEF e
  <2>3. \/ op = "success" /\ n = Succeeded(e, FALSE)
        \/ op = "failure" /\ n = Failed(e, FALSE)
    BY <1>7 DEF RowAfter, Outcomes, e
  <2>4. /\ n.checkin /\ n.arrivals = IF s.checkin THEN s.arrivals ELSE Tick(s.arrivals)
        /\ n.outcomes = Tick(s.outcomes)
        /\ \/ n.status = "entregue" /\ n.delivered /\ ~n.reason
           \/ n.status = "falha" /\ n.delivered = s.delivered /\ n.reason
    <3>1. CASE n = Succeeded(e, FALSE)
      BY <2>2, <3>1 DEF Succeeded, Row
    <3>2. CASE n = Failed(e, FALSE)
      BY <2>2, <3>2 DEF Failed, Row
    <3> QED BY <2>3, <3>1, <3>2
  <2>5. ~s.delivered /\ ~s.reason /\ ~c.delivered /\ ~c.reason
    BY <2>1 DEF EndStory
  <2>6. /\ q.checkin /\ q.returned = c.returned
        /\ \/ q.status = "entregue" /\ q.delivered /\ ~q.reason
           \/ q.status = "falha" /\ ~q.delivered /\ q.reason
    <3>1. n.status # s.status
      BY <2>1, <2>4 DEF IsOpen
    <3>2. q.status = n.status /\ q.returned = c.returned
      BY <1>1, <3>1
    <3>3. q.checkin
      BY <1>1, <1>a, <2>4 DEF Drift
    <3>4. n.delivered \in BOOLEAN /\ n.reason \in BOOLEAN
      BY DEF Row
    <3> QED BY <1>1, <1>a, <2>4, <2>5, <3>2, <3>3, <3>4
  <2>7. ~IsOpen(q)
    BY <2>6 DEF IsOpen
  <2>8. EndStory(q)
    BY <1>1, <2>6, <2>7 DEF EndStory
  <2>9. WaitStory(q)
    BY <2>6 DEF WaitStory
  <2>10. "checkin" \notin ops /\ TallyStory(c) => TallyStory(q)
    <3> SUFFICES ASSUME "checkin" \notin ops, TallyStory(c) PROVE TallyStory(q)
      OBVIOUS
    <3>1. c.checkin = s.checkin /\ c.arrivals = s.arrivals /\ c.outcomes = s.outcomes
      BY DEF Drift
    <3>2. c.outcomes = 0 /\ c.arrivals = IF c.checkin THEN 1 ELSE 0
      BY <2>1 DEF TallyStory
    <3>3. q.outcomes = 1
      BY <1>1, <2>4, <3>1, <3>2 DEF Inserted, Tick
    <3>4. q.arrivals = 1
      BY <1>1, <1>a, <2>4, <3>1, <3>2 DEF Inserted, Tick
    <3> QED BY <2>6, <2>7, <3>3, <3>4 DEF TallyStory
  <2> QED BY <1>7, <2>7, <2>8, <2>9, <2>10 DEF Kept, Outcomes
<1>8. ASSUME op = "occurrence", s.status = "em_rota", ~s.checkin
      PROVE  Kept(ops, op, c, q)
  <2>1. n = [s EXCEPT !.status = "pendente"]
    BY <1>8 DEF RowAfter
  <2>2. /\ n.checkin = s.checkin /\ n.delivered = s.delivered /\ n.reason = s.reason
        /\ n.arrivals = s.arrivals /\ n.outcomes = s.outcomes /\ IsOpen(s) /\ IsOpen(n)
    BY <1>0, <1>8, <2>1 DEF Row, IsOpen
  <2> QED BY <1>4, <1>8, <2>2 DEF Outcomes
<1>9. \/ n = s
      \/ Leg(halted, s, n) /\ op \in {"start", "success"}
      \/ op = "checkin" /\ own
      \/ op \in Outcomes /\ own
      \/ op = "occurrence" /\ s.status = "em_rota" /\ ~s.checkin
  BY DEF RowAfter, AllOps, Outcomes
<1> QED BY <1>2, <1>3, <1>5, <1>6, <1>7, <1>8, <1>9 DEF q

-----------------------------------------------------------------------------
(* The invariant: as long as no request that writes stops has missed an        *)
(* outcome, an ended stop stays ended, so that what a request has read fits    *)
(* the rows of now up to what the commits it has missed are able to write.     *)

ClosingStory(d) == d.closings = IF d.status = "finalizada" THEN 1 ELSE 0

FinishedStory(d) ==
    d.status = "finalizada" => Departed(d) /\ AllStopsClosed(d) /\ d.emptyPhoto

RouteGuard(d, op) ==
    /\ op = "close" => CanClose(d)
    /\ op = "start" => Editable(d)
    /\ op = "reopen" => ~Editable(d)

\* What holds of every request, whatever it has missed.
RequestColumns(r, d) ==
    /\ RouteGuard(r.seen, r.op) /\ r.seen.status # "cancelada"
    /\ r.seen.emptyPhoto = d.emptyPhoto
    /\ Departed(r.seen) => Departed(d)
    /\ "close" \notin r.missed /\ Editable(r.seen) => Editable(d)
    /\ /\ r.pc = "decided" /\ r.op \in {"start", "success"}
       /\ r.missed \cap {"occurrence", "failure"} = {} /\ Halted(d)
       => Halted(r.seen)

RequestStory(r, d) ==
    /\ \A j \in StopIds : EndStory(r.seen.stops[j])
    /\ \A j \in StopIds : IsOpen(d.stops[j]) => IsOpen(r.seen.stops[j])
    /\ r.missed \cap Outcomes = {} =>
          \A j \in StopIds : Drift(r.missed, r.seen.stops[j], d.stops[j])

Torn == Overran(StopWriters, Outcomes)
Crossed == raced \cap {<<"checkin", "occurrence">>, <<"occurrence", "checkin">>} # {}
Doubled ==
    \/ Torn
    \/ Overran({"checkin"} \cup Outcomes, {"checkin"})
    \/ Overran({"start", "close"}, {"close"})

Busy(w) == work[w].pc # "idle"

ColumnsSound ==
    /\ db.status # "cancelada"
    /\ \A w \in Workers : Busy(w) => RequestColumns(work[w], db)

EndsSound ==
    /\ \A j \in StopIds : EndStory(db.stops[j])
    /\ FinishedStory(db)
    /\ \A w \in Workers : Busy(w) => RequestStory(work[w], db)

TalliesSound ==
    /\ \A j \in StopIds : TallyStory(db.stops[j])
    /\ ClosingStory(db)
    /\ \A w \in Workers : Busy(w) => ClosingStory(work[w].seen)

OverlapSound ==
    /\ RequestsSound
    /\ ColumnsSound
    /\ ~Torn => EndsSound
    /\ ~Torn /\ ~Crossed => \A j \in StopIds : WaitStory(db.stops[j])
    /\ ~Doubled => TalliesSound

-----------------------------------------------------------------------------
(* A commit, on the rows d of now; e are the rows after it.                   *)

LEMMA MergedColumns ==
    ASSUME NEW d, Rows(d), NEW s, Rows(s), NEW n \in Db, NEW e, e = Merged(s, n, d)
    PROVE  /\ e.status = IF n.status = s.status THEN d.status ELSE n.status
           /\ e.closings = Inserted(s.closings, n.closings, d.closings)
           /\ e.emptyPhoto = d.emptyPhoto
           /\ s.dock \subseteq n.dock => d.dock \subseteq e.dock
           /\ \A o \in Occurrences : e.occ[o] = IF n.occ[o] = s.occ[o] THEN d.occ[o] ELSE n.occ[o]
           /\ \A j \in StopIds : e.stops[j] = MergedRow(s.stops[j], n.stops[j], d.stops[j])
BY DEF Merged, Rows, Db, Written

LEMMA CommitRows ==
    ASSUME NEW d, Rows(d), NEW r, RequestSound(r, d), r.pc = "decided",
           \A j \in StopIds : EndStory(d.stops[j]), RequestStory(r, d),
           r.op \in StopWriters => r.missed \cap Outcomes = {},
           NEW e, e = Merged(r.seen, r.after, d), NEW j \in StopIds
    PROVE  Kept(r.missed, r.op, d.stops[j], e.stops[j])
<1> DEFINE s == r.seen.stops[j]
           n == r.after.stops[j]
           c == d.stops[j]
<1>1. /\ Rows(r.seen) /\ Allowed(r.seen, r.op, r.stop, r.occ)
      /\ r.after = After(r.seen, r.op, r.stop, r.occ)
  BY DEF RequestSound
<1>2. RowAfter(r.op, j = r.stop, Halted(r.seen), s, n)
  BY <1>1, HandlerRows
<1>3. r.after \in Db
  <2>1. Effect(r.seen, r.after, r.op, r.stop)
    BY <1>1, HandlerEffect
  <2> QED BY <2>1 DEF Effect
<1>4. s \in Row /\ n \in Row /\ c \in Row /\ EndStory(s) /\ EndStory(c)
  BY <1>1, <1>3 DEF Rows, Db, RequestStory
<1>5. e.stops[j] = MergedRow(s, n, c)
  BY <1>1, <1>3, MergedColumns
<1>6. r.op \in AllOps
  BY <1>1 DEF Allowed
<1>7. CASE r.op \in StopWriters
  <2>1. Drift(r.missed, s, c)
    BY <1>7 DEF RequestStory
  <2>2. j = r.stop => OwnOpen(r.op, s)
    BY <1>1, <1>4 DEF Allowed, CanCheckin, Deliverable, OwnOpen, Outcomes, EndStory, IsOpen
  <2>3. PICK own \in BOOLEAN : own = (j = r.stop)
    OBVIOUS
  <2>4. RowAfter(r.op, own, Halted(r.seen), s, n) /\ (own => OwnOpen(r.op, s))
    BY <1>2, <2>2, <2>3
  <2> HIDE DEF s, n, c
  <2>5. Kept(r.missed, r.op, c, MergedRow(s, n, c))
    BY <1>4, <1>6, <2>1, <2>4, RowCommitted
  <2> QED BY <1>5, <2>5 DEF c
<1>8. CASE r.op \notin StopWriters
  <2>1. n = s
    BY <1>2, <1>6, <1>8 DEF RowAfter, AllOps, StopWriters, Outcomes
  <2>2. e.stops[j] = c
    BY <1>4, <1>5, <2>1, RowLeftAlone
  <2> QED BY <1>4, <1>8, <2>2, DriftItself DEF Kept
<1> QED BY <1>7, <1>8

LEMMA CommitColumns ==
    ASSUME NEW d, Rows(d), NEW r, RequestSound(r, d), r.pc = "decided",
           d.status # "cancelada", RequestColumns(r, d),
           NEW e, e = Merged(r.seen, r.after, d)
    PROVE  /\ e.status # "cancelada" /\ e.emptyPhoto = d.emptyPhoto
           /\ Departed(d) => Departed(e)
           /\ r.op # "close" /\ e.status = "finalizada" => d.status = "finalizada"
           /\ r.op \notin {"occurrence", "failure"} /\ Halted(e) => Halted(d)
           /\ /\ r.op \in {"start", "close"} => "close" \notin r.missed
              /\ ClosingStory(d) /\ ClosingStory(r.seen)
              => ClosingStory(e)
<1> DEFINE s == r.seen
           n == r.after
<1>1. /\ Rows(s) /\ Allowed(s, r.op, r.stop, r.occ)
      /\ n = After(s, r.op, r.stop, r.occ)
  BY DEF RequestSound
<1>2. ColumnsAfter(r.op, s, n) /\ r.op \in AllOps
  BY <1>1, HandlerRows DEF Allowed
<1>3. n \in Db /\ s.dock \subseteq n.dock
  <2>1. Effect(s, n, r.op, r.stop)
    BY <1>1, HandlerEffect
  <2> QED BY <2>1 DEF Effect
<1>4. /\ e.status = IF n.status = s.status THEN d.status ELSE n.status
      /\ e.closings = Inserted(s.closings, n.closings, d.closings)
      /\ e.emptyPhoto = d.emptyPhoto
      /\ d.dock \subseteq e.dock
      /\ \A o \in Occurrences : e.occ[o] = IF n.occ[o] = s.occ[o] THEN d.occ[o] ELSE n.occ[o]
  BY <1>1, <1>3, MergedColumns
<1>5. RouteGuard(s, r.op) /\ s.status # "cancelada"
      /\ ("close" \notin r.missed /\ Editable(s) => Editable(d))
  BY DEF RequestColumns
<1> HIDE DEF s, n
<1>6. e.status # "cancelada" /\ (r.op # "close" /\ e.status = "finalizada" => d.status = "finalizada")
  BY <1>2, <1>4 DEF ColumnsAfter, AllOps
<1>7. ASSUME r.op \notin {"occurrence", "failure"}, Halted(e) PROVE Halted(d)
  <2>1. PICK o \in Occurrences : e.occ[o] \in OpenOccurrenceStatuses
    BY <1>7 DEF Halted
  <2>2. n.occ[o] = s.occ[o] \/ n.occ[o] = "cancelada"
    BY <1>2, <1>7 DEF ColumnsAfter, AllOps
  <2>3. d.occ[o] \in OpenOccurrenceStatuses
    BY <1>4, <2>1, <2>2 DEF OpenOccurrenceStatuses
  <2> QED BY <2>3 DEF Halted
<1>8. ASSUME r.op \in {"start", "close"} => "close" \notin r.missed,
             ClosingStory(d), ClosingStory(s)
      PROVE  ClosingStory(e)
  <2>1. CASE r.op = "close"
    <3>1. Editable(s) /\ Editable(d)
      BY <1>5, <1>8, <2>1 DEF RouteGuard, CanClose
    <3>2. s.closings = 0 /\ d.closings = 0 /\ s.status # "finalizada"
      BY <1>8, <3>1 DEF ClosingStory, Editable, CLOSED_STATES
    <3>3. n.closings = 1 /\ n.status = "finalizada"
      BY <1>2, <2>1, <3>2 DEF ColumnsAfter, Tick
    <3> QED BY <1>4, <3>2, <3>3 DEF ClosingStory, Inserted, Tick
  <2>2. CASE r.op = "reopen"
    <3>1. s.status = "finalizada" /\ s.closings = 1
      BY <1>5, <1>8, <2>2 DEF RouteGuard, Editable, CLOSED_STATES, ClosingStory
    <3>2. n.closings = 0 /\ n.status \in {"em_rota", "planejada"}
      BY <1>2, <2>2 DEF ColumnsAfter
    <3> QED BY <1>4, <3>1, <3>2 DEF ClosingStory, Inserted
  <2>3. CASE r.op = "start"
    <3>1. Editable(d)
      BY <1>5, <1>8, <2>3 DEF RouteGuard
    <3>2. d.closings = 0 /\ d.status # "finalizada"
      BY <1>8, <3>1 DEF ClosingStory, Editable, CLOSED_STATES
    <3>3. n.closings = s.closings /\ n.status = "em_rota"
      BY <1>2, <2>3 DEF ColumnsAfter
    <3> QED BY <1>4, <3>2, <3>3 DEF ClosingStory, Inserted
  <2>4. CASE r.op \notin {"start", "close", "reopen"}
    <3>1. n.closings = s.closings /\ n.status = s.status
      BY <1>2, <2>4 DEF ColumnsAfter
    <3> QED BY <1>4, <1>8, <3>1 DEF ClosingStory, Inserted
  <2> QED BY <2>1, <2>2, <2>3, <2>4
<1>9. Departed(d) => Departed(e)
  BY <1>4 DEF Departed
<1> QED BY <1>4, <1>6, <1>7, <1>8, <1>9 DEF s

\* A finished route stays complete.
LEMMA CommitFinished ==
    ASSUME NEW d, Rows(d), NEW r, RequestSound(r, d), r.pc = "decided",
           d.status # "cancelada", RequestColumns(r, d), RequestStory(r, d), FinishedStory(d),
           NEW e, Rows(e), e = Merged(r.seen, r.after, d),
           \A j \in StopIds : EndStory(d.stops[j]),
           \A j \in StopIds : Kept(r.missed, r.op, d.stops[j], e.stops[j])
    PROVE  FinishedStory(e)
<1>1. ASSUME NEW x, \A j \in StopIds : EndStory(x.stops[j])
      PROVE  AllStopsClosed(x) <=> \A j \in StopIds : ~IsOpen(x.stops[j])
  BY <1>1 DEF AllStopsClosed, OpenStops, Stops, EndStory, IsOpen, EndedStatuses
<1>2. \A j \in StopIds : EndStory(e.stops[j]) /\ (IsOpen(e.stops[j]) => IsOpen(d.stops[j]))
  BY DEF Kept
<1>3. \A j \in StopIds : EndStory(r.seen.stops[j]) /\ (IsOpen(d.stops[j]) => IsOpen(r.seen.stops[j]))
  BY DEF RequestStory
<1>4. /\ e.emptyPhoto = d.emptyPhoto /\ (Departed(d) => Departed(e))
      /\ r.op # "close" /\ e.status = "finalizada" => d.status = "finalizada"
  BY CommitColumns
<1>5. AllStopsClosed(d) => AllStopsClosed(e)
  BY <1>1, <1>2
<1>6. CASE r.op = "close"
  <2>1. CanClose(r.seen) /\ r.seen.emptyPhoto = d.emptyPhoto /\ (Departed(r.seen) => Departed(d))
    BY <1>6 DEF RequestColumns, RouteGuard
  <2>2. AllStopsClosed(r.seen) => AllStopsClosed(d)
    BY <1>1, <1>3
  <2> QED BY <1>4, <1>5, <2>1, <2>2 DEF CanClose, FinishedStory
<1>7. CASE r.op # "close"
  BY <1>4, <1>5, <1>7 DEF FinishedStory
<1> QED BY <1>6, <1>7

-----------------------------------------------------------------------------
(* The steps                                                                *)

\* The request of another worker when r commits: it has missed one commit more.
LEMMA MissedOneMore ==
    ASSUME NEW q, NEW d, NEW e, NEW op, NEW ops, NEW p, p.pc = q.pc, p.op = q.op, p.seen = q.seen,
           p.missed = q.missed \cup {op}
    PROVE  /\ /\ RequestColumns(q, d) /\ d.status # "cancelada" /\ e.status # "cancelada"
              /\ e.emptyPhoto = d.emptyPhoto /\ (Departed(d) => Departed(e))
              /\ op # "close" /\ e.status = "finalizada" => d.status = "finalizada"
              /\ op \notin {"occurrence", "failure"} /\ Halted(e) => Halted(d)
              => RequestColumns(p, e)
           /\ /\ RequestStory(q, d) /\ \A j \in StopIds : Kept(ops, op, d.stops[j], e.stops[j])
              => RequestStory(p, e)
<1>1. ASSUME RequestColumns(q, d), d.status # "cancelada", e.status # "cancelada",
             e.emptyPhoto = d.emptyPhoto, Departed(d) => Departed(e),
             op # "close" /\ e.status = "finalizada" => d.status = "finalizada",
             op \notin {"occurrence", "failure"} /\ Halted(e) => Halted(d)
      PROVE  RequestColumns(p, e)
  <2>1. RouteGuard(p.seen, p.op) /\ p.seen.status # "cancelada"
        /\ p.seen.emptyPhoto = e.emptyPhoto /\ (Departed(p.seen) => Departed(e))
    BY <1>1 DEF RequestColumns
  <2>2. "close" \notin p.missed /\ Editable(p.seen) => Editable(e)
    BY <1>1 DEF RequestColumns, Editable, CLOSED_STATES
  <2>3. /\ p.pc = "decided" /\ p.op \in {"start", "success"}
        /\ p.missed \cap {"occurrence", "failure"} = {} /\ Halted(e)
        => Halted(p.seen)
    BY <1>1 DEF RequestColumns
  <2> QED BY <2>1, <2>2, <2>3 DEF RequestColumns
<1>2. ASSUME RequestStory(q, d), \A j \in StopIds : Kept(ops, op, d.stops[j], e.stops[j])
      PROVE  RequestStory(p, e)
  <2>1. \A j \in StopIds : EndStory(p.seen.stops[j]) /\ (IsOpen(e.stops[j]) => IsOpen(p.seen.stops[j]))
    BY <1>2 DEF RequestStory, Kept
  <2>2. ASSUME p.missed \cap Outcomes = {}, NEW j \in StopIds
        PROVE  Drift(p.missed, p.seen.stops[j], e.stops[j])
    <3>1. q.missed \cap Outcomes = {} /\ op \notin Outcomes
      BY <2>2
    <3>2. Drift(q.missed, q.seen.stops[j], d.stops[j]) /\ Drift({op}, d.stops[j], e.stops[j])
      BY <1>2, <3>1 DEF RequestStory, Kept
    <3>3. PICK missed, s, c, x : missed = q.missed /\ s = q.seen.stops[j] /\ c = d.stops[j] /\ x = e.stops[j]
      OBVIOUS
    <3>4. Drift(missed \cup {op}, s, x)
      BY <3>2, <3>3, DriftOn
    <3> QED BY <3>3, <3>4
  <2> QED BY <2>1, <2>2 DEF RequestStory
<1> QED BY <1>1, <1>2

\* What a commit does to the other requests.
LEMMA CommitFrame ==
    ASSUME RequestsSound, NEW w \in Workers, Commit(w), NEW r, r = work[w]
    PROVE  /\ RequestSound(r, db) /\ r.pc = "decided" /\ Busy(w)
           /\ db' = Merged(r.seen, r.after, db) /\ Rows(db) /\ Rows(db')
           /\ raced' = raced \cup {<<r.op, m>> : m \in r.missed}
           /\ \A v \in Workers : Busy(v)' =>
                 /\ Busy(v) /\ work'[v].pc = work[v].pc /\ work'[v].op = work[v].op
                 /\ work'[v].seen = work[v].seen
                 /\ work'[v].missed = work[v].missed \cup {r.op}
<1>1. /\ RequestSound(r, db) /\ r.pc = "decided" /\ Busy(w)
      /\ db' = Merged(r.seen, r.after, db) /\ Rows(db)
      /\ raced' = raced \cup {<<r.op, m>> : m \in r.missed}
      /\ work' = [v \in Workers |->
            CASE v = w               -> Idle
              [] work[v].pc = "idle" -> Idle
              [] OTHER               -> [work[v] EXCEPT !.missed = @ \cup {r.op}]]
  BY DEF Commit, RequestsSound, Busy
<1>2. Rows(db')
  BY CommitSound DEF RequestsSound
<1>3. ASSUME NEW v \in Workers, Busy(v)'
      PROVE  /\ Busy(v) /\ work'[v].pc = work[v].pc /\ work'[v].op = work[v].op
             /\ work'[v].seen = work[v].seen
             /\ work'[v].missed = work[v].missed \cup {r.op}
  <2>1. PICK q : q = work[v]
    OBVIOUS
  <2>2. v # w /\ q.pc # "idle" /\ work'[v] = [q EXCEPT !.missed = @ \cup {r.op}]
    BY <1>1, <1>3, <2>1 DEF Idle, Busy
  <2>3. q = Request(q.pc, q.op, q.stop, q.occ, q.seen, q.after, q.missed)
    BY <2>1, <2>2 DEF RequestsSound, RequestSound
  <2>4. work'[v] = Request(q.pc, q.op, q.stop, q.occ, q.seen, q.after, q.missed \cup {r.op})
    BY <2>2, <2>3 DEF Request
  <2>5. PICK p : p = work'[v]
    OBVIOUS
  <2>6. p.pc = q.pc /\ p.op = q.op /\ p.seen = q.seen /\ p.missed = q.missed \cup {r.op}
    BY <2>4, <2>5 DEF Request
  <2> QED BY <2>1, <2>2, <2>5, <2>6 DEF Busy
<1> QED BY <1>1, <1>2, <1>3

LEMMA CommitOverlapSound ==
    ASSUME OverlapSound, NEW w \in Workers, Commit(w)
    PROVE  OverlapSound'
<1>0. PICK r : r = work[w]
  OBVIOUS
<1>1. RequestsSound /\ RequestsSound'
  BY CommitSound DEF OverlapSound
<1>2. /\ RequestSound(r, db) /\ r.pc = "decided" /\ Busy(w)
      /\ db' = Merged(r.seen, r.after, db) /\ Rows(db) /\ Rows(db')
      /\ raced' = raced \cup {<<r.op, m>> : m \in r.missed}
      /\ \A v \in Workers : Busy(v)' =>
            /\ Busy(v) /\ work'[v].pc = work[v].pc /\ work'[v].op = work[v].op
            /\ work'[v].seen = work[v].seen
            /\ work'[v].missed = work[v].missed \cup {r.op}
  BY <1>0, <1>1, CommitFrame
<1>3. db.status # "cancelada" /\ RequestColumns(r, db)
  BY <1>0, <1>2 DEF OverlapSound, ColumnsSound
<1>4. /\ db'.status # "cancelada" /\ db'.emptyPhoto = db.emptyPhoto
      /\ Departed(db) => Departed(db')
      /\ r.op # "close" /\ db'.status = "finalizada" => db.status = "finalizada"
      /\ r.op \notin {"occurrence", "failure"} /\ Halted(db') => Halted(db)
      /\ /\ r.op \in {"start", "close"} => "close" \notin r.missed
         /\ ClosingStory(db) /\ ClosingStory(r.seen)
         => ClosingStory(db')
  BY <1>2, <1>3, CommitColumns
<1>5. ASSUME NEW v \in Workers, Busy(v)'
      PROVE  /\ RequestColumns(work'[v], db')
             /\ /\ RequestStory(work[v], db)
                /\ \A j \in StopIds : Kept(r.missed, r.op, db.stops[j], db'.stops[j])
                => RequestStory(work'[v], db')
  <2>1. RequestColumns(work[v], db)
    BY <1>2, <1>5 DEF OverlapSound, ColumnsSound
  <2>2. PICK p, q : p = work'[v] /\ q = work[v]
    OBVIOUS
  <2>3. /\ p.pc = q.pc /\ p.op = q.op /\ p.seen = q.seen /\ p.missed = q.missed \cup {r.op}
    BY <1>2, <1>5, <2>2
  <2> QED BY <1>3, <1>4, <2>1, <2>2, <2>3, MissedOneMore
<1>6. ColumnsSound'
  BY <1>4, <1>5 DEF ColumnsSound
\* What the commit did not miss, because the history does not say so.
<1>7. ASSUME NEW ops, NEW others, ~\E p \in raced' : p[1] \in ops /\ p[2] \in others
      PROVE  /\ ~\E p \in raced : p[1] \in ops /\ p[2] \in others
             /\ r.op \in ops => r.missed \cap others = {}
  <2>1. ASSUME r.op \in ops, NEW m \in r.missed, m \in others PROVE FALSE
    <3>1. <<r.op, m>> \in raced'
      BY <1>2, <2>1
    <3> QED BY <1>7, <2>1, <3>1
  <2> QED BY <1>2, <1>7, <2>1
<1>8. ASSUME ~Torn'
      PROVE  /\ EndsSound /\ ~Torn
             /\ \A j \in StopIds : Kept(r.missed, r.op, db.stops[j], db'.stops[j])
  <2>1. ~Torn /\ (r.op \in StopWriters => r.missed \cap Outcomes = {})
    BY <1>7, <1>8 DEF Torn, Overran
  <2>2. EndsSound
    BY <2>1 DEF OverlapSound
  <2>3. RequestStory(r, db) /\ \A j \in StopIds : EndStory(db.stops[j])
    BY <1>0, <1>2, <2>2 DEF EndsSound
  <2> QED BY <1>2, <2>1, <2>2, <2>3, CommitRows
<1>9. ASSUME ~Torn' PROVE EndsSound'
  <2>1. \A j \in StopIds : EndStory(db'.stops[j])
    BY <1>8, <1>9 DEF Kept
  <2>2. /\ RequestStory(r, db) /\ FinishedStory(db)
        /\ \A j \in StopIds : EndStory(db.stops[j])
    BY <1>0, <1>2, <1>8, <1>9 DEF EndsSound
  <2>3. FinishedStory(db')
    BY <1>2, <1>3, <1>8, <1>9, <2>2, CommitFinished
  <2>4. ASSUME NEW v \in Workers, Busy(v)' PROVE RequestStory(work'[v], db')
    BY <1>2, <1>5, <1>8, <1>9, <2>4 DEF EndsSound
  <2> QED BY <2>1, <2>3, <2>4 DEF EndsSound
<1>10. ASSUME ~Torn', ~Crossed' PROVE \A j \in StopIds : WaitStory(db'.stops[j])
  <2>1. ~Crossed /\ \A j \in StopIds : WaitStory(db.stops[j])
    BY <1>2, <1>8, <1>10 DEF Crossed, OverlapSound
  <2>2. ASSUME NEW m \in r.missed PROVE <<r.op, m>> \in raced'
    BY <1>2
  <2>3. /\ r.op = "checkin" => "occurrence" \notin r.missed
        /\ r.op = "occurrence" => "checkin" \notin r.missed
    BY <1>10, <2>2 DEF Crossed
  <2> QED BY <1>8, <1>10, <2>1, <2>3 DEF Kept
<1>11. ASSUME ~Doubled' PROVE TalliesSound'
  <2>1. ~Torn'
    BY <1>11 DEF Doubled
  <2>2. /\ ~Overran({"checkin"} \cup Outcomes, {"checkin"})
        /\ r.op \in {"checkin"} \cup Outcomes => r.missed \cap {"checkin"} = {}
    BY <1>7, <1>11 DEF Doubled, Overran
  <2>3. /\ ~Overran({"start", "close"}, {"close"})
        /\ r.op \in {"start", "close"} => r.missed \cap {"close"} = {}
    BY <1>7, <1>11 DEF Doubled, Overran
  <2>4. TalliesSound
    BY <1>8, <2>1, <2>2, <2>3 DEF Doubled, OverlapSound
  <2>5. \A j \in StopIds : TallyStory(db'.stops[j])
    BY <1>8, <2>1, <2>2, <2>4 DEF Kept, TalliesSound
  <2>6. ClosingStory(db')
    BY <1>0, <1>2, <1>4, <2>3, <2>4 DEF TalliesSound
  <2>7. ASSUME NEW v \in Workers, Busy(v)' PROVE ClosingStory(work'[v].seen)
    BY <1>2, <2>4, <2>7 DEF TalliesSound
  <2> QED BY <2>5, <2>6, <2>7 DEF TalliesSound
<1> QED BY <1>1, <1>6, <1>9, <1>10, <1>11 DEF OverlapSound

\* The rows at the start: every stop waits, or the first one is under way.
LEMMA OverlapSoundInit == Init => OverlapSound
<1> SUFFICES ASSUME Init PROVE OverlapSound
  OBVIOUS
<1>1. RequestsSound
  BY RequestsInit
<1> DEFINE New(k) == NewStop(MaxStops + 1 - k, TRUE, "pendente")
<1>2. /\ Rows(Ready) /\ \A k \in StopIds : Ready.stops[k] = New(k)
      /\ Ready.status = "planejada" /\ Ready.closings = 0
  <2> DEFINE p == PlannedRoute(MaxStops, [k \in StopIds |-> [seq |-> MaxStops + 1 - k, carga |-> TRUE]], TRUE)
  <2>1. \A k \in StopIds : New(k) \in Row
    BY MaxStopsAssumption DEF StopIds, NewStop, Row, StopStatuses, LiveStopStatuses, Tally
  <2>2. p.stops = [k \in StopIds |-> New(k)] /\ p.status = "planejada" /\ p.closings = 0
    BY MaxStopsAssumption DEF PlannedRoute, StopIds
  <2>3. MaxStops + 1 \in 1..(MaxStops + 1) /\ 0 \in Tally
    BY MaxStopsAssumption DEF Tally
  <2> HIDE DEF New
  <2>4. p \in Db /\ p.next = MaxStops + 1
    BY <2>1, <2>2, <2>3 DEF PlannedRoute, Db, RouteStatuses
  <2>5. Ready = [p EXCEPT !.dock = {"arrival_cd_at"}, !.loadedPhoto = TRUE, !.emptyPhoto = TRUE]
    BY DEF Ready
  <2> HIDE DEF p
  <2> QED BY <2>2, <2>4, <2>5 DEF Rows, Db, DockFields
<1>3. ASSUME NEW k \in StopIds
      PROVE  LET r == New(k) IN
             /\ EndStory(r) /\ WaitStory(r) /\ TallyStory(r) /\ r.status = "pendente"
             /\ EndStory(Promoted(r)) /\ WaitStory(Promoted(r)) /\ TallyStory(Promoted(r))
  <2>0. PICK d, n : d = Ready /\ n = New(k)
    OBVIOUS
  <2>1. New(k) \in Row
    <3>1. d \in Db /\ d.stops[k] = n
      BY <1>2, <2>0 DEF Rows
    <3> HIDE DEF New
    <3> QED BY <2>0, <3>1 DEF Db
  <2>2. Promoted(New(k)) \in Row
    BY <2>1, RowTyped
  <2> QED BY <2>1, <2>2 DEF NewStop, Promoted, EndStory, WaitStory, TallyStory, IsOpen
<1>4. /\ Rows(db) /\ db.status \in {"planejada", "em_rota"} /\ db.closings = 0
      /\ \A k \in StopIds : db.stops[k] = New(k) \/ db.stops[k] = Promoted(New(k))
  <2>1. CASE db = Ready
    BY <1>2, <2>1
  <2>2. CASE db = AfterRelease(Ready)
    <3>1. \A k \in StopIds : Leg(Halted(Ready), Ready.stops[k], db.stops[k])
      BY <1>2, <2>2, StartRows
    <3>2. ColumnsAfter("start", Ready, db)
      BY <1>2, <2>2, StartRows
    <3>3. Rows(db)
      BY <1>1 DEF RequestsSound
    <3> HIDE DEF New
    <3> QED BY <1>2, <3>1, <3>2, <3>3 DEF Leg, ColumnsAfter
  <2> QED BY <2>1, <2>2 DEF Init
<1> HIDE DEF New
<1>5. \A k \in StopIds : EndStory(db.stops[k]) /\ WaitStory(db.stops[k]) /\ TallyStory(db.stops[k])
  BY <1>3, <1>4
<1>6. FinishedStory(db) /\ ClosingStory(db) /\ db.status # "cancelada"
  BY <1>4 DEF FinishedStory, ClosingStory
<1>7. \A w \in Workers : ~Busy(w)
  BY DEF Init, Busy, Idle
<1> QED BY <1>1, <1>5, <1>6, <1>7 DEF OverlapSound, ColumnsSound, EndsSound, TalliesSound

LEMMA LoadOverlapSound ==
    ASSUME OverlapSound, NEW w \in Workers, NEW op \in Ops, NEW k \in StopIds,
           NEW o \in Occurrences \cup {NoOccurrence}, Load(w, op, k, o)
    PROVE  OverlapSound'
<1> DEFINE r == Request("loaded", op, k, o, db, db, {})
<1>1. /\ work' = [work EXCEPT ![w] = r] /\ db' = db /\ raced' = raced /\ Can(db, op, k, o)
      /\ RequestsSound /\ RequestsSound'
  BY LoadSound DEF Load, OverlapSound
<1>2. r.pc = "loaded" /\ r.op = op /\ r.seen = db /\ r.missed = {}
  BY DEF Request
<1> HIDE DEF r
<1>3. \A v \in Workers : work'[v] = IF v = w THEN r ELSE work[v]
  BY <1>1 DEF RequestsSound
<1>4. RequestColumns(r, db)
  <2>1. RouteGuard(db, op)
    BY <1>1 DEF Can, RouteGuard, CanRelease, CanReopen
  <2> QED BY <1>2, <2>1 DEF RequestColumns, OverlapSound, ColumnsSound
<1>5. (\A j \in StopIds : EndStory(db.stops[j])) => RequestStory(r, db)
  <2>1. \A j \in StopIds : db.stops[j] \in Row
    BY <1>1 DEF RequestsSound, Rows, Db
  <2>2. \A j \in StopIds : Drift({}, db.stops[j], db.stops[j])
    BY <2>1, DriftItself
  <2> QED BY <1>2, <2>2 DEF RequestStory
<1>6. ColumnsSound'
  BY <1>1, <1>3, <1>4 DEF ColumnsSound, OverlapSound, Busy
<1>7. EndsSound => EndsSound'
  BY <1>1, <1>3, <1>5 DEF EndsSound, Busy
<1>8. TalliesSound => TalliesSound'
  BY <1>1, <1>2, <1>3 DEF TalliesSound, Busy
<1>9. UNCHANGED <<Torn, Crossed, Doubled>>
  BY <1>1 DEF Torn, Crossed, Doubled, Overran
<1> QED BY <1>1, <1>6, <1>7, <1>8, <1>9 DEF OverlapSound

LEMMA DecideOverlapSound ==
    ASSUME OverlapSound, NEW w \in Workers, Decide(w)
    PROVE  OverlapSound'
<1>0. PICK r : r = work[w]
  OBVIOUS
<1>1. PICK s, a : s = Seen(r) /\ a = After(Seen(r), r.op, r.stop, r.occ)
  OBVIOUS
<1>2. /\ work' = [work EXCEPT ![w] = [r EXCEPT !.pc = "decided", !.seen = s, !.after = a]]
      /\ db' = db /\ raced' = raced /\ r.pc = "loaded"
      /\ RequestsSound /\ RequestsSound'
  BY <1>0, <1>1, DecideSound DEF Decide, OverlapSound
<1>3. RequestSound(r, db) /\ Busy(w)
  BY <1>0, <1>2 DEF RequestsSound, Busy
<1>4. PICK q : q = [r EXCEPT !.pc = "decided", !.seen = s, !.after = a]
  OBVIOUS
<1>5. q.pc = "decided" /\ q.op = r.op /\ q.seen = s /\ q.missed = r.missed
  <2>1. r = Request(r.pc, r.op, r.stop, r.occ, r.seen, r.after, r.missed)
    BY <1>3 DEF RequestSound
  <2> QED BY <1>4, <2>1 DEF Request
<1>6. /\ s.dock = r.seen.dock /\ s.status = r.seen.status /\ s.stops = r.seen.stops
      /\ s.emptyPhoto = r.seen.emptyPhoto /\ s.closings = r.seen.closings
      /\ r.op # "settle" => s.occ = db.occ
  <2>1. r.seen \in Db /\ db.occ \in [Occurrences -> OccurrenceStatuses \cup {"none"}]
    BY <1>2, <1>3 DEF RequestSound, RequestsSound, Rows, Db
  <2>2. CASE r.op = "settle"
    BY <1>1, <2>2 DEF Seen
  <2>3. CASE r.op # "settle"
    <3>1. s = [r.seen EXCEPT !.occ = db.occ]
      BY <1>1, <2>3 DEF Seen
    <3> QED BY <2>1, <3>1 DEF Db
  <2> QED BY <2>2, <2>3
<1>7. \A v \in Workers : work'[v] = IF v = w THEN q ELSE work[v]
  BY <1>2, <1>4 DEF RequestsSound
<1>8. RequestColumns(q, db)
  <2>1. RequestColumns(r, db)
    BY <1>0, <1>3 DEF OverlapSound, ColumnsSound
  <2>2. RouteGuard(s, r.op)
    BY <1>6, <2>1 DEF RequestColumns, RouteGuard, CanClose, Editable, Departed, AllStopsClosed,
                      OpenStops, Stops
  <2>3. r.op \in {"start", "success"} /\ Halted(db) => Halted(s)
    BY <1>6 DEF Halted
  <2>4. /\ s.status # "cancelada" /\ s.emptyPhoto = db.emptyPhoto
        /\ Departed(s) => Departed(db)
        /\ "close" \notin r.missed /\ Editable(s) => Editable(db)
    BY <1>6, <2>1 DEF RequestColumns, Departed, Editable
  <2> QED BY <1>5, <2>2, <2>3, <2>4 DEF RequestColumns
<1>9. RequestStory(r, db) => RequestStory(q, db)
  BY <1>5, <1>6 DEF RequestStory
<1>10. ClosingStory(r.seen) => ClosingStory(q.seen)
  BY <1>5, <1>6 DEF ClosingStory
<1>11. ColumnsSound'
  BY <1>2, <1>7, <1>8 DEF ColumnsSound, OverlapSound, Busy
<1>12. EndsSound => EndsSound'
  BY <1>0, <1>2, <1>3, <1>7, <1>9 DEF EndsSound, Busy
<1>13. TalliesSound => TalliesSound'
  BY <1>0, <1>2, <1>3, <1>7, <1>10 DEF TalliesSound, Busy
<1>14. UNCHANGED <<Torn, Crossed, Doubled>>
  BY <1>2 DEF Torn, Crossed, Doubled, Overran
<1> QED BY <1>2, <1>11, <1>12, <1>13, <1>14 DEF OverlapSound

LEMMA OverlapSoundStep ==
    ASSUME OverlapSound, [Next]_vars
    PROVE  OverlapSound'
<1>1. ASSUME UNCHANGED vars PROVE OverlapSound'
  BY <1>1 DEF vars, OverlapSound, RequestsSound, ColumnsSound, EndsSound, TalliesSound, Busy,
              Torn, Crossed, Doubled, Overran
<1> QED BY <1>1, LoadOverlapSound, DecideOverlapSound, CommitOverlapSound DEF Next

LEMMA OverlapSoundAlways == Spec => []OverlapSound
<1>1. OverlapSound /\ [Next]_vars => OverlapSound'
  BY OverlapSoundStep
<1> QED BY <1>1, OverlapSoundInit, PTL DEF Spec

-----------------------------------------------------------------------------
(* The promises                                                             *)

\* The columns of a stop are torn only by a request that writes stops and missed
\* an outcome, or by an arrival and an occurrence that missed each other.
THEOREM RowsTornAlways == Spec => []RowsTornOnlyByOverlap
<1>1. OverlapSound => RowsTornOnlyByOverlap
  <2> SUFFICES ASSUME OverlapSound, ~Torn, ~Crossed PROVE Lifecycle!OutcomeConsistent
    BY DEF RowsTornOnlyByOverlap, Torn, Crossed
  <2>1. \A k \in StopIds : EndStory(db.stops[k]) /\ WaitStory(db.stops[k])
    BY DEF OverlapSound, EndsSound
  <2>2. ASSUME NEW k \in StopIds
        PROVE  LET r == db.stops[k] IN
               /\ r.status \in {"pendente", "em_rota"} => ~r.delivered /\ ~r.reason
               /\ r.status = "pendente" => ~r.checkin
               /\ r.status = "entregue" => r.delivered /\ r.checkin /\ ~r.reason
               /\ r.status = "falha" => ~r.delivered /\ r.checkin /\ r.reason
               /\ r.status # "devolvido"
    BY <2>1 DEF EndStory, WaitStory, IsOpen
  <2> QED BY <2>2 DEF Lifecycle!OutcomeConsistent, Lifecycle!Stops, Lifecycle!StopIds, StopIds
<1> QED BY <1>1, OverlapSoundAlways, PTL

\* The timeline has one event too many only after one of the overlaps that
\* LedgerDoubledOnlyByOverlap names.
THEOREM LedgerDoubledAlways == Spec => []LedgerDoubledOnlyByOverlap
<1>1. OverlapSound => LedgerDoubledOnlyByOverlap
  <2> SUFFICES ASSUME OverlapSound, ~Doubled PROVE Lifecycle!EventsAgree
    BY DEF LedgerDoubledOnlyByOverlap, Torn, Doubled
  <2>1. /\ \A k \in StopIds : EndStory(db.stops[k]) /\ TallyStory(db.stops[k])
        /\ ClosingStory(db)
    BY DEF OverlapSound, EndsSound, TalliesSound, Doubled
  <2>2. ASSUME NEW k \in Stops(db)
        PROVE  LET r == db.stops[k] IN
               /\ r.arrivals = IF r.checkin THEN 1 ELSE 0
               /\ k \in OpenStops(db) => r.outcomes = 0
               /\ r.status = "entregue" => r.outcomes = 1
               /\ r.status = "falha" => r.outcomes >= IF r.returned THEN 2 ELSE 1
    BY <2>1 DEF Stops, OpenStops, EndStory, TallyStory, IsOpen, EndedStatuses
  <2>3. Lifecycle!Stops(db) = Stops(db) /\ Lifecycle!OpenStops(db) = OpenStops(db)
    BY DEF Lifecycle!Stops, Stops, Lifecycle!StopIds, StopIds, Lifecycle!OpenStops, OpenStops,
           Lifecycle!EndedStatuses, EndedStatuses
  <2> QED BY <2>1, <2>2, <2>3 DEF Lifecycle!EventsAgree, ClosingStory
<1> QED BY <1>1, OverlapSoundAlways, PTL

\* A finished route has an open stop only after a request that writes stops has
\* missed an outcome.
THEOREM FinishedIncompleteAlways == Spec => []FinishedIncompleteOnlyByOverlap
<1>1. OverlapSound => FinishedIncompleteOnlyByOverlap
  BY DEF OverlapSound, EndsSound, FinishedStory, FinishedIncompleteOnlyByOverlap, Torn,
         Lifecycle!FinishedIsComplete, Lifecycle!Departed, Departed, Lifecycle!AllStopsClosed,
         AllStopsClosed, Lifecycle!Stops, Stops, Lifecycle!StopIds, StopIds, Lifecycle!OpenStops,
         OpenStops, Lifecycle!EndedStatuses, EndedStatuses
<1> QED BY <1>1, OverlapSoundAlways, PTL

\* A leg is started by a departure or a delivery that found no open occurrence.
LEMMA LegStarted ==
    ASSUME OverlapSound, NEW w \in Workers, Commit(w), NEW r, r = work[w],
           NEW k \in StopIds, Travelling(db', k), ~Travelling(db, k)
    PROVE  r.op \in {"start", "success"} /\ ~Halted(r.seen)
<1>1. /\ RequestSound(r, db) /\ r.pc = "decided" /\ db' = Merged(r.seen, r.after, db)
      /\ Rows(db) /\ Rows(db')
  BY CommitFrame DEF OverlapSound
<1>2. /\ Rows(r.seen) /\ Allowed(r.seen, r.op, r.stop, r.occ)
      /\ r.after = After(r.seen, r.op, r.stop, r.occ)
  BY <1>1 DEF RequestSound
<1>3. PICK s, n, c, q : s = r.seen.stops[k] /\ n = r.after.stops[k] /\ c = db.stops[k] /\ q = db'.stops[k]
  OBVIOUS
<1>4. RowAfter(r.op, k = r.stop, Halted(r.seen), s, n)
  BY <1>2, <1>3, HandlerRows
<1>5. r.after \in Db
  <2>1. Effect(r.seen, r.after, r.op, r.stop)
    BY <1>2, HandlerEffect
  <2> QED BY <2>1 DEF Effect
<1>6. s \in Row /\ n \in Row /\ c \in Row /\ q = MergedRow(s, n, c)
  <2>1. PICK d, x, a, e : d = r.seen /\ a = r.after /\ x = db /\ e = db'
    OBVIOUS
  <2>2. Rows(d) /\ Rows(x) /\ a \in Db /\ e = Merged(d, a, x)
    BY <1>1, <1>2, <1>5, <2>1
  <2>3. s = d.stops[k] /\ n = a.stops[k] /\ c = x.stops[k] /\ q = e.stops[k]
    BY <1>3, <2>1
  <2>4. e.stops[k] = MergedRow(d.stops[k], a.stops[k], x.stops[k])
    BY <2>2, MergedColumns
  <2>5. d.stops[k] \in Row /\ a.stops[k] \in Row /\ x.stops[k] \in Row
    BY <2>2 DEF Rows, Db
  <2> QED BY <2>3, <2>4, <2>5
<1>7. /\ q.status = IF n.status = s.status THEN c.status ELSE n.status
      /\ q.checkin = IF n.checkin = s.checkin THEN c.checkin ELSE n.checkin
  BY <1>6, RowMerged
<1>8. q.status = "em_rota" /\ ~q.checkin /\ ~(c.status = "em_rota" /\ ~c.checkin)
  BY <1>3 DEF Travelling
<1>9. n # s
  BY <1>6, <1>8, RowLeftAlone
<1>10. r.op # "checkin"
  <2> SUFFICES ASSUME r.op = "checkin" PROVE FALSE
    OBVIOUS
  <2>1. k = r.stop /\ n = CheckedIn(s)
    BY <1>4, <1>9 DEF RowAfter
  <2>2. ~s.checkin /\ n.checkin
    BY <1>2, <1>3, <1>6, <2>1 DEF Allowed, CanCheckin, CheckedIn, Row
  <2> QED BY <1>7, <1>8, <2>2
<1>11. r.op # "occurrence"
  <2> SUFFICES ASSUME r.op = "occurrence" PROVE FALSE
    OBVIOUS
  <2>1. s.status = "em_rota" /\ n = [s EXCEPT !.status = "pendente"]
    BY <1>4, <1>9 DEF RowAfter
  <2>2. n.status = "pendente"
    BY <1>6, <2>1 DEF Row
  <2> QED BY <1>7, <1>8, <2>1, <2>2
<1>12. r.op \in Outcomes => k # r.stop
  <2> SUFFICES ASSUME r.op \in Outcomes, k = r.stop PROVE FALSE
    OBVIOUS
  <2>1. s.status \notin {"entregue", "falha"}
    BY <1>2, <1>3 DEF Allowed, Deliverable, Outcomes
  <2>2. EnsureStopCheckin(s) \in Row
    BY <1>6, RowTyped
  <2>3. n.status \in {"entregue", "falha"}
    BY <1>4, <2>2 DEF RowAfter, Outcomes, Succeeded, Failed, Row
  <2> QED BY <1>7, <1>8, <2>1, <2>3
<1>13. r.op \in AllOps
  BY <1>2 DEF Allowed
<1> QED BY <1>4, <1>9, <1>10, <1>11, <1>12, <1>13 DEF RowAfter, Leg, AllOps, Outcomes

\* A leg starts under an open occurrence only when the request that starts it has
\* missed the registration of one.
THEOREM LegUnderOccurrenceAlways == Spec => LegUnderOccurrenceOnlyByOverlap
<1>1. ASSUME OverlapSound, [Next]_vars PROVE LegUnderOccurrence
  <2> SUFFICES ASSUME NEW k \in StopIds, Travelling(db, k)', ~Travelling(db, k), Halted(db)'
               PROVE  \E p \in raced' : p[1] \in {"start", "success"} /\ p[2] \in {"occurrence", "failure"}
    BY DEF LegUnderOccurrence
  <2>1. Travelling(db', k) /\ Halted(db')
    BY DEF Travelling, Halted
  <2>2. db' # db
    BY <2>1
  <2>3. PICK w \in Workers : Commit(w)
    BY <1>1, <2>2 DEF Next, vars, Load, Decide
  <2>4. PICK r : r = work[w]
    OBVIOUS
  <2>5. /\ RequestSound(r, db) /\ r.pc = "decided" /\ Busy(w)
        /\ db' = Merged(r.seen, r.after, db) /\ Rows(db)
        /\ raced' = raced \cup {<<r.op, m>> : m \in r.missed}
    BY <1>1, <2>3, <2>4, CommitFrame DEF OverlapSound
  <2>6. r.op \in {"start", "success"} /\ ~Halted(r.seen)
    BY <1>1, <2>1, <2>3, <2>4, LegStarted
  <2>7. RequestColumns(r, db) /\ db.status # "cancelada"
    BY <1>1, <2>4, <2>5 DEF OverlapSound, ColumnsSound
  <2>8. Halted(db)
    BY <2>1, <2>5, <2>6, <2>7, CommitColumns
  <2>9. r.missed \cap {"occurrence", "failure"} # {}
    BY <2>5, <2>6, <2>7, <2>8 DEF RequestColumns
  <2>10. PICK m \in r.missed : m \in {"occurrence", "failure"}
    BY <2>9
  <2>11. <<r.op, m>> \in raced'
    BY <2>5
  <2> QED BY <2>6, <2>10, <2>11
<1> QED BY <1>1, OverlapSoundAlways, PTL DEF Spec, LegUnderOccurrenceOnlyByOverlap
=============================================================================
