------------------------------- MODULE RouteMaps -------------------------------
(***************************************************************************)
(* The map of one route and the order suggested for its stops               *)
(* (services/routing.py, workers/celery_app.py, modules/routes/router.py).  *)
(* A job loads the route, asks the route planner, which may take minutes,   *)
(* and commits the columns that it has changed.  Three kinds of job do so:   *)
(* "refresh" (queued by refresh_route_map), "import" (queued by an upload of *)
(* a sheet) and "request" (optimize_sequence, inside the request).           *)
(* Meanwhile stops are edited, added, deleted, imported again, and           *)
(* suggestions applied.                                                      *)
(*                                                                         *)
(* A line on the map stands for the stops it visits, in order, with the      *)
(* address each had; coordinates, distance and duration go with it.  The     *)
(* route is not finished and the user may edit it.                           *)
(***************************************************************************)
EXTENDS Integers, FiniteSets, Sequences, Functions

CONSTANTS
    MapStops,     \* ids of rows of route_stops
    Places,       \* addresses
    Loads,        \* the addresses of the loads considered, in order
    Jobs,         \* jobs that may be under way together
    MaxJobs,      \* bound: jobs started
    MaxEdits,     \* bound: changes of stops, origin and settings
    MaxDeaths     \* bound: processes that die

VARIABLES
    routing,      \* operational_settings.routing_enabled
    map,          \* the committed columns of the route and its stops
    job,          \* per job: where it is and what it has read
    fit,          \* history: which of the lines are known to be of the stops as they are
    silent,       \* history: a refresh ended without writing how
    started, edits, deaths

mapVars == <<routing, map, job, fit, silent, started, edits, deaths>>

NoRow == [sequence |-> 0, optimized |-> 0, place |-> "none"]   \* 0: null
NoLine == <<>>
Kinds == {"refresh", "import", "request"}
Positions == 1..Cardinality(MapStops)
Rows == [sequence: Positions, optimized: {0} \cup Positions, place: Places] \cup {NoRow}
Lines == {NoLine} \cup UNION {[1..n -> MapStops \X Places] : n \in 1..Cardinality(MapStops)}
Maps == [rows: [MapStops -> Rows], origin: {"none", "sheet", "known"},
         status: {"pending", "processing", "optimized", "error"}, line: Lines, suggested: Lines]

Live(rows) == {s \in MapStops : rows[s] # NoRow}

\* The stops by their sequence, ties by id.
Before(rows, s, t) ==
    rows[s].sequence < rows[t].sequence \/ (rows[s].sequence = rows[t].sequence /\ s < t)
Planned(rows) ==
    LET rank(s) == Cardinality({t \in Live(rows) : Before(rows, t, s)}) + 1
    IN  [i \in 1..Cardinality(Live(rows)) |-> CHOOSE s \in Live(rows) : rank(s) = i]
LineThrough(rows, stops) == [i \in DOMAIN stops |-> <<stops[i], rows[stops[i]].place>>]

Idle == [phase |-> "idle"]

MapTypeOK ==
    /\ routing \in BOOLEAN /\ map \in Maps
    /\ \A j \in Jobs : \/ job[j] = Idle
                       \/ job[j].phase \in {"asked", "queued"} /\ job[j].kind \in Kinds
                       \/ /\ job[j].phase = "loaded" /\ job[j].kind \in Kinds
                          /\ job[j].read \in Maps /\ job[j].stale \in BOOLEAN
                          /\ job[j].touched \subseteq {"line", "suggested"}
    /\ fit \subseteq {"line", "suggested"} /\ silent \in BOOLEAN
    /\ started \in 0..MaxJobs /\ edits \in 0..MaxEdits /\ deaths \in 0..MaxDeaths

MapInit ==
    /\ routing = TRUE
    /\ \E place \in Loads, origin \in {"sheet", "known"} :
          map = [rows |-> [s \in MapStops |-> [sequence |-> s, optimized |-> 0, place |-> place[s]]],
                 origin |-> origin, status |-> "pending", line |-> NoLine, suggested |-> NoLine]
    /\ job = [j \in Jobs |-> Idle]
    /\ fit = {} /\ silent = FALSE
    /\ started = 0 /\ edits = 0 /\ deaths = 0

-----------------------------------------------------------------------------
(* What the planner answers, and what a job makes of it                       *)

\* Neighbours with the same address are sent as one.
Together(rows, stops, i) == i < Len(stops) /\ rows[stops[i]].place = rows[stops[i + 1]].place
Divided(rows, stops) == \E i \in 1..(Len(stops) - 1) : ~Together(rows, stops, i)

\* The orders the planner may propose: neighbours with one address stay together, the
\* last address stays the last.
Reorderings ==
    [n \in Positions |-> {p \in [1..n -> 1..n] :
        p[n] = n /\ \A i, k \in 1..n : p[i] = p[k] => i = k}]
Orders(rows, stops) ==
    {p \in Reorderings[Len(stops)] :
        \A i \in 1..(Len(stops) - 1) : Together(rows, stops, p[i]) => p[i + 1] = p[i] + 1}

\* optimize_route asks for an order only if the origin is known by then, and so does
\* route_through_stops if there are two addresses to choose from.
Optimizes(kind, read) ==
    kind # "refresh" /\ read.origin = "known" /\ Divided(read.rows, Planned(read.rows))

WithOrigin(read) == IF read.origin = "none" THEN "none" ELSE "known"

\* An order is a suggestion; the sequence stays.
Suggested(read, order, line) ==
    LET stops == Planned(read.rows)
        better == [i \in DOMAIN stops |-> stops[order[i]]]
    IN  [read EXCEPT !.origin = WithOrigin(read), !.status = "optimized",
            !.rows = [s \in MapStops |-> IF s \in Live(read.rows)
                        THEN [read.rows[s] EXCEPT !.optimized = CHOOSE i \in DOMAIN stops : better[i] = s]
                        ELSE NoRow],
            !.suggested = IF line THEN LineThrough(read.rows, better) ELSE NoLine]

\* The line of the present sequence, and no suggestion any more.
Drawn(read, line) ==
    [read EXCEPT !.origin = WithOrigin(read), !.status = "pending", !.suggested = NoLine,
        !.rows = [s \in MapStops |-> IF s \in Live(read.rows)
                    THEN [read.rows[s] EXCEPT !.optimized = 0] ELSE NoRow],
        !.line = IF line THEN LineThrough(read.rows, Planned(read.rows)) ELSE NoLine]

\* The planner refused the whole, the job asked leg by leg.
DrawnInLegs(read, line) ==
    [read EXCEPT !.origin = WithOrigin(read), !.status = "pending",
        !.line = IF line THEN LineThrough(read.rows, Planned(read.rows)) ELSE NoLine]

\* A stop that is not found, or found in another state of the country.
Unlocated(read) ==
    [read EXCEPT !.origin = WithOrigin(read), !.status = "error", !.line = NoLine, !.suggested = NoLine]

\* The planner answers with a line or without one.
Answers(kind, read) ==
    {<<"unlocated">>} \cup {<<"legs", line>> : line \in BOOLEAN}
    \cup IF Optimizes(kind, read)
         THEN {<<"order", line, order>> : line \in BOOLEAN, order \in Orders(read.rows, Planned(read.rows))}
         ELSE {<<"whole", line>> : line \in BOOLEAN}

Computed(read, answer) ==
    CASE answer[1] = "unlocated" -> Unlocated(read)
      [] answer[1] = "legs"      -> DrawnInLegs(read, answer[2])
      [] answer[1] = "order"     -> Suggested(read, answer[3], answer[2])
      [] answer[1] = "whole"     -> Drawn(read, answer[2])

\* The lines that an answer replaces.
Redrawn(answer) ==
    CASE answer[1] = "legs"  -> {"line"}
      [] answer[1] = "order" -> {"suggested"}
      [] OTHER               -> {"line", "suggested"}

-----------------------------------------------------------------------------
(* Jobs *)

Free(j) == job[j].phase = "idle" /\ started < MaxJobs
Enters(j, phase, kind) ==
    /\ Free(j)
    /\ started' = started + 1
    /\ job' = [job EXCEPT ![j] = [phase |-> phase, kind |-> kind]]

Loaded(kind) == [phase |-> "loaded", kind |-> kind, read |-> map, stale |-> FALSE, touched |-> {}]

\* refresh_route_map: "processing" is committed first, then the task is queued.
RefreshRouteMap(j) ==
    /\ Enters(j, "asked", "refresh")
    /\ map' = [map EXCEPT !.status = "processing"]
    /\ UNCHANGED <<routing, fit, silent, edits, deaths>>

Enqueue(j) ==
    /\ job[j].phase = "asked"
    /\ job' = [job EXCEPT ![j].phase = "queued"]
    /\ UNCHANGED <<routing, map, fit, silent, started, edits, deaths>>

\* The queue cannot be reached.
NotQueued(j) ==
    /\ job[j].phase = "asked" /\ deaths < MaxDeaths
    /\ job' = [job EXCEPT ![j] = Idle]
    /\ map' = [map EXCEPT !.status = "error"]
    /\ deaths' = deaths + 1
    /\ UNCHANGED <<routing, fit, silent, started, edits>>

\* With the planner switched off, or without stops, a job has nothing to ask.
Pointless == ~routing \/ Live(map.rows) = {}

\* optimize_sequence works inside the request.
OptimizeSequence(j) ==
    /\ Free(j) /\ ~Pointless
    /\ started' = started + 1
    /\ job' = [job EXCEPT ![j] = Loaded("request")]
    /\ UNCHANGED <<routing, map, fit, silent, edits, deaths>>

\* A task is taken from the queue and loads the route.
LoadRoute(j) ==
    /\ job[j].phase = "queued" /\ ~Pointless
    /\ job' = [job EXCEPT ![j] = Loaded(@.kind)]
    /\ UNCHANGED <<routing, map, fit, silent, started, edits, deaths>>

\* A pointless task ends without writing anything.
EndAtOnce(j) ==
    /\ job[j].phase = "queued" /\ Pointless
    /\ job' = [job EXCEPT ![j] = Idle]
    /\ silent' = (silent \/ job[j].kind = "refresh")
    /\ UNCHANGED <<routing, map, fit, started, edits, deaths>>

Written(old, new, current) == IF new = old THEN current ELSE new

Merged(read, new) ==
    [map EXCEPT
        !.origin = Written(read.origin, new.origin, @),
        !.status = Written(read.status, new.status, @),
        !.line = Written(read.line, new.line, @),
        !.suggested = Written(read.suggested, new.suggested, @),
        !.rows = [s \in MapStops |-> IF map.rows[s] = NoRow THEN NoRow
                    ELSE [map.rows[s] EXCEPT
                            !.optimized = Written(read.rows[s].optimized, new.rows[s].optimized, @)]]]

\* An UPDATE of a row that is gone fails; it is not issued if nothing changed in it.
Gone(j) == Live(job[j].read.rows) \ Live(map.rows)
Touches(j, new) == \E s \in Gone(j) : new.rows[s] # job[j].read.rows[s]

\* A change of the stops makes what the jobs have read old.
Outdated == [i \in Jobs |-> IF job[i].phase = "loaded" THEN [job[i] EXCEPT !.stale = TRUE] ELSE job[i]]

\* The lines that a commit replaces; a suggestion is its line and the positions it gives.
Changed(new) ==
    {l \in {"line", "suggested"} :
        \/ l = "line" /\ new.line # map.line
        \/ l = "suggested" /\ \/ new.suggested # map.suggested
                              \/ \E s \in MapStops : new.rows[s].optimized # map.rows[s].optimized}

\* The jobs that have loaded the route have not seen them.
TouchedBy(lines) ==
    [i \in Jobs |-> IF job[i].phase = "loaded" THEN [job[i] EXCEPT !.touched = @ \cup lines] ELSE job[i]]

\* A job that loaded the stops as they are draws what nobody replaced since, and the line
\* that it replaces itself; a suggestion may get columns of two jobs.
Fitting(j, answer, new) ==
    IF job[j].stale THEN {}
    ELSE Redrawn(answer) \ (job[j].touched \ IF new.line # job[j].read.line THEN {"line"} ELSE {})

Finish(j) ==
    /\ job[j].phase = "loaded"
    /\ \E answer \in Answers(job[j].kind, job[j].read) :
          LET new == Computed(job[j].read, answer)
          IN  /\ ~Touches(j, new)
              /\ map' = Merged(job[j].read, new)
              /\ fit' = (fit \ Changed(map')) \cup Fitting(j, answer, new)
              /\ job' = [TouchedBy(Changed(map')) EXCEPT ![j] = Idle]
    /\ UNCHANGED <<routing, silent, started, edits, deaths>>

\* Variant: only the rollback.
AfterFailure_RollbackOnly(kind) == map

\* Everything is rolled back; only the refresh task records the error.
AfterFailure(kind) == IF kind = "refresh" THEN [map EXCEPT !.status = "error"] ELSE map

\* A coordinate of a stop that is gone has changed, or its position in the suggestion.
Fail(j) ==
    /\ job[j].phase = "loaded"
    /\ Gone(j) # {}
    /\ map' = AfterFailure(job[j].kind)
    /\ job' = [job EXCEPT ![j] = Idle]
    /\ UNCHANGED <<routing, fit, silent, started, edits, deaths>>

\* The process of the request or of the worker dies; tasks are not delivered again.
Dies(j) ==
    /\ job[j].phase # "idle" /\ deaths < MaxDeaths
    /\ deaths' = deaths + 1
    /\ job' = [job EXCEPT ![j] = Idle]
    /\ silent' = (silent \/ job[j].kind = "refresh")
    /\ UNCHANGED <<routing, map, fit, started, edits>>

-----------------------------------------------------------------------------
(* What others do to the route *)

Edited ==
    /\ edits < MaxEdits
    /\ edits' = edits + 1
    /\ fit' = {}
    /\ UNCHANGED <<routing, silent, deaths>>

AddStop(s, place, sequence) ==
    /\ map.rows[s] = NoRow
    /\ map' = [map EXCEPT !.rows[s] = [sequence |-> sequence, optimized |-> 0, place |-> place]]
    /\ job' = Outdated /\ Edited /\ UNCHANGED started

UpdateStop(s, place, sequence) ==
    /\ map.rows[s] # NoRow /\ <<place, sequence>> # <<map.rows[s].place, map.rows[s].sequence>>
    /\ map' = [map EXCEPT !.rows[s].sequence = sequence, !.rows[s].place = place]
    /\ job' = Outdated /\ Edited /\ UNCHANGED started

DeleteStop(s) ==
    /\ map.rows[s] # NoRow
    /\ map' = [map EXCEPT !.rows[s] = NoRow]
    /\ job' = Outdated /\ Edited /\ UNCHANGED started

\* update_route, with another starting point or none.
SetOrigin(origin) ==
    /\ map.origin # origin
    /\ map' = [map EXCEPT !.origin = origin]
    /\ job' = Outdated /\ Edited /\ UNCHANGED started

\* The sequences a sheet gives.
SheetOrders == Bijection(MapStops, Positions)

\* An upload writes the sheet's sequence, then queues the map if the queue can be reached.
UploadRoutes(j, order) ==
    /\ map' = [map EXCEPT !.rows = [s \in MapStops |->
                 IF map.rows[s] = NoRow THEN NoRow ELSE [map.rows[s] EXCEPT !.sequence = order[s]]]]
    /\ Edited
    /\ \/ job' = Outdated /\ UNCHANGED started
       \/ /\ Free(j) /\ started' = started + 1
          /\ job' = [Outdated EXCEPT ![j] = [phase |-> "queued", kind |-> "import"]]

UpdateOperationalSettings ==
    /\ edits < MaxEdits
    /\ edits' = edits + 1
    /\ routing' = ~routing
    /\ UNCHANGED <<map, job, fit, silent, started, deaths>>

\* Variant: the map still shows the order before.
AfterApply_KeepingLine ==
    [map EXCEPT !.rows = [s \in MapStops |->
        [map.rows[s] EXCEPT !.sequence = map.rows[s].optimized]]]

AfterApply ==
    [map EXCEPT !.line = map.suggested,
                !.rows = [s \in MapStops |->
                    [map.rows[s] EXCEPT !.sequence = map.rows[s].optimized]]]

ApplyOptimizedSequence ==
    /\ Live(map.rows) # {} /\ \A s \in Live(map.rows) : map.rows[s].optimized # 0
    /\ map' = AfterApply
    /\ job' = Outdated
    /\ fit' = IF "suggested" \in fit THEN {"line", "suggested"} ELSE {}
    /\ UNCHANGED <<routing, silent, started, edits, deaths>>

-----------------------------------------------------------------------------

JobStep(j) == Enqueue(j) \/ LoadRoute(j) \/ EndAtOnce(j) \/ Finish(j) \/ Fail(j)

MapNext ==
    \/ \E j \in Jobs : RefreshRouteMap(j) \/ OptimizeSequence(j) \/ JobStep(j) \/ NotQueued(j) \/ Dies(j)
    \/ \E s \in MapStops, p \in Places, q \in Positions : AddStop(s, p, q) \/ UpdateStop(s, p, q)
    \/ \E s \in MapStops : DeleteStop(s)
    \/ \E o \in {"none", "known"} : SetOrigin(o)
    \/ \E j \in Jobs, order \in SheetOrders : UploadRoutes(j, order)
    \/ UpdateOperationalSettings
    \/ ApplyOptimizedSequence

\* The server and the worker go on; every request to the planner ends after 90 seconds.
MapFairness == \A j \in Jobs : WF_mapVars(JobStep(j))

-----------------------------------------------------------------------------

\* The line on the map visits the stops in their sequence, the suggested line visits them
\* in the suggested order, and the suggestion gives each stop a position of its own,
\* though jobs overlap and end in any order and any suggestion is applied, with the
\* exceptions the code leaves: after an edit of a stop until a job that loaded the edited
\* stops has drawn the line; again when a job that had loaded them before the edit replaces
\* it; and a suggestion is not vouched for when two jobs that overlap replaced columns of
\* it (route_through_stops, optimize_route, apply_optimized_sequence).
LinesFollowStops ==
    /\ "line" \in fit /\ map.line # NoLine
          => map.line = LineThrough(map.rows, Planned(map.rows))
    /\ "suggested" \in fit /\ map.suggested # NoLine
          => /\ {map.rows[s].optimized : s \in Live(map.rows)} = DOMAIN map.suggested
             /\ \A s \in Live(map.rows) :
                   map.suggested[map.rows[s].optimized] = <<s, map.rows[s].place>>

\* A map that is being worked on is finished or in error at last, though stops are deleted
\* meanwhile and jobs overwrite each other's columns, unless its task died or found nothing
\* to ask (refresh_route_map, refresh_route_map_task).
RefreshEnds == map.status = "processing" ~> map.status # "processing" \/ silent
=============================================================================
