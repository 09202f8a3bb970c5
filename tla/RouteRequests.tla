----------------------------- MODULE RouteRequests -----------------------------
(***************************************************************************)
(* The requests of one route when several are served at once.  A request     *)
(* loads the route with its stops and checks its guards on what it loaded;    *)
(* later it asks the database for open occurrences; later still it commits,   *)
(* and only the columns it has changed are written.  There is no lock and no  *)
(* version: what the others have committed in between is not noticed.         *)
(*                                                                         *)
(* The handlers are those of RouteHandlers; only the way their effect reaches *)
(* the rows is new.  Considered are the requests of the road.                 *)
(***************************************************************************)
EXTENDS RouteHandlers

CONSTANTS
    Workers,       \* the server's worker threads
    MaxRequests,   \* bound: requests served
    Ops            \* the kinds of request considered

AllOps == {"start", "checkin", "success", "failure", "close", "reopen", "occurrence", "settle"}

ASSUME OpsAssumption == Ops \subseteq AllOps /\ MaxRequests \in Nat

NoOccurrence == "none"

VARIABLES
    db,       \* the committed rows
    work,     \* per worker: its request, what it read, what it is going to write
    served,   \* number of requests taken so far
    raced     \* history: <<op, other>>: a commit of op missed a commit of other

vars == <<db, work, served, raced>>

Idle == [pc |-> "idle"]

\* seen: the rows as the request knows them; missed: commits since it loaded them.
Request(pc, op, k, o, seen, after, missed) ==
    [pc |-> pc, op |-> op, stop |-> k, occ |-> o, seen |-> seen, after |-> after, missed |-> missed]

\* A route with its load on board, its stops served from the last id to the first,
\* none of which needs a proof.
Ready ==
    [PlannedRoute(MaxStops, [k \in StopIds |-> [seq |-> MaxStops + 1 - k, carga |-> TRUE]], TRUE)
        EXCEPT !.dock = {"arrival_cd_at"}, !.loadedPhoto = TRUE, !.emptyPhoto = TRUE]

Init ==
    /\ db \in {Ready, AfterRelease(Ready)}
    /\ work = [w \in Workers |-> Idle]
    /\ served = 0 /\ raced = {}

-----------------------------------------------------------------------------
(* One request *)

Can(d, op, k, o) ==
    CASE op = "start"      -> CanRelease(d)
      [] op = "checkin"    -> CanCheckin(d, k)
      [] op = "success"    -> CanDeliver(d, k)
      [] op = "failure"    -> o \in Occurrences /\ CanFail(d, k, o)
      [] op = "close"      -> CanClose(d)
      [] op = "reopen"     -> CanReopen(d)
      [] op = "occurrence" -> o \in Occurrences /\ CanCreateOccurrence(d, o)
      [] op = "settle"     -> o \in Occurrences /\ CanUpdateOccurrence(d, o, "cancelada")

After(d, op, k, o) ==
    CASE op = "start"      -> AfterRelease(d)
      [] op = "checkin"    -> AfterCheckin(d, k)
      [] op = "success"    -> AfterSuccess(d, k, FALSE)
      [] op = "failure"    -> AfterFailure(d, k, FALSE, o)
      [] op = "close"      -> AfterClose(d)
      [] op = "reopen"     -> AfterReopen(d)
      [] op = "occurrence" -> AfterCreateOccurrence(d, o)
      [] op = "settle"     -> AfterUpdateOccurrence(d, o, "cancelada")

\* New occurrences get ids of their own from the database.
Unused(o) == \A w \in Workers : work[w].pc # "idle" => work[w].occ # o

\* _load and the guards: an error answer leaves nothing behind.
Load(w, op, k, o) ==
    /\ work[w].pc = "idle" /\ served < MaxRequests
    /\ op \in {"start", "close", "reopen", "occurrence", "settle"} => k = 1
    /\ op \in {"start", "checkin", "success", "close", "reopen"} <=> o = NoOccurrence
    /\ op \in {"failure", "occurrence"} => Unused(o)
    /\ Can(db, op, k, o)
    /\ work' = [work EXCEPT ![w] = Request("loaded", op, k, o, db, db, {})]
    /\ served' = served + 1
    /\ UNCHANGED <<db, raced>>

\* The rows stay as loaded (the session returns the objects it holds), the
\* occurrences are those of this moment; an occurrence to settle is its own row.
Seen(r) == IF r.op = "settle" THEN r.seen ELSE [r.seen EXCEPT !.occ = db.occ]

Decide(w) ==
    /\ work[w].pc = "loaded"
    /\ LET r == work[w]
       IN  work' = [work EXCEPT ![w] = [r EXCEPT !.pc = "decided", !.seen = Seen(r),
                                                 !.after = After(Seen(r), r.op, r.stop, r.occ)]]
    /\ UNCHANGED <<db, served, raced>>

-----------------------------------------------------------------------------
(* The commit: UPDATE of the changed columns, INSERT of the new events         *)

Written(old, new, current) == IF new = old THEN current ELSE new
Inserted(old, new, current) ==
    IF new = old THEN current ELSE IF new < old THEN new ELSE Tick(current)

\* Variant: the request writes back every column of the stop as it loaded it.
MergedRow_WholeRow(old, new, current) == new

MergedRow(old, new, current) ==
    [current EXCEPT
        !.status = Written(old.status, new.status, @),
        !.checkin = Written(old.checkin, new.checkin, @),
        !.delivered = Written(old.delivered, new.delivered, @),
        !.reason = Written(old.reason, new.reason, @),
        !.travelled = Written(old.travelled, new.travelled, @),
        !.arrivals = Inserted(old.arrivals, new.arrivals, @),
        !.outcomes = Inserted(old.outcomes, new.outcomes, @)]

Merged(old, new, current) ==
    [current EXCEPT
        !.status = Written(old.status, new.status, @),
        !.dock = (@ \cup (new.dock \ old.dock)) \ (old.dock \ new.dock),
        !.departed = Written(old.departed, new.departed, @),
        !.closedAt = Written(old.closedAt, new.closedAt, @),
        !.stops = [k \in StopIds |-> MergedRow(old.stops[k], new.stops[k], current.stops[k])],
        !.occ = [o \in Occurrences |-> Written(old.occ[o], new.occ[o], current.occ[o])],
        !.closings = Inserted(old.closings, new.closings, @)]

Commit(w) ==
    /\ work[w].pc = "decided"
    /\ LET r == work[w]
       IN  /\ db' = Merged(r.seen, r.after, db)
           /\ raced' = raced \cup {<<r.op, m>> : m \in r.missed}
           /\ work' = [v \in Workers |->
                 CASE v = w                -> Idle
                   [] work[v].pc = "idle"  -> Idle
                   [] OTHER                -> [work[v] EXCEPT !.missed = @ \cup {r.op}]]
    /\ UNCHANGED served

Next ==
    \/ \E w \in Workers, op \in Ops, k \in StopIds, o \in Occurrences \cup {NoOccurrence} :
          Load(w, op, k, o)
    \/ \E w \in Workers : Decide(w)
    \/ \E w \in Workers : Commit(w)

Spec == Init /\ [][Next]_vars

-----------------------------------------------------------------------------
(* What survives any overlap                                                  *)

Lifecycle ==
    INSTANCE RouteLifecycle WITH
        db <- db, overrides <- {}, Seqs <- {1}, RouteCorrections <- {},
        StopCorrections <- {}, Interventions <- {}

Ledger ==
    INSTANCE StopLedger WITH
        StopKeys <- StopIds, departed <- db.departed,
        arrived <- {k \in StopIds : db.stops[k].checkin},
        delivered <- {k \in StopIds : db.stops[k].delivered},
        arrivals <- [k \in StopIds |-> db.stops[k].arrivals],
        outcomes <- [k \in StopIds |-> db.stops[k].outcomes]

TypeOK ==
    /\ db \in Db
    /\ \A w \in Workers : work[w].pc # "idle" =>
          /\ work[w].pc \in {"loaded", "decided"} /\ work[w].op \in Ops
          /\ work[w].seen \in Db /\ work[w].after \in Db
    /\ served \in 0..MaxRequests
    /\ raced \subseteq Ops \X Ops

\* However the requests overlap, the rows keep the promises of StopLedger: no
\* arrival or outcome without its event, none before the departure, and no
\* arrival or delivery time is ever taken back (commits write changed columns
\* only; events are inserted, never rewritten).
LedgerKept == Ledger!Spec

-----------------------------------------------------------------------------
(* What an overlap can break, and which overlaps                              *)

Outcomes == {"success", "failure"}

\* The requests that write columns of stops.
StopWriters == {"start", "checkin", "occurrence"} \cup Outcomes

\* A commit of one of ops missed a commit of one of the others.
Overran(ops, others) == \E p \in raced : p[1] \in ops /\ p[2] \in others

\* The columns of a stop are torn (an outcome with the status of a leg, a
\* failure with a delivery time) only by a request that writes stops and missed
\* an outcome, or by an arrival and an occurrence that missed each other.
\* Requests that close, reopen or settle never tear them, nor do two departures.
RowsTornOnlyByOverlap ==
    \/ Overran(StopWriters, Outcomes)
    \/ raced \cap {<<"checkin", "occurrence">>, <<"occurrence", "checkin">>} # {}
    \/ Lifecycle!OutcomeConsistent

\* The timeline has one event too many only after a stop's request missed an
\* outcome, an arrival or an outcome missed an arrival, or a close (or, on a route
\* without stops, a departure) missed a close; what reopens the route or settles
\* an occurrence does no harm.
LedgerDoubledOnlyByOverlap ==
    \/ Overran(StopWriters, Outcomes)
    \/ Overran({"checkin"} \cup Outcomes, {"checkin"})
    \/ Overran({"start", "close"}, {"close"})
    \/ Lifecycle!EventsAgree

\* A finished route has an open stop only when a request that writes stops
\* missed an outcome: the guards of close themselves never become stale, because
\* nothing else opens an ended stop again, even when it overlaps the close.
FinishedIncompleteOnlyByOverlap ==
    Overran(StopWriters, Outcomes) \/ Lifecycle!FinishedIsComplete

\* A leg starts under an open occurrence only when the departure or the delivery
\* that starts it missed the registration of that occurrence; the open
\* occurrences are asked for late in the request, but not at the commit.
LegUnderOccurrence ==
    (\E k \in StopIds : Travelling(db, k)' /\ ~Travelling(db, k)) /\ Halted(db)'
        => \E p \in raced' : p[1] \in {"start", "success"} /\ p[2] \in {"occurrence", "failure"}
LegUnderOccurrenceOnlyByOverlap == [][LegUnderOccurrence]_vars

=============================================================================
