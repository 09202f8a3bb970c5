----------------------------- MODULE RouteImports -----------------------------
(***************************************************************************)
(* Sheets uploaded for one load of one branch (modules/routes_import,       *)
(* services/jm_load_import.py, generic_route_import.py,                     *)
(* adimax_route_import.py, import_changes.py).  An upload that would        *)
(* overwrite stored values is refused with the number of changes and the     *)
(* first few; the user sends the same file again with an authorization, and  *)
(* everything is computed anew from what is stored by then.                  *)
(*                                                                         *)
(* A stop is known by its order number; one column (city) stands for those   *)
(* a sheet carries.  Nothing makes the load or the order unique in the       *)
(* database.  A commit writes the columns that the upload has changed.        *)
(***************************************************************************)
EXTENDS Integers, FiniteSets, Sequences, Functions

CONSTANTS
    RouteKeys,    \* ids of rows of routes
    MaxStops,     \* bound: rows of route_stops ever created
    OrderNumbers,       \* order numbers
    Cities,       \* values of the column
    Carriers,     \* carriers
    Files,        \* the sheets sent
    MaxShown,     \* changes that a refusal shows
    Clerks,       \* users who upload
    MaxUploads,   \* bound: files sent
    MaxCorrections      \* bound: stops edited or deleted otherwise

VARIABLES
    stored,    \* the rows of the load
    upload,    \* per clerk: the upload under way
    overlap,   \* history: an upload committed without having seen another's commit
    twice,     \* history: orders that one sheet stored as two stops
    uploads, corrections

importVars == <<stored, upload, overlap, twice, uploads, corrections>>

StopKeys == 1..MaxStops
NoOrder == "no order"
None == 0
NoStop == [route |-> None, order |-> NoOrder, city |-> "none"]
NoCarrier == "no carrier"
Idle == [phase |-> "idle"]

\* What the rows with one order number give, in their order.  Bound: at most two rows.
Values == {<<>>} \cup {<<city>> : city \in Cities} \cup {<<city, other>> : city, other \in Cities}

\* A sheet of one of three layouts: the values it gives for every order number;
\* whether it has a row without an order number, which the layout of JM leaves out (such a
\* stop is never found again); the carrier its first row names, if it is found; and the
\* carrier whose user sends it, if any, which then takes the place of the one named.
Sheets ==
    {sheet \in [rows: [OrderNumbers -> Values], loose: BOOLEAN, jm: BOOLEAN,
                carrier: Carriers \cup {NoCarrier}, own: Carriers \cup {NoCarrier}] :
        /\ sheet.jm => ~sheet.loose
        /\ sheet.own # NoCarrier => sheet.carrier \in {sheet.own, NoCarrier}}
LooseStop == [order |-> NoOrder, row |-> 1, city |-> CHOOSE city \in Cities : TRUE]

Present(db) == {s \in StopKeys : db.stops[s] # NoStop}
Changes == (StopKeys \cup {None}) \X Cities \X Cities   \* None: a stop of the same upload
AuditLog == SUBSET (Clerks \X Changes)

ImportTypeOK ==
    /\ stored.routes \subseteq RouteKeys /\ stored.carrier \in [RouteKeys -> Carriers \cup {NoCarrier}]
    /\ stored.stops \in [StopKeys -> [route: RouteKeys, order: OrderNumbers \cup {NoOrder}, city: Cities]
                                       \cup {NoStop}]
    /\ stored.audit \in AuditLog /\ stored.next \in 1..(MaxStops + 1)
    /\ \A c \in Clerks : upload[c] # Idle =>
          /\ upload[c].phase \in {"sent", "refused"} /\ upload[c].sheet \in Sheets
          /\ upload[c].confirmed \in BOOLEAN
          /\ upload[c].shown \subseteq upload[c].listed /\ upload[c].listed \subseteq Changes
          /\ upload[c].since \subseteq StopKeys /\ upload[c].missed \in BOOLEAN
    /\ overlap \in BOOLEAN /\ twice \subseteq OrderNumbers
    /\ uploads \in 0..MaxUploads /\ corrections \in 0..MaxCorrections

\* Nothing is stored, or the load with one of its orders.
ImportInit ==
    /\ \E carrier \in Carriers \cup {NoCarrier} :
          LET owned == [r \in RouteKeys |-> carrier] IN
          \/ stored = [routes |-> {}, stops |-> [s \in StopKeys |-> NoStop], next |-> 1, audit |-> {},
                       carrier |-> owned]
          \/ \E r \in RouteKeys, o \in OrderNumbers, city \in Cities :
                stored = [routes |-> {r}, next |-> 2, audit |-> {}, carrier |-> owned,
                          stops |-> [[t \in StopKeys |-> NoStop] EXCEPT
                                       ![1] = [route |-> r, order |-> o, city |-> city]]]
    /\ upload = [c \in Clerks |-> Idle]
    /\ overlap = FALSE /\ twice = {} /\ uploads = 0 /\ corrections = 0

-----------------------------------------------------------------------------
(* What an upload makes of the rows it reads                                   *)

\* The route of the load: whichever row the query returns first, or a new one.
RouteOf(db) == IF db.routes = {} THEN {None} ELSE db.routes

\* Variant: stops are not looked up.
Known_Nothing(db, r, o) == {}

\* The stops of the route with this order number.
Known(db, r, o) == {s \in Present(db) : db.stops[s].route = r /\ db.stops[s].order = o}

\* For every order of the sheet the stop that its rows overwrite; None for a new one.
Matches(db, r, sheet) ==
    {match \in [OrderNumbers -> StopKeys \cup {None}] :
        \A o \in OrderNumbers :
            IF sheet.rows[o] = <<>> \/ Known(db, r, o) = {} THEN match[o] = None
            ELSE match[o] \in Known(db, r, o)}

NewOrders(match, sheet) == {o \in OrderNumbers : sheet.rows[o] # <<>> /\ match[o] = None}

\* A row finds what was stored, or what the row before it has left.
Left(db, stop, values, i) ==
    IF i > 1 THEN values[i - 1] ELSE IF stop = None THEN values[1] ELSE db.stops[stop].city

\* collect_changes: the values that the rows replace.  The layout of JM makes a stop of
\* every row of a new order, where the others overwrite what they have just added.
Overwritten(db, match, sheet) ==
    UNION {{<<match[o], Left(db, match[o], sheet.rows[o], i), sheet.rows[o][i]>> :
               i \in {k \in DOMAIN sheet.rows[o] :
                         Left(db, match[o], sheet.rows[o], k) # sheet.rows[o][k]}} :
           o \in {k \in OrderNumbers : match[k] = None => ~sheet.jm}}

\* require_scoped_route: the user of a carrier may only send its own loads again.
Permitted(db, r, sheet) == sheet.own # NoCarrier /\ r # None => db.carrier[r] = sheet.own

-----------------------------------------------------------------------------

\* The rows are read and changed in memory; new rows get their ids from the database.
Read(c, sheet, confirmed, listed, shown, since) ==
    \E r \in RouteOf(stored) : \E match \in Matches(stored, r, sheet) :
        /\ Permitted(stored, r, sheet)
        /\ upload' = [upload EXCEPT ![c] =
            [phase |-> "sent", sheet |-> sheet, confirmed |-> confirmed, route |-> r,
             carrier |-> IF r = None THEN NoCarrier ELSE stored.carrier[r],
             match |-> match, changes |-> Overwritten(stored, match, sheet),
             listed |-> listed, shown |-> shown, since |-> since, missed |-> FALSE]]

\* upload_routes, for the first time.
Upload(c, sheet) ==
    /\ upload[c] = Idle /\ uploads < MaxUploads
    /\ sheet.loose \/ \E o \in OrderNumbers : sheet.rows[o] # <<>>
    /\ Read(c, sheet, FALSE, {}, {}, {})
    /\ uploads' = uploads + 1
    /\ UNCHANGED <<stored, overlap, twice, corrections>>

\* The same file with confirm_overwrite.
Confirm(c) ==
    /\ upload[c].phase = "refused"
    /\ Read(c, upload[c].sheet, TRUE, upload[c].listed, upload[c].shown, upload[c].since)
    /\ UNCHANGED <<stored, overlap, twice, uploads, corrections>>

GiveUp(c) ==
    /\ upload[c].phase = "refused"
    /\ upload' = [upload EXCEPT ![c] = Idle]
    /\ UNCHANGED <<stored, overlap, twice, uploads, corrections>>

\* authorize_changes: without the authorization nothing may be overwritten.
MustAsk(u) == u.changes # {} /\ ~u.confirmed

\* Everything is rolled back.  The answer tells how many changes there are and shows the
\* first of them.
Refuse(c) ==
    /\ upload[c].phase = "sent" /\ MustAsk(upload[c])
    /\ \E shown \in SUBSET upload[c].changes :
          /\ Cardinality(shown) <= MaxShown
          /\ Cardinality(upload[c].changes) <= MaxShown => shown = upload[c].changes
          /\ upload' = [upload EXCEPT ![c].phase = "refused", ![c].listed = upload[c].changes,
                                      ![c].shown = shown]
    /\ UNCHANGED <<stored, overlap, twice, uploads, corrections>>

\* The rows of a new order that make a stop: all of them, or the last for all.
NewRows(sheet, o) == IF sheet.jm THEN DOMAIN sheet.rows[o] ELSE {Len(sheet.rows[o])}

\* Rows with new ids: the stops of the orders not found and the row without an order.
Inserts(u) ==
    (IF u.sheet.loose THEN {LooseStop} ELSE {})
    \cup UNION {{[order |-> o, row |-> i, city |-> u.sheet.rows[o][i]] : i \in NewRows(u.sheet, o)} :
                   o \in NewOrders(u.match, u.sheet)}

\* The orders that this makes two stops of.
Doubled(u) == {o \in NewOrders(u.match, u.sheet) : u.sheet.jm /\ Len(u.sheet.rows[o]) > 1}

LastValue(u, s) ==
    LET values == u.sheet.rows[CHOOSE o \in OrderNumbers : u.match[o] = s] IN values[Len(values)]

\* Variant: every column of a matched stop is written.
CityAfter_Always(u, s, city) ==
    IF \E o \in OrderNumbers : u.match[o] = s THEN LastValue(u, s) ELSE city

CityAfter(u, s, city) ==
    IF \E change \in u.changes : change[1] = s THEN LastValue(u, s) ELSE city

Gone(u) == {change[1] : change \in u.changes} \ (Present(stored) \cup {None})

\* What is written counts as changed for those who wait; who has read has not seen it.
Noticed(c, by) ==
    LET written == {s \in StopKeys : stored'.stops[s] # stored.stops[s]}
    IN  [d \in Clerks |->
            CASE d = c                    -> Idle
              [] upload[d].phase = "idle" -> Idle
              [] OTHER -> [upload[d] EXCEPT !.since = @ \cup written,
                                            !.missed = @ \/ (by = "upload" /\ upload[d].phase = "sent")]]

\* The rows after it: those of `row' get ids that were never used.  The carrier of the
\* load becomes that of the sheet, which collect_changes does not see.
AfterUpload(db, c, u, r, row) ==
    [routes |-> db.routes \cup {r},
     carrier |-> IF u.route = None \/ u.sheet.carrier # u.carrier
                 THEN [db.carrier EXCEPT ![r] = u.sheet.carrier] ELSE db.carrier,
     next   |-> db.next + Cardinality(DOMAIN row),
     audit  |-> db.audit \cup ({c} \X u.changes),
     stops  |-> [s \in StopKeys |->
        CASE s \in DOMAIN row -> [route |-> r, order |-> row[s].order, city |-> row[s].city]
          [] s \in Present(db) -> [db.stops[s] EXCEPT !.city = CityAfter(u, s, @)]
          [] OTHER -> NoStop]]

CommitUpload(c) ==
    LET u == upload[c]
        ids == stored.next..(stored.next + Cardinality(Inserts(u)) - 1)
    IN  /\ u.phase = "sent" /\ ~MustAsk(u) /\ Gone(u) = {}
        /\ ids \subseteq StopKeys
        /\ \E r \in IF u.route = None THEN RouteKeys \ stored.routes ELSE {u.route},
              row \in Bijection(ids, Inserts(u)) : stored' = AfterUpload(stored, c, u, r, row)
        /\ upload' = Noticed(c, "upload")
        /\ overlap' = (overlap \/ u.missed)
        /\ twice' = twice \cup Doubled(u)
    /\ UNCHANGED <<uploads, corrections>>

\* A row to be overwritten was deleted: the request ends with an error.
FailUpload(c) ==
    /\ upload[c].phase = "sent" /\ ~MustAsk(upload[c]) /\ Gone(upload[c]) # {}
    /\ upload' = [upload EXCEPT ![c] = Idle]
    /\ UNCHANGED <<stored, overlap, twice, uploads, corrections>>

\* update_stop and delete_stop.
EditStop(s, row) ==
    /\ stored.stops[s] # NoStop /\ corrections < MaxCorrections /\ row # stored.stops[s]
    /\ row = NoStop \/ \E city \in Cities : row = [stored.stops[s] EXCEPT !.city = city]
    /\ stored' = [stored EXCEPT !.stops[s] = row]
    /\ upload' = Noticed(None, "edit")
    /\ corrections' = corrections + 1
    /\ UNCHANGED <<overlap, twice, uploads>>

ImportNext ==
    \/ \E c \in Clerks : Confirm(c) \/ GiveUp(c) \/ Refuse(c) \/ CommitUpload(c) \/ FailUpload(c)
    \/ \E c \in Clerks, sheet \in Files : Upload(c, sheet)
    \/ \E s \in StopKeys : \/ EditStop(s, NoStop)
                           \/ \E city \in Cities : EditStop(s, [stored.stops[s] EXCEPT !.city = city])

-----------------------------------------------------------------------------

\* A load has one route and an order number one stop, however often sheets are sent and
\* confirmed, unless an upload missed the commit of another; but a sheet of the layout of
\* JM that repeats an order not stored yet makes a stop of every row (import_jm_loads,
\* import_generic_routes, import_adimax_routes).
OnceUnlessOverlapped ==
    overlap \/ /\ Cardinality(stored.routes) <= 1
               /\ \A s, t \in Present(stored) :
                     stored.stops[s].order = stored.stops[t].order
                     /\ stored.stops[s].order \notin twice \cup {NoOrder}
                         => s = t

\* The changes of a stop that lead from one value to the other.
Tell(changes, s, from, to) ==
    \E first, last \in changes :
        first[1] = s /\ last[1] = s /\ first[2] = from /\ last[3] = to

\* An upload overwrites a value of a stop only with an authorization, and the audit tells
\* what it was replaced by; and what was replaced, unless others wrote the row since.  The
\* change was among those counted when the upload was refused, and was shown if they were
\* no more than a refusal shows, again unless others wrote the row since, or uploads that
\* missed each other or a sheet that repeats an order have left the stop twice.  An upload
\* that found nothing to overwrite overwrites no value, whatever was written meanwhile.
\* All this is true of the values of stops: the carrier of a load is replaced without
\* authorization, list and audit; only the upload of a carrier's own user never gives the
\* carrier a stored load (authorize_changes, collect_changes, apply_import_carrier).
Accounted(c, s) ==
    LET u == upload[c]
        old == stored.stops[s].city
        new == stored'.stops[s].city
        audited == {entry[2] : entry \in {e \in stored'.audit : e[1] = c}}
    IN  /\ u.confirmed
        /\ \E change \in audited : change[1] = s /\ change[3] = new
        /\ s \in u.since \/ Tell(audited, s, old, new)
        /\ \/ s \in u.since \/ overlap \/ stored.stops[s].order \in twice
           \/ /\ Tell(u.listed, s, old, new)
              /\ Cardinality(u.listed) <= MaxShown => Tell(u.shown, s, old, new)
OverwritesAccountedFor ==
    [][\A c \in Clerks : upload[c] # Idle /\ upload'[c] = Idle =>
          /\ \A s \in Present(stored) :
                stored'.stops[s].city # stored.stops[s].city => Accounted(c, s)
          /\ \A r \in stored.routes :
                stored'.carrier[r] # stored.carrier[r]
                    => upload[c].sheet.own = NoCarrier \/ stored'.carrier[r] = NoCarrier]_importVars
=============================================================================
