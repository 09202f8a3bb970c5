--------------------------- MODULE RouteSheets_proofs ---------------------------
(***************************************************************************)
(* The two parts of MCRouteSheets, for every value of the constants: the      *)
(* sheets uploaded for a load (RouteImports) and the maps of a route           *)
(* (RouteMaps).  Neither writes a row of the other.                            *)
(***************************************************************************)
EXTENDS MCRouteSheets, Sequences, FiniteSetTheorems, TLAPS

(***************************************************************************)
(* RouteImports.  What an upload has read is as old as its reading.  As long  *)
(* as it has not missed the commit of another, the route and the orders it    *)
(* is going to insert are still not there; and whatever was written since the *)
(* list of changes was made is remembered in `since', so that the rest of     *)
(* the rows are still those that the list was made from.                      *)
(***************************************************************************)
StopRow == [route: RouteKeys, order: OrderNumbers \cup {Sheets!NoOrder}, city: Cities] \cup {Sheets!NoStop}
Owners == Carriers \cup {Sheets!NoCarrier}
Store == [routes: SUBSET RouteKeys, carrier: [RouteKeys -> Owners], stops: [Sheets!StopKeys -> StopRow],
          next: Nat \ {0}, audit: SUBSET (Clerks \X Sheets!Changes)]
SentFile ==
    [phase: {"sent", "refused"}, sheet: Sheets!Sheets, confirmed: BOOLEAN,
     route: RouteKeys \cup {Sheets!None}, carrier: Owners,
     match: [OrderNumbers -> Sheets!StopKeys \cup {Sheets!None}],
     changes: SUBSET Sheets!Changes, listed: SUBSET Sheets!Changes, shown: SUBSET Sheets!Changes,
     since: SUBSET Sheets!StopKeys, missed: BOOLEAN]

\* Rows belong to routes that exist, and ids were handed out in order.
StoreSound(db) ==
    \A s \in Sheets!Present(db) : db.stops[s].route \in db.routes /\ s < db.next

\* One route, and one stop for each order number that no sheet has given twice.
Once(db, doubled) ==
    /\ \A r, q \in db.routes : r = q
    /\ \A s, t \in Sheets!Present(db) :
          db.stops[s].order = db.stops[t].order /\ db.stops[s].order \notin doubled \cup {Sheets!NoOrder}
              => s = t

\* What is about to be inserted is not there yet.
StillNew(u, db) ==
    /\ IF u.route = Sheets!None THEN db.routes = {} ELSE u.route \in db.routes
    /\ \A o \in Sheets!NewOrders(u.match, u.sheet), s \in Sheets!Present(db) :
          db.stops[s].route = u.route => db.stops[s].order # o

\* A row to be overwritten is as it was read, or was written since; and the changes lead
\* to what the sheet says last.
StillRead(u, db) ==
    \A change \in u.changes :
        change[1] # Sheets!None =>
            /\ \/ change[1] \in u.since
               \/ /\ db.stops[change[1]].order \in OrderNumbers
                  /\ \E first \in u.changes :
                        first[1] = change[1] /\ first[2] = db.stops[change[1]].city
            /\ \E last \in u.changes :
                  last[1] = change[1] /\ last[3] = Sheets!LastValue(u, change[1])

\* What a sheet changes in a stop of the order it gives.
Given(db, sheet, s) ==
    {<<s, Sheets!Left(db, s, sheet.rows[db.stops[s].order], i), sheet.rows[db.stops[s].order][i]>> :
        i \in {k \in DOMAIN sheet.rows[db.stops[s].order] :
                  Sheets!Left(db, s, sheet.rows[db.stops[s].order], k) # sheet.rows[db.stops[s].order][k]}}

\* The rows that are neither written since nor there twice.
Plain(u, db, doubled) ==
    {s \in Sheets!Present(db) \ u.since : db.stops[s].order \in OrderNumbers \ doubled}

\* What the sheet says of them is on the list of changes.
Listed(u, db, doubled, changes) ==
    \A s \in Plain(u, db, doubled) : Given(db, u.sheet, s) \subseteq changes

\* A confirmed change of them was on the list when the upload was refused.
WasListed(u, db, doubled) ==
    \A change \in u.changes : change[1] \in Plain(u, db, doubled) => change \in u.listed

\* A short list was shown as a whole.
ShortShown(u) == Cardinality(u.listed) <= MaxShown => u.shown = u.listed

\* The user of a carrier sends the load of the carrier.
OwnLoad(u) ==
    u.sheet.own # Sheets!NoCarrier /\ u.route # Sheets!None => u.carrier = u.sheet.own

UploadSound(u, db, overlapped, doubled) ==
    /\ ShortShown(u)
    /\ u.phase = "refused" => ~u.confirmed
    /\ u.phase = "sent" /\ ~u.missed => StillNew(u, db)
    /\ u.phase = "sent" => StillRead(u, db) /\ OwnLoad(u)
    /\ u.phase = "sent" /\ u.confirmed /\ ~overlapped => WasListed(u, db, doubled)
    /\ ~u.confirmed /\ ~overlapped
          => Listed(u, db, doubled, IF u.phase = "refused" THEN u.listed ELSE u.changes)

Sending(c) == upload[c] # Sheets!Idle
ImportsTyped ==
    /\ stored \in Store /\ overlap \in BOOLEAN /\ twice \subseteq OrderNumbers
    /\ upload = [c \in Clerks |-> upload[c]]
    /\ \A c \in Clerks : Sending(c) => upload[c] \in SentFile
ImportsSound ==
    /\ ImportsTyped /\ StoreSound(stored)
    /\ ~overlap => Once(stored, twice)
    /\ \A c \in Clerks : Sending(c) => UploadSound(upload[c], stored, overlap, twice)

\* The operators of FiniteSets are the same in an instance of a module that extends it.
LEMMA SheetsCardinality == \A S : Sheets!Cardinality(S) = Cardinality(S)
BY DEF Sheets!Cardinality, Cardinality

LEMMA ImportConstants ==
    /\ Sheets!None \notin RouteKeys /\ Sheets!None \notin Sheets!StopKeys /\ Sheets!None \notin Clerks
    /\ Sheets!NoOrder \notin OrderNumbers
<1>1. Sheets!None \notin Sheets!StopKeys
  BY SheetsAssumption DEF Sheets!None, Sheets!StopKeys
<1> QED BY <1>1, SheetsAssumption

LEMMA ImportsInit == Sheets!ImportInit => ImportsSound
<1> SUFFICES ASSUME Sheets!ImportInit PROVE ImportsSound
  OBVIOUS
<1>1. PICK owned \in [RouteKeys -> Owners] :
          \/ stored = [routes |-> {}, stops |-> [s \in Sheets!StopKeys |-> Sheets!NoStop], next |-> 1,
                       audit |-> {}, carrier |-> owned]
          \/ \E r \in RouteKeys, o \in OrderNumbers, city \in Cities :
                stored = [routes |-> {r}, next |-> 2, audit |-> {}, carrier |-> owned,
                          stops |-> [[t \in Sheets!StopKeys |-> Sheets!NoStop] EXCEPT
                                       ![1] = [route |-> r, order |-> o, city |-> city]]]
  <2>1. PICK carrier \in Owners :
          LET owned == [r \in RouteKeys |-> carrier] IN
          \/ stored = [routes |-> {}, stops |-> [s \in Sheets!StopKeys |-> Sheets!NoStop], next |-> 1,
                       audit |-> {}, carrier |-> owned]
          \/ \E r \in RouteKeys, o \in OrderNumbers, city \in Cities :
                stored = [routes |-> {r}, next |-> 2, audit |-> {}, carrier |-> owned,
                          stops |-> [[t \in Sheets!StopKeys |-> Sheets!NoStop] EXCEPT
                                       ![1] = [route |-> r, order |-> o, city |-> city]]]
    BY DEF Sheets!ImportInit, Owners
  <2> QED BY <2>1
<1>3. stored \in Store /\ StoreSound(stored) /\ Once(stored, {})
  <2>1. CASE stored = [routes |-> {}, stops |-> [s \in Sheets!StopKeys |-> Sheets!NoStop], next |-> 1,
                       audit |-> {}, carrier |-> owned]
    BY <2>1 DEF Store, StoreSound, Once, StopRow, Sheets!Present
  <2>2. ASSUME NEW r \in RouteKeys, NEW o \in OrderNumbers, NEW city \in Cities,
               stored = [routes |-> {r}, next |-> 2, audit |-> {}, carrier |-> owned,
                         stops |-> [[t \in Sheets!StopKeys |-> Sheets!NoStop] EXCEPT
                                      ![1] = [route |-> r, order |-> o, city |-> city]]]
        PROVE  stored \in Store /\ StoreSound(stored) /\ Once(stored, {})
    <3>1. /\ stored.routes = {r} /\ stored.next = 2
          /\ \A s \in Sheets!StopKeys :
                stored.stops[s] = IF s = 1 THEN [route |-> r, order |-> o, city |-> city] ELSE Sheets!NoStop
      BY <2>2
    <3>2. stored \in Store
      <4>1. [route |-> r, order |-> o, city |-> city] \in StopRow /\ Sheets!NoStop \in StopRow
        BY DEF StopRow
      <4>2. [[t \in Sheets!StopKeys |-> Sheets!NoStop] EXCEPT
               ![1] = [route |-> r, order |-> o, city |-> city]] \in [Sheets!StopKeys -> StopRow]
        BY <4>1
      <4> QED BY <2>2, <4>2 DEF Store
    <3>3. \A s \in Sheets!Present(stored) : s = 1
      BY <3>1 DEF Sheets!Present
    <3>4. \A s \in Sheets!Present(stored) : stored.stops[s].route = r
      BY <3>1 DEF Sheets!Present
    <3> QED BY <3>1, <3>2, <3>3, <3>4 DEF StoreSound, Once
  <2> QED BY <1>1, <2>1, <2>2
<1>4. (\A c \in Clerks : ~Sending(c)) /\ twice = {} /\ overlap = FALSE
      /\ upload = [c \in Clerks |-> upload[c]]
  BY DEF Sheets!ImportInit, Sending
<1> QED BY <1>3, <1>4 DEF ImportsSound, ImportsTyped

\* An order number is given by no row, by one or by two.
LEMMA RowsGiven ==
    ASSUME NEW values \in Sheets!Values
    PROVE  \/ values = <<>> /\ DOMAIN values = {}
           \/ DOMAIN values = {1} /\ Len(values) = 1 /\ values[1] \in Cities /\ values # <<>>
           \/ /\ DOMAIN values = {1, 2} /\ Len(values) = 2 /\ values # <<>>
              /\ values[1] \in Cities /\ values[2] \in Cities
<1>1. CASE values = <<>>
  BY <1>1
<1>2. ASSUME NEW city \in Cities, values = <<city>>
      PROVE  DOMAIN values = {1} /\ Len(values) = 1 /\ values[1] \in Cities /\ values # <<>>
  BY <1>2
<1>3. ASSUME NEW city \in Cities, NEW other \in Cities, values = <<city, other>>
      PROVE  /\ DOMAIN values = {1, 2} /\ Len(values) = 2 /\ values # <<>>
             /\ values[1] \in Cities /\ values[2] \in Cities
  BY <1>3
<1> QED BY <1>1, <1>2, <1>3 DEF Sheets!Values

\* If rows change a stop at all, then one changes what was stored, and one leaves what the
\* last says.
LEMMA StepsOfRows ==
    ASSUME NEW db, NEW stop, stop # Sheets!None, NEW values \in Sheets!Values, NEW i \in DOMAIN values,
           Sheets!Left(db, stop, values, i) # values[i]
    PROVE  /\ \E first \in DOMAIN values :
                 /\ Sheets!Left(db, stop, values, first) # values[first]
                 /\ Sheets!Left(db, stop, values, first) = db.stops[stop].city
           /\ \E last \in DOMAIN values :
                 /\ Sheets!Left(db, stop, values, last) # values[last]
                 /\ values[last] = values[Len(values)]
<1>1. CASE DOMAIN values = {1} /\ Len(values) = 1
  BY <1>1 DEF Sheets!Left
<1>2. CASE DOMAIN values = {1, 2} /\ Len(values) = 2
  <2>1. /\ Sheets!Left(db, stop, values, 1) = db.stops[stop].city
        /\ Sheets!Left(db, stop, values, 2) = values[1]
    BY DEF Sheets!Left
  <2>2. CASE values[1] # db.stops[stop].city /\ values[1] # values[2]
    BY <1>2, <2>1, <2>2
  <2>3. CASE values[1] # db.stops[stop].city /\ values[1] = values[2]
    BY <1>2, <2>1, <2>3
  <2>4. CASE values[1] = db.stops[stop].city
    BY <1>2, <2>1, <2>4
  <2> QED BY <2>2, <2>3, <2>4
<1> QED BY <1>1, <1>2, RowsGiven

\* What rows find is a value.
LEMMA LeftTyped ==
    ASSUME NEW db, NEW stop, stop # Sheets!None => db.stops[stop].city \in Cities,
           NEW values \in Sheets!Values, NEW i \in DOMAIN values
    PROVE  Sheets!Left(db, stop, values, i) \in Cities /\ values[i] \in Cities
BY RowsGiven DEF Sheets!Left

\* What a reading finds.
LEMMA ReadingSound ==
    ASSUME NEW db \in Store, StoreSound(db), NEW doubled \in SUBSET OrderNumbers, NEW sheet \in Sheets!Sheets,
           NEW r \in Sheets!RouteOf(db), NEW match \in Sheets!Matches(db, r, sheet),
           Sheets!Permitted(db, r, sheet),
           NEW since \in SUBSET Sheets!StopKeys, NEW shown \in SUBSET Sheets!Changes,
           NEW listed \in SUBSET Sheets!Changes, NEW confirmed \in BOOLEAN,
           NEW u, u = [phase |-> "sent", sheet |-> sheet, confirmed |-> confirmed, route |-> r,
                       carrier |-> IF r = Sheets!None THEN Sheets!NoCarrier ELSE db.carrier[r],
                       match |-> match, changes |-> Sheets!Overwritten(db, match, sheet),
                       listed |-> listed, shown |-> shown, since |-> since, missed |-> FALSE]
    PROVE  /\ u \in SentFile /\ u.phase = "sent" /\ u.confirmed = confirmed
           /\ StillNew(u, db) /\ StillRead(u, db) /\ OwnLoad(u)
           /\ Once(db, doubled) => Listed(u, db, doubled, u.changes)
           /\ \A change \in u.changes : change[1] # Sheets!None =>
                 change \in Given(db, sheet, change[1])
<1>0. /\ Sheets!None \notin RouteKeys /\ Sheets!None \notin Sheets!StopKeys
      /\ Sheets!NoOrder \notin OrderNumbers
  BY ImportConstants
<1>1. /\ match \in [OrderNumbers -> Sheets!StopKeys \cup {Sheets!None}]
      /\ \A o \in OrderNumbers :
            IF sheet.rows[o] = <<>> \/ Sheets!Known(db, r, o) = {} THEN match[o] = Sheets!None
            ELSE match[o] \in Sheets!Known(db, r, o)
  BY DEF Sheets!Matches
<1>2. \A s \in Sheets!StopKeys : db.stops[s] \in StopRow
  BY DEF Store
<1>3. \A s \in Sheets!Present(db) :
         s \in Sheets!StopKeys /\ db.stops[s].city \in Cities /\ db.stops[s].route \in db.routes
  BY <1>2 DEF StoreSound, Sheets!Present, StopRow
<1>4. ASSUME NEW o \in OrderNumbers, match[o] # Sheets!None
      PROVE  /\ sheet.rows[o] # <<>> /\ match[o] \in Sheets!Present(db)
             /\ db.stops[match[o]].route = r /\ db.stops[match[o]].order = o
             /\ db.stops[match[o]].city \in Cities
  BY <1>1, <1>3, <1>4 DEF Sheets!Known
<1>5. \A o \in OrderNumbers : sheet.rows[o] \in Sheets!Values
  BY DEF Sheets!Sheets
<1>6. ASSUME NEW change \in Sheets!Overwritten(db, match, sheet)
      PROVE  \E o \in OrderNumbers : \E i \in DOMAIN sheet.rows[o] :
                /\ Sheets!Left(db, match[o], sheet.rows[o], i) # sheet.rows[o][i]
                /\ change = <<match[o], Sheets!Left(db, match[o], sheet.rows[o], i), sheet.rows[o][i]>>
  BY DEF Sheets!Overwritten
<1>7. ASSUME NEW o \in OrderNumbers, match[o] # Sheets!None, NEW i \in DOMAIN sheet.rows[o],
             Sheets!Left(db, match[o], sheet.rows[o], i) # sheet.rows[o][i]
      PROVE  <<match[o], Sheets!Left(db, match[o], sheet.rows[o], i), sheet.rows[o][i]>>
                \in Sheets!Overwritten(db, match, sheet)
  BY <1>7 DEF Sheets!Overwritten
<1>8. Sheets!Overwritten(db, match, sheet) \in SUBSET Sheets!Changes
  <2> SUFFICES ASSUME NEW change \in Sheets!Overwritten(db, match, sheet) PROVE change \in Sheets!Changes
    OBVIOUS
  <2>0. PICK o \in OrderNumbers : \E i \in DOMAIN sheet.rows[o] :
           change = <<match[o], Sheets!Left(db, match[o], sheet.rows[o], i), sheet.rows[o][i]>>
    BY <1>6
  <2>1. PICK i \in DOMAIN sheet.rows[o] :
           change = <<match[o], Sheets!Left(db, match[o], sheet.rows[o], i), sheet.rows[o][i]>>
    BY <2>0
  <2>2. match[o] # Sheets!None => db.stops[match[o]].city \in Cities
    BY <1>4
  <2>3. Sheets!Left(db, match[o], sheet.rows[o], i) \in Cities /\ sheet.rows[o][i] \in Cities
    BY <1>5, <2>2, LeftTyped
  <2> QED BY <1>1, <2>1, <2>3 DEF Sheets!Changes
<1>9. r \in RouteKeys \cup {Sheets!None}
  BY DEF Sheets!RouteOf, Store
<1>10. u \in SentFile
  <2>1. (IF r = Sheets!None THEN Sheets!NoCarrier ELSE db.carrier[r]) \in Owners
    BY <1>9 DEF Owners, Store
  <2> QED BY <1>1, <1>8, <1>9, <2>1 DEF SentFile
<1>11. StillNew(u, db)
  <2>1. IF r = Sheets!None THEN db.routes = {} ELSE r \in db.routes
    BY <1>0 DEF Sheets!RouteOf, Store
  <2>2. ASSUME NEW o \in Sheets!NewOrders(match, sheet), NEW s \in Sheets!Present(db), db.stops[s].route = r,
               db.stops[s].order = o
        PROVE  FALSE
    <3>1. s \in Sheets!Known(db, r, o)
      BY <2>2 DEF Sheets!Known
    <3>2. o \in OrderNumbers /\ sheet.rows[o] # <<>> /\ match[o] = Sheets!None
      BY DEF Sheets!NewOrders
    <3>3. match[o] \in Sheets!Known(db, r, o)
      BY <1>1, <3>1, <3>2
    <3>4. Sheets!Known(db, r, o) \subseteq Sheets!StopKeys
      BY DEF Sheets!Known, Sheets!Present
    <3> QED BY <1>0, <3>2, <3>3, <3>4
  <2> QED BY <2>1, <2>2 DEF StillNew
<1>12. StillRead(u, db)
  <2> SUFFICES ASSUME NEW change \in Sheets!Overwritten(db, match, sheet), change[1] # Sheets!None
               PROVE  /\ db.stops[change[1]].order \in OrderNumbers
                      /\ \E first \in Sheets!Overwritten(db, match, sheet) :
                            first[1] = change[1] /\ first[2] = db.stops[change[1]].city
                      /\ \E last \in Sheets!Overwritten(db, match, sheet) :
                            last[1] = change[1] /\ last[3] = Sheets!LastValue(u, change[1])
    BY DEF StillRead
  <2>0. PICK o \in OrderNumbers : \E i \in DOMAIN sheet.rows[o] :
                /\ Sheets!Left(db, match[o], sheet.rows[o], i) # sheet.rows[o][i]
                /\ change = <<match[o], Sheets!Left(db, match[o], sheet.rows[o], i), sheet.rows[o][i]>>
    BY <1>6
  <2>1. PICK i \in DOMAIN sheet.rows[o] :
                /\ Sheets!Left(db, match[o], sheet.rows[o], i) # sheet.rows[o][i]
                /\ change = <<match[o], Sheets!Left(db, match[o], sheet.rows[o], i), sheet.rows[o][i]>>
    BY <2>0
  <2>2. match[o] = change[1] /\ match[o] # Sheets!None
    BY <2>1
  <2>a. /\ \E first \in DOMAIN sheet.rows[o] :
              /\ Sheets!Left(db, match[o], sheet.rows[o], first) # sheet.rows[o][first]
              /\ Sheets!Left(db, match[o], sheet.rows[o], first) = db.stops[match[o]].city
        /\ \E last \in DOMAIN sheet.rows[o] :
              /\ Sheets!Left(db, match[o], sheet.rows[o], last) # sheet.rows[o][last]
              /\ sheet.rows[o][last] = sheet.rows[o][Len(sheet.rows[o])]
    <3>1. PICK stop, values : stop = match[o] /\ values = sheet.rows[o]
      OBVIOUS
    <3>2. /\ stop # Sheets!None /\ values \in Sheets!Values /\ i \in DOMAIN values
          /\ Sheets!Left(db, stop, values, i) # values[i]
      BY <1>5, <2>1, <2>2, <3>1
    <3>3. /\ \E first \in DOMAIN values :
                /\ Sheets!Left(db, stop, values, first) # values[first]
                /\ Sheets!Left(db, stop, values, first) = db.stops[stop].city
          /\ \E last \in DOMAIN values :
                /\ Sheets!Left(db, stop, values, last) # values[last]
                /\ values[last] = values[Len(values)]
      BY <3>2, StepsOfRows
    <3> QED BY <3>1, <3>3
  <2>3. PICK first \in DOMAIN sheet.rows[o] :
           /\ Sheets!Left(db, match[o], sheet.rows[o], first) # sheet.rows[o][first]
           /\ Sheets!Left(db, match[o], sheet.rows[o], first) = db.stops[match[o]].city
    BY <2>a
  <2>4. PICK last \in DOMAIN sheet.rows[o] :
           /\ Sheets!Left(db, match[o], sheet.rows[o], last) # sheet.rows[o][last]
           /\ sheet.rows[o][last] = sheet.rows[o][Len(sheet.rows[o])]
    BY <2>a
  <2>5. \A k \in OrderNumbers : match[k] = change[1] => k = o
    BY <1>4, <2>2
  <2>6. (CHOOSE k \in OrderNumbers : match[k] = change[1]) = o
    BY <2>2, <2>5
  <2>7. Sheets!LastValue(u, change[1]) = sheet.rows[o][Len(sheet.rows[o])]
    <3>1. u.match = match /\ u.sheet = sheet
      OBVIOUS
    <3>2. (CHOOSE k \in OrderNumbers : u.match[k] = change[1]) = o
      BY <2>6, <3>1
    <3> QED BY <3>1, <3>2 DEF Sheets!LastValue
  <2>8. /\ <<match[o], Sheets!Left(db, match[o], sheet.rows[o], first), sheet.rows[o][first]>>
              \in Sheets!Overwritten(db, match, sheet)
        /\ <<match[o], Sheets!Left(db, match[o], sheet.rows[o], last), sheet.rows[o][last]>>
              \in Sheets!Overwritten(db, match, sheet)
    BY <1>7, <2>2, <2>3, <2>4
  <2> QED BY <1>4, <2>2, <2>3, <2>4, <2>7, <2>8
<1>13. ASSUME Once(db, doubled) PROVE Listed(u, db, doubled, u.changes)
  <2> SUFFICES ASSUME NEW s \in Sheets!Present(db), db.stops[s].order \in OrderNumbers \ doubled
               PROVE  Given(db, sheet, s) \subseteq Sheets!Overwritten(db, match, sheet)
    BY DEF Listed, Plain
  <2> SUFFICES ASSUME NEW i \in DOMAIN sheet.rows[db.stops[s].order],
                      Sheets!Left(db, s, sheet.rows[db.stops[s].order], i) # sheet.rows[db.stops[s].order][i]
               PROVE  <<s, Sheets!Left(db, s, sheet.rows[db.stops[s].order], i), sheet.rows[db.stops[s].order][i]>>
                         \in Sheets!Overwritten(db, match, sheet)
    BY DEF Given
  <2>0. PICK o \in OrderNumbers : o = db.stops[s].order /\ o # Sheets!NoOrder /\ o \notin doubled
    BY <1>0
  <2>1. db.stops[s].route = r
    <3>1. db.stops[s].route \in db.routes
      BY <1>3
    <3>2. r \in db.routes
      BY <3>1 DEF Sheets!RouteOf
    <3> QED BY <1>13, <3>1, <3>2 DEF Once
  <2>2. s \in Sheets!Known(db, r, o)
    BY <2>0, <2>1 DEF Sheets!Known
  <2>3. match[o] \in Sheets!Known(db, r, o)
    <3>1. sheet.rows[o] # <<>>
      BY <1>5, <2>0, RowsGiven
    <3> QED BY <1>1, <2>2, <3>1
  <2>4. match[o] = s
    BY <1>13, <2>0, <2>2, <2>3 DEF Once, Sheets!Known
  <2>5. s # Sheets!None
    BY <1>0, <1>3
  <2> QED BY <1>7, <2>0, <2>4, <2>5
<1>14. ASSUME NEW change \in u.changes, change[1] # Sheets!None
       PROVE  change \in Given(db, sheet, change[1])
  <2>0. PICK o \in OrderNumbers : \E i \in DOMAIN sheet.rows[o] :
                /\ Sheets!Left(db, match[o], sheet.rows[o], i) # sheet.rows[o][i]
                /\ change = <<match[o], Sheets!Left(db, match[o], sheet.rows[o], i), sheet.rows[o][i]>>
    BY <1>6, <1>14
  <2>1. PICK i \in DOMAIN sheet.rows[o] :
                /\ Sheets!Left(db, match[o], sheet.rows[o], i) # sheet.rows[o][i]
                /\ change = <<match[o], Sheets!Left(db, match[o], sheet.rows[o], i), sheet.rows[o][i]>>
    BY <2>0
  <2>2. change[1] = match[o] /\ db.stops[match[o]].order = o
    BY <1>4, <1>14, <2>1
  <2> QED BY <2>1, <2>2 DEF Given
<1>15. OwnLoad(u)
  BY DEF OwnLoad, Sheets!Permitted
<1> QED BY <1>10, <1>11, <1>12, <1>13, <1>14, <1>15

\* An upload is handed over with what it knows of the rows.
LEMMA ReadSound ==
    ASSUME ImportsSound, NEW c \in Clerks, NEW sheet \in Sheets!Sheets, NEW confirmed \in BOOLEAN,
           NEW listed \in SUBSET Sheets!Changes, NEW shown \in SUBSET Sheets!Changes,
           NEW since \in SUBSET Sheets!StopKeys,
           Sheets!Read(c, sheet, confirmed, listed, shown, since), UNCHANGED <<stored, overlap, twice>>,
           Cardinality(listed) <= MaxShown => shown = listed,
           confirmed /\ ~overlap =>
              Listed([sheet |-> sheet, since |-> since], stored, twice, listed)
    PROVE  ImportsSound'
<1>0. PICK r \in Sheets!RouteOf(stored) : \E match \in Sheets!Matches(stored, r, sheet) :
        /\ Sheets!Permitted(stored, r, sheet)
        /\ upload' = [upload EXCEPT ![c] =
            [phase |-> "sent", sheet |-> sheet, confirmed |-> confirmed, route |-> r,
             carrier |-> IF r = Sheets!None THEN Sheets!NoCarrier ELSE stored.carrier[r],
             match |-> match, changes |-> Sheets!Overwritten(stored, match, sheet),
             listed |-> listed, shown |-> shown, since |-> since, missed |-> FALSE]]
  BY DEF Sheets!Read
<1>1. PICK match \in Sheets!Matches(stored, r, sheet) :
        /\ Sheets!Permitted(stored, r, sheet)
        /\ upload' = [upload EXCEPT ![c] =
            [phase |-> "sent", sheet |-> sheet, confirmed |-> confirmed, route |-> r,
             carrier |-> IF r = Sheets!None THEN Sheets!NoCarrier ELSE stored.carrier[r],
             match |-> match, changes |-> Sheets!Overwritten(stored, match, sheet),
             listed |-> listed, shown |-> shown, since |-> since, missed |-> FALSE]]
  BY <1>0
<1>2. PICK u : u = [phase |-> "sent", sheet |-> sheet, confirmed |-> confirmed, route |-> r,
             carrier |-> IF r = Sheets!None THEN Sheets!NoCarrier ELSE stored.carrier[r],
             match |-> match, changes |-> Sheets!Overwritten(stored, match, sheet),
             listed |-> listed, shown |-> shown, since |-> since, missed |-> FALSE]
  OBVIOUS
<1>3. stored \in Store /\ StoreSound(stored)
  BY DEF ImportsSound, ImportsTyped
<1>4. /\ u \in SentFile /\ u.phase = "sent" /\ u.confirmed = confirmed
      /\ StillNew(u, stored) /\ StillRead(u, stored) /\ OwnLoad(u)
      /\ Once(stored, twice) => Listed(u, stored, twice, u.changes)
      /\ \A change \in u.changes : change[1] # Sheets!None =>
            change \in Given(stored, sheet, change[1])
  <2>1. PICK db, doubled : db = stored /\ doubled = twice
    OBVIOUS
  <2>2. /\ db \in Store /\ StoreSound(db) /\ doubled \in SUBSET OrderNumbers /\ r \in Sheets!RouteOf(db)
        /\ match \in Sheets!Matches(db, r, sheet) /\ Sheets!Permitted(db, r, sheet)
        /\ u = [phase |-> "sent", sheet |-> sheet, confirmed |-> confirmed, route |-> r,
                carrier |-> IF r = Sheets!None THEN Sheets!NoCarrier ELSE db.carrier[r],
                match |-> match, changes |-> Sheets!Overwritten(db, match, sheet),
                listed |-> listed, shown |-> shown, since |-> since, missed |-> FALSE]
    BY <1>1, <1>2, <1>3, <2>1 DEF ImportsSound, ImportsTyped
  <2>3. /\ u \in SentFile /\ u.phase = "sent" /\ u.confirmed = confirmed
        /\ StillNew(u, db) /\ StillRead(u, db) /\ OwnLoad(u)
        /\ Once(db, doubled) => Listed(u, db, doubled, u.changes)
        /\ \A change \in u.changes : change[1] # Sheets!None =>
              change \in Given(db, sheet, change[1])
    BY <2>2, ReadingSound
  <2> QED BY <2>1, <2>3
<1>5. u.since = since /\ u.shown = shown /\ u.listed = listed /\ u.sheet = sheet /\ u.missed = FALSE
  BY <1>2
<1>6. confirmed /\ ~overlap => WasListed(u, stored, twice)
  <2> SUFFICES ASSUME confirmed, ~overlap, NEW change \in u.changes, change[1] \in Plain(u, stored, twice)
               PROVE  change \in listed
    BY <1>5 DEF WasListed
  <2>1. change[1] # Sheets!None
    BY ImportConstants DEF Plain, Sheets!Present
  <2>2. change[1] \in Plain([sheet |-> sheet, since |-> since], stored, twice)
    BY <1>5 DEF Plain
  <2> QED BY <1>4, <2>1, <2>2 DEF Listed
<1>7. UploadSound(u, stored, overlap, twice)
  <2>1. ShortShown(u)
    BY <1>5 DEF ShortShown
  <2>2. ~overlap => Listed(u, stored, twice, u.changes)
    BY <1>4 DEF ImportsSound
  <2> QED BY <1>4, <1>6, <2>1, <2>2 DEF UploadSound
<1>8. \A d \in Clerks : upload'[d] = IF d = c THEN u ELSE upload[d]
  BY <1>1, <1>2 DEF ImportsSound, ImportsTyped
<1>9. upload' = [d \in Clerks |-> upload'[d]]
  BY <1>1 DEF ImportsSound, ImportsTyped
<1> QED BY <1>4, <1>7, <1>8, <1>9 DEF ImportsSound, ImportsTyped, Sending

\* Time passes for an upload under way: rows are written, which it remembers.
Aged(u, written, missed) == [u EXCEPT !.since = @ \cup written, !.missed = @ \/ missed]
Written(d, e) == {s \in Sheets!StopKeys : e.stops[s] # d.stops[s]}

LEMMA AgedSound ==
    ASSUME NEW d \in Store, NEW e \in Store, NEW u \in SentFile, NEW before \in BOOLEAN, NEW after \in BOOLEAN,
           NEW doubled \in SUBSET OrderNumbers, NEW more \in SUBSET OrderNumbers, doubled \subseteq more,
           UploadSound(u, d, before, doubled), before => after,
           NEW missed \in BOOLEAN, u.phase = "sent" /\ ~missed => (StillNew(u, d) => StillNew(u, e)),
           NEW v, v = Aged(u, Written(d, e), missed)
    PROVE  v \in SentFile /\ UploadSound(v, e, after, more)
<1>1. /\ v \in SentFile /\ v.since = u.since \cup Written(d, e) /\ v.missed = (u.missed \/ missed)
      /\ v.phase = u.phase /\ v.sheet = u.sheet /\ v.confirmed = u.confirmed /\ v.route = u.route
      /\ v.carrier = u.carrier /\ v.match = u.match /\ v.changes = u.changes
      /\ v.listed = u.listed /\ v.shown = u.shown
  <2>1. Written(d, e) \in SUBSET Sheets!StopKeys
    BY DEF Written
  <2> QED BY <2>1 DEF SentFile, Aged
<1>2. \A s \in Sheets!StopKeys : s \notin v.since => s \notin u.since /\ e.stops[s] = d.stops[s]
  BY <1>1 DEF Written
<1>3. ASSUME StillRead(u, d) PROVE StillRead(v, e)
  <2> SUFFICES ASSUME NEW change \in u.changes, change[1] # Sheets!None
               PROVE  /\ \/ change[1] \in v.since
                         \/ /\ e.stops[change[1]].order \in OrderNumbers
                            /\ \E first \in u.changes :
                                  first[1] = change[1] /\ first[2] = e.stops[change[1]].city
                      /\ \E last \in u.changes :
                            last[1] = change[1] /\ last[3] = Sheets!LastValue(v, change[1])
    BY <1>1 DEF StillRead
  <2>1. change[1] \in Sheets!StopKeys
    BY DEF SentFile, Sheets!Changes
  <2>2. Sheets!LastValue(v, change[1]) = Sheets!LastValue(u, change[1])
    BY <1>1 DEF Sheets!LastValue
  <2>3. /\ \/ change[1] \in u.since
           \/ /\ d.stops[change[1]].order \in OrderNumbers
              /\ \E first \in u.changes :
                    first[1] = change[1] /\ first[2] = d.stops[change[1]].city
        /\ \E last \in u.changes :
              last[1] = change[1] /\ last[3] = Sheets!LastValue(u, change[1])
    BY <1>3 DEF StillRead
  <2>4. change[1] \in v.since \/ (change[1] \notin u.since /\ e.stops[change[1]] = d.stops[change[1]])
    BY <1>2, <2>1
  <2> QED BY <2>2, <2>3, <2>4
<1>4. ASSUME NEW s \in Plain(v, e, more)
      PROVE  s \in Plain(u, d, doubled) /\ e.stops[s] = d.stops[s]
  <2>1. s \in Sheets!StopKeys /\ s \notin v.since /\ e.stops[s] # Sheets!NoStop
        /\ e.stops[s].order \in OrderNumbers \ more
    BY <1>4 DEF Plain, Sheets!Present
  <2>2. s \notin u.since /\ e.stops[s] = d.stops[s]
    BY <1>2, <2>1
  <2> QED BY <2>1, <2>2 DEF Plain, Sheets!Present
<1>5. ASSUME NEW changes, Listed(u, d, doubled, changes) PROVE Listed(v, e, more, changes)
  <2> SUFFICES ASSUME NEW s \in Plain(v, e, more) PROVE Given(e, v.sheet, s) \subseteq changes
    BY DEF Listed
  <2>1. s \in Plain(u, d, doubled) /\ e.stops[s] = d.stops[s]
    BY <1>4
  <2>2. Given(e, v.sheet, s) = Given(d, u.sheet, s)
    BY <1>1, <2>1 DEF Given, Sheets!Left
  <2> QED BY <1>5, <2>1, <2>2 DEF Listed
<1>6. WasListed(u, d, doubled) => WasListed(v, e, more)
  BY <1>1, <1>4 DEF WasListed
<1>7. StillNew(u, e) => StillNew(v, e)
  BY <1>1 DEF StillNew
<1>8. (ShortShown(u) => ShortShown(v)) /\ (OwnLoad(u) => OwnLoad(v))
  BY <1>1 DEF ShortShown, OwnLoad
<1> QED BY <1>1, <1>3, <1>5, <1>6, <1>7, <1>8 DEF UploadSound

\* The rows a sheet adds have an order that is the sheet's, or none; and an order of its
\* own, unless the sheet gives it twice.
LEMMA InsertedRows ==
    ASSUME NEW u \in SentFile
    PROVE  /\ \A x \in Sheets!Inserts(u) :
                 /\ x.order \in OrderNumbers \cup {Sheets!NoOrder} /\ x.city \in Cities
                 /\ x.order # Sheets!NoOrder => x.order \in Sheets!NewOrders(u.match, u.sheet)
           /\ \A x, y \in Sheets!Inserts(u) :
                 x.order = y.order /\ x.order \notin Sheets!Doubled(u) => x = y
           /\ Cardinality(Sheets!Inserts(u)) \in Nat
           /\ Sheets!Doubled(u) \subseteq OrderNumbers
<1>1. u.sheet \in Sheets!Sheets /\ Sheets!LooseStop.city \in Cities
      /\ Sheets!LooseStop.order = Sheets!NoOrder /\ Sheets!LooseStop.row = 1
  BY SheetsAssumption DEF SentFile, Sheets!LooseStop
<1>2. ASSUME NEW x \in Sheets!Inserts(u)
      PROVE  \/ x = Sheets!LooseStop
             \/ \E o \in Sheets!NewOrders(u.match, u.sheet) : \E i \in Sheets!NewRows(u.sheet, o) :
                   x = [order |-> o, row |-> i, city |-> u.sheet.rows[o][i]]
  <2>1. CASE x = Sheets!LooseStop
    BY <2>1
  <2>2. CASE x # Sheets!LooseStop
    <3>1. PICK T : /\ x \in T
                   /\ T \in {{[order |-> o, row |-> i, city |-> u.sheet.rows[o][i]] :
                                  i \in Sheets!NewRows(u.sheet, o)} : o \in Sheets!NewOrders(u.match, u.sheet)}
      <4> DEFINE A == UNION {{[order |-> o, row |-> i, city |-> u.sheet.rows[o][i]] :
                                i \in Sheets!NewRows(u.sheet, o)} : o \in Sheets!NewOrders(u.match, u.sheet)}
      <4>1. Sheets!Inserts(u) = (IF u.sheet.loose THEN {Sheets!LooseStop} ELSE {}) \cup A
        BY Zenon DEF Sheets!Inserts
      <4> HIDE DEF A
      <4>2. x \in A
        BY <2>2, <4>1
      <4> QED BY <4>2, Zenon DEF A
    <3>2. PICK o \in Sheets!NewOrders(u.match, u.sheet) :
             T = {[order |-> o, row |-> i, city |-> u.sheet.rows[o][i]] : i \in Sheets!NewRows(u.sheet, o)}
      BY <3>1
    <3>3. PICK i \in Sheets!NewRows(u.sheet, o) : x = [order |-> o, row |-> i, city |-> u.sheet.rows[o][i]]
      BY <3>1, <3>2
    <3> QED BY <3>3
  <2> QED BY <2>1, <2>2
<1>3. ASSUME NEW o \in Sheets!NewOrders(u.match, u.sheet)
      PROVE  /\ o \in OrderNumbers /\ o # Sheets!NoOrder
             /\ \A i \in Sheets!NewRows(u.sheet, o) : i \in {1, 2} /\ u.sheet.rows[o][i] \in Cities
             /\ o \notin Sheets!Doubled(u) => \A i, k \in Sheets!NewRows(u.sheet, o) : i = k
  <2>1. /\ o \in OrderNumbers /\ o # Sheets!NoOrder /\ u.sheet.rows[o] \in Sheets!Values
        /\ u.sheet.rows[o] # <<>>
    BY <1>1, ImportConstants DEF Sheets!NewOrders, Sheets!Sheets
  <2>2. PICK values \in Sheets!Values : values = u.sheet.rows[o] /\ values # <<>>
    BY <2>1
  <2>3. \/ DOMAIN values = {1} /\ Len(values) = 1 /\ values[1] \in Cities
        \/ /\ DOMAIN values = {1, 2} /\ Len(values) = 2
           /\ values[1] \in Cities /\ values[2] \in Cities
    BY <2>2, RowsGiven
  <2>4. o \notin Sheets!Doubled(u) => ~u.sheet.jm \/ ~(Len(values) > 1)
    BY <2>2 DEF Sheets!Doubled
  <2> QED BY <2>1, <2>2, <2>3, <2>4 DEF Sheets!NewRows
<1>4. ASSUME NEW x \in Sheets!Inserts(u)
      PROVE  /\ x.order \in OrderNumbers \cup {Sheets!NoOrder} /\ x.city \in Cities
             /\ x.row \in {1, 2}
             /\ x.order # Sheets!NoOrder => x.order \in Sheets!NewOrders(u.match, u.sheet)
  <2>1. CASE x = Sheets!LooseStop
    BY <1>1, <2>1
  <2>2. CASE x # Sheets!LooseStop
    <3>1. PICK o \in Sheets!NewOrders(u.match, u.sheet) : \E i \in Sheets!NewRows(u.sheet, o) :
             x = [order |-> o, row |-> i, city |-> u.sheet.rows[o][i]]
      BY <1>2, <2>2
    <3>2. PICK i \in Sheets!NewRows(u.sheet, o) : x = [order |-> o, row |-> i, city |-> u.sheet.rows[o][i]]
      BY <3>1
    <3>3. x.order = o /\ x.row = i /\ x.city = u.sheet.rows[o][i]
      BY <3>2
    <3> QED BY <1>3, <3>3
  <2> QED BY <2>1, <2>2
<1>a. ASSUME NEW x \in Sheets!Inserts(u), x.order = Sheets!NoOrder PROVE x = Sheets!LooseStop
  <2> SUFFICES ASSUME x # Sheets!LooseStop PROVE FALSE
    OBVIOUS
  <2>1. PICK o \in Sheets!NewOrders(u.match, u.sheet) : \E i \in Sheets!NewRows(u.sheet, o) :
             x = [order |-> o, row |-> i, city |-> u.sheet.rows[o][i]]
    BY <1>2
  <2>2. x.order = o
    BY <2>1
  <2> QED BY <1>3, <1>a, <2>2
<1>5. ASSUME NEW x \in Sheets!Inserts(u), NEW y \in Sheets!Inserts(u), x.order = y.order, x.row = y.row
      PROVE  x = y
  <2>1. CASE x.order = Sheets!NoOrder
    BY <1>a, <1>5, <2>1
  <2>2. CASE x.order # Sheets!NoOrder
    <3>a1. PICK o \in Sheets!NewOrders(u.match, u.sheet) : \E i \in Sheets!NewRows(u.sheet, o) :
             x = [order |-> o, row |-> i, city |-> u.sheet.rows[o][i]]
      BY <1>1, <1>2, <2>2
    <3>1. PICK i \in Sheets!NewRows(u.sheet, o) : x = [order |-> o, row |-> i, city |-> u.sheet.rows[o][i]]
      BY <3>a1
    <3>a2. PICK p \in Sheets!NewOrders(u.match, u.sheet) : \E k \in Sheets!NewRows(u.sheet, p) :
             y = [order |-> p, row |-> k, city |-> u.sheet.rows[p][k]]
      BY <1>1, <1>2, <1>5, <2>2
    <3>2. PICK k \in Sheets!NewRows(u.sheet, p) : y = [order |-> p, row |-> k, city |-> u.sheet.rows[p][k]]
      BY <3>a2
    <3>3. o = p /\ i = k
      BY <1>5, <3>1, <3>2
    <3> QED BY <3>1, <3>2, <3>3
  <2> QED BY <2>1, <2>2
<1>6. ASSUME NEW x \in Sheets!Inserts(u), NEW y \in Sheets!Inserts(u), x.order = y.order,
             x.order \notin Sheets!Doubled(u)
      PROVE  x = y
  <2>1. CASE x.order = Sheets!NoOrder
    BY <1>a, <1>6, <2>1
  <2>2. CASE x.order # Sheets!NoOrder
    <3>a1. PICK o \in Sheets!NewOrders(u.match, u.sheet) : \E i \in Sheets!NewRows(u.sheet, o) :
             x = [order |-> o, row |-> i, city |-> u.sheet.rows[o][i]]
      BY <1>1, <1>2, <2>2
    <3>1. PICK i \in Sheets!NewRows(u.sheet, o) :
             x = [order |-> o, row |-> i, city |-> u.sheet.rows[o][i]]
      BY <3>a1
    <3>a2. PICK p \in Sheets!NewOrders(u.match, u.sheet) : \E k \in Sheets!NewRows(u.sheet, p) :
             y = [order |-> p, row |-> k, city |-> u.sheet.rows[p][k]]
      BY <1>1, <1>2, <1>6, <2>2
    <3>2. PICK k \in Sheets!NewRows(u.sheet, p) :
             y = [order |-> p, row |-> k, city |-> u.sheet.rows[p][k]]
      BY <3>a2
    <3>3. o = p /\ o \notin Sheets!Doubled(u)
      BY <1>6, <3>1, <3>2
    <3>4. i = k
      BY <1>3, <3>3
    <3> QED BY <3>1, <3>2, <3>3, <3>4
  <2> QED BY <2>1, <2>2
<1>7. Cardinality(Sheets!Inserts(u)) \in Nat
  <2> DEFINE T == (OrderNumbers \cup {Sheets!NoOrder}) \X {1, 2}
             f == [x \in Sheets!Inserts(u) |-> <<x.order, x.row>>]
  <2>1. IsFiniteSet(T)
    <3>1. IsFiniteSet(OrderNumbers \cup {Sheets!NoOrder})
      BY SheetsAssumption, FS_AddElement
    <3>2. IsFiniteSet({1, 2})
      <4>1. IsFiniteSet({1}) /\ {1} \cup {2} = {1, 2}
        BY FS_Singleton
      <4> QED BY <4>1, FS_AddElement
    <3> QED BY <3>1, <3>2, FS_Product
  <2>2. f \in Injection(Sheets!Inserts(u), T)
    <3>1. \A x \in Sheets!Inserts(u) : <<x.order, x.row>> \in T
      BY <1>4
    <3>2. \A x, y \in Sheets!Inserts(u) : <<x.order, x.row>> = <<y.order, y.row>> => x = y
      BY <1>5
    <3> HIDE DEF T
    <3> QED BY <3>1, <3>2 DEF Injection, IsInjective
  <2> HIDE DEF f, T
  <2>3. IsFiniteSet(Sheets!Inserts(u))
    BY <2>1, <2>2, FS_Injection
  <2> QED BY <2>3, FS_CardinalityType
<1>8. Sheets!Doubled(u) \subseteq OrderNumbers
  BY <1>3 DEF Sheets!Doubled
<1> QED BY <1>4, <1>6, <1>7, <1>8

\* What a commit does to the rows.
Commits(d, e, c, u) ==
    \E ids, r, row :
        /\ ids = d.next..(d.next + Cardinality(Sheets!Inserts(u)) - 1) /\ ids \subseteq Sheets!StopKeys
        /\ IF u.route = Sheets!None THEN r \in RouteKeys \ d.routes ELSE r = u.route
        /\ row \in Sheets!Bijection(ids, Sheets!Inserts(u))
        /\ e = Sheets!AfterUpload(d, c, u, r, row)

LEMMA UploadedRows ==
    ASSUME NEW d \in Store, StoreSound(d), NEW c \in Clerks, NEW u \in SentFile, NEW e, Commits(d, e, c, u),
           StillRead(u, d), OwnLoad(u)
    PROVE  /\ e \in Store /\ StoreSound(e)
           /\ \A doubled : StillNew(u, d) /\ Once(d, doubled) => Once(e, doubled \cup Sheets!Doubled(u))
           /\ \A r \in d.routes :
                 e.carrier[r] # d.carrier[r]
                    => u.sheet.own = Sheets!NoCarrier \/ e.carrier[r] = Sheets!NoCarrier
           /\ e.audit = d.audit \cup ({c} \X u.changes)
           /\ \A s \in Sheets!Present(d) : e.stops[s].city = Sheets!CityAfter(u, s, d.stops[s].city)
<1>3. PICK ids, r, row :
        /\ ids = d.next..(d.next + Cardinality(Sheets!Inserts(u)) - 1) /\ ids \subseteq Sheets!StopKeys
        /\ IF u.route = Sheets!None THEN r \in RouteKeys \ d.routes ELSE r = u.route
        /\ row \in Sheets!Bijection(ids, Sheets!Inserts(u))
        /\ e = Sheets!AfterUpload(d, c, u, r, row)
  BY DEF Commits
<1>12. r \in RouteKeys
  BY <1>3 DEF SentFile
<1>0. ids \cap Sheets!Present(d) = {}
  BY <1>3, InsertedRows DEF StoreSound, Sheets!Present, Sheets!StopKeys, Store
<1>1. /\ row \in [ids -> Sheets!Inserts(u)] /\ \A s, t \in ids : row[s] = row[t] => s = t
  BY <1>3 DEF Sheets!Bijection, Sheets!Injection, Sheets!IsInjective
<1>2. /\ \A x \in Sheets!Inserts(u) :
            /\ x.order \in OrderNumbers \cup {Sheets!NoOrder} /\ x.city \in Cities
            /\ x.order # Sheets!NoOrder => x.order \in Sheets!NewOrders(u.match, u.sheet)
      /\ \A x, y \in Sheets!Inserts(u) : x.order = y.order /\ x.order \notin Sheets!Doubled(u) => x = y
      /\ Cardinality(Sheets!Inserts(u)) \in Nat
  BY InsertedRows
<1>4. /\ e.routes = d.routes \cup {r} /\ e.next = d.next + Cardinality(ids)
      /\ e.audit = d.audit \cup ({c} \X u.changes)
      /\ \A s \in ids : e.stops[s] = [route |-> r, order |-> row[s].order, city |-> row[s].city]
      /\ \A s \in Sheets!Present(d) : e.stops[s] = [d.stops[s] EXCEPT !.city = Sheets!CityAfter(u, s, @)]
      /\ \A s \in Sheets!StopKeys : s \notin ids /\ s \notin Sheets!Present(d) => e.stops[s] = Sheets!NoStop
  <2>0. DOMAIN row = ids
    BY <1>1
  <2>1. PICK n : n = Sheets!Cardinality(DOMAIN row)
    OBVIOUS
  <2>2. n = Cardinality(ids)
    BY <2>0, <2>1, SheetsCardinality
  <2>3. e = [routes |-> d.routes \cup {r},
             carrier |-> IF u.route = Sheets!None \/ u.sheet.carrier # u.carrier
                         THEN [d.carrier EXCEPT ![r] = u.sheet.carrier] ELSE d.carrier,
             next |-> d.next + n, audit |-> d.audit \cup ({c} \X u.changes),
             stops |-> [s \in Sheets!StopKeys |->
        CASE s \in DOMAIN row -> [route |-> r, order |-> row[s].order, city |-> row[s].city]
          [] s \in Sheets!Present(d) -> [d.stops[s] EXCEPT !.city = Sheets!CityAfter(u, s, @)]
          [] OTHER -> Sheets!NoStop]]
    BY <1>3, <2>1 DEF Sheets!AfterUpload
  <2>4. \A s \in Sheets!StopKeys : e.stops[s] =
          CASE s \in ids -> [route |-> r, order |-> row[s].order, city |-> row[s].city]
            [] s \in Sheets!Present(d) -> [d.stops[s] EXCEPT !.city = Sheets!CityAfter(u, s, @)]
            [] OTHER -> Sheets!NoStop
    BY <2>0, <2>3
  <2>5. Sheets!Present(d) \subseteq Sheets!StopKeys
    BY DEF Sheets!Present
  <2>6. /\ e.routes = d.routes \cup {r} /\ e.next = d.next + Cardinality(ids)
        /\ e.audit = d.audit \cup ({c} \X u.changes)
    BY <2>2, <2>3
  <2>7. ids \subseteq Sheets!StopKeys
    BY <1>3
  <2>8. ASSUME NEW s \in Sheets!StopKeys
        PROVE  /\ s \in ids => e.stops[s] = [route |-> r, order |-> row[s].order, city |-> row[s].city]
               /\ s \in Sheets!Present(d) => e.stops[s] = [d.stops[s] EXCEPT !.city = Sheets!CityAfter(u, s, @)]
               /\ s \notin ids /\ s \notin Sheets!Present(d) => e.stops[s] = Sheets!NoStop
    BY <1>0, <2>4
  <2> QED BY <2>5, <2>6, <2>7, <2>8
<1>5. ASSUME NEW s \in ids
      PROVE  /\ e.stops[s] \in StopRow /\ e.stops[s].route = r /\ e.stops[s].order = row[s].order
             /\ row[s] \in Sheets!Inserts(u)
  <2>1. PICK x \in Sheets!Inserts(u) : x = row[s]
    BY <1>1
  <2>2. e.stops[s] = [route |-> r, order |-> x.order, city |-> x.city]
    BY <1>4, <2>1
  <2> QED BY <1>2, <1>12, <2>1, <2>2 DEF StopRow
<1>6. ASSUME NEW s \in Sheets!Present(d)
      PROVE  /\ e.stops[s] \in StopRow
             /\ e.stops[s].route = d.stops[s].route /\ e.stops[s].order = d.stops[s].order
             /\ e.stops[s].city = Sheets!CityAfter(u, s, d.stops[s].city)
  <2>1. d.stops[s] \in [route: RouteKeys, order: OrderNumbers \cup {Sheets!NoOrder}, city: Cities]
    BY DEF Sheets!Present, Store, StopRow
  <2>2. Sheets!CityAfter(u, s, d.stops[s].city) \in Cities
    <3>1. CASE \E change \in u.changes : change[1] = s
      <4>1. s # Sheets!None
        BY ImportConstants DEF Sheets!Present
      <4>2. PICK last \in u.changes : last[3] = Sheets!LastValue(u, s)
        BY <3>1, <4>1 DEF StillRead
      <4>3. last[3] \in Cities
        BY DEF SentFile, Sheets!Changes
      <4> QED BY <3>1, <4>2, <4>3 DEF Sheets!CityAfter
    <3>2. CASE ~\E change \in u.changes : change[1] = s
      BY <2>1, <3>2 DEF Sheets!CityAfter
    <3> QED BY <3>1, <3>2
  <2>3. s \in Sheets!StopKeys
    BY DEF Sheets!Present
  <2>4. PICK o, x : o = d.stops[s] /\ x = Sheets!CityAfter(u, s, o.city)
    OBVIOUS
  <2>5. e.stops[s] = [o EXCEPT !.city = x]
    BY <1>4, <2>3, <2>4
  <2>6. /\ e.stops[s] \in [route: RouteKeys, order: OrderNumbers \cup {Sheets!NoOrder}, city: Cities]
        /\ e.stops[s].route = o.route /\ e.stops[s].order = o.order /\ e.stops[s].city = x
    BY <2>1, <2>2, <2>4, <2>5
  <2> QED BY <2>4, <2>6 DEF StopRow
<1>7. \A s \in Sheets!Present(e) : s \in ids \/ s \in Sheets!Present(d)
  BY <1>4 DEF Sheets!Present
<1>8. e.next \in Nat \ {0} /\ d.next <= e.next /\ \A s \in ids : s < e.next
  <2>1. d.next \in Nat \ {0}
    BY DEF Store
  <2>2. Cardinality(ids) = Cardinality(Sheets!Inserts(u))
    <3>1. PICK a, b, n : a = d.next /\ n = Cardinality(Sheets!Inserts(u)) /\ b = a + n - 1
      OBVIOUS
    <3>2. a \in Int /\ b \in Int /\ n \in Nat /\ ids = a..b
      BY <1>2, <1>3, <2>1, <3>1
    <3>3. Cardinality(a..b) = IF a > b THEN 0 ELSE b - a + 1
      BY <3>2, FS_Interval
    <3>4. Cardinality(a..b) = n
      BY <3>1, <3>2, <3>3, <2>1, <1>2
    <3> QED BY <3>1, <3>2, <3>4
  <2> QED BY <1>2, <1>3, <1>4, <2>1, <2>2
<1>14. /\ e.carrier \in [RouteKeys -> Owners]
       /\ \A q \in d.routes : e.carrier[q] # d.carrier[q] =>
             /\ u.route # Sheets!None /\ u.sheet.carrier # u.carrier /\ e.carrier[q] = u.sheet.carrier
  <2>1. e.carrier = IF u.route = Sheets!None \/ u.sheet.carrier # u.carrier
                    THEN [d.carrier EXCEPT ![r] = u.sheet.carrier] ELSE d.carrier
    BY <1>3 DEF Sheets!AfterUpload
  <2>2. u.sheet.carrier \in Owners /\ d.carrier \in [RouteKeys -> Owners]
    BY DEF SentFile, Sheets!Sheets, Owners, Store
  <2>3. u.route = Sheets!None => r \notin d.routes
    BY <1>3
  <2>4. d.routes \subseteq RouteKeys
    BY DEF Store
  <2> QED BY <2>1, <2>2, <2>3, <2>4
<1>15. \A q \in d.routes :
         e.carrier[q] # d.carrier[q] => u.sheet.own = Sheets!NoCarrier \/ e.carrier[q] = Sheets!NoCarrier
  <2>1. u.sheet.own # Sheets!NoCarrier => u.sheet.carrier \in {u.sheet.own, Sheets!NoCarrier}
    BY DEF SentFile, Sheets!Sheets
  <2> QED BY <1>14, <2>1 DEF OwnLoad
<1>9. e \in Store
  <2>1. e.stops \in [Sheets!StopKeys -> StopRow]
    <3>1. \A s \in Sheets!StopKeys : e.stops[s] \in StopRow
      BY <1>4, <1>5, <1>6 DEF StopRow
    <3>2. e.stops = [s \in Sheets!StopKeys |-> e.stops[s]]
      BY <1>3 DEF Sheets!AfterUpload
    <3> QED BY <3>1, <3>2
  <2>2. e.audit \in SUBSET (Clerks \X Sheets!Changes) /\ e.routes \in SUBSET RouteKeys
    BY <1>12, <1>4 DEF Store, SentFile
  <2>3. e = [routes |-> e.routes, carrier |-> e.carrier, next |-> e.next, audit |-> e.audit, stops |-> e.stops]
    BY <1>3 DEF Sheets!AfterUpload
  <2>4. e.carrier \in [RouteKeys -> Owners]
    BY <1>14
  <2> QED BY <1>8, <2>1, <2>2, <2>3, <2>4 DEF Store
<1>10. StoreSound(e)
  <2> SUFFICES ASSUME NEW s \in Sheets!Present(e) PROVE e.stops[s].route \in e.routes /\ s < e.next
    BY DEF StoreSound
  <2>1. CASE s \in ids
    BY <1>4, <1>5, <1>8, <2>1
  <2>2. CASE s \in Sheets!Present(d)
    <3>1. s \in Int /\ s < d.next /\ d.next \in Nat
      BY <2>2 DEF StoreSound, Sheets!Present, Sheets!StopKeys, Store
    <3> QED BY <1>4, <1>6, <1>8, <2>2, <3>1 DEF StoreSound
  <2> QED BY <1>7, <2>1, <2>2
<1>11. ASSUME NEW doubled, StillNew(u, d), Once(d, doubled) PROVE Once(e, doubled \cup Sheets!Doubled(u))
  <2>1. \A x, y \in e.routes : x = y
    BY <1>3, <1>4, <1>11 DEF StillNew, Once
  <2>2. ASSUME NEW s \in ids, NEW t \in Sheets!Present(d), e.stops[s].order = e.stops[t].order,
               e.stops[s].order # Sheets!NoOrder
        PROVE  FALSE
    <3>1. d.stops[t].order \in Sheets!NewOrders(u.match, u.sheet)
      BY <1>2, <1>5, <1>6, <2>2
    <3>2. d.stops[t].route \in d.routes
      BY DEF StoreSound
    <3>3. d.stops[t].route = u.route
      BY <1>11, <3>2 DEF StillNew, Once
    <3> QED BY <1>11, <3>1, <3>3 DEF StillNew
  <2>3. ASSUME NEW s \in Sheets!Present(e), NEW t \in Sheets!Present(e), e.stops[s].order = e.stops[t].order,
               e.stops[s].order \notin (doubled \cup Sheets!Doubled(u)) \cup {Sheets!NoOrder}
        PROVE  s = t
    <3>1. CASE s \in ids /\ t \in ids
      <4>1. row[s] = row[t]
        BY <1>2, <1>5, <2>3, <3>1
      <4> QED BY <1>1, <3>1, <4>1
    <3>2. CASE s \in Sheets!Present(d) /\ t \in Sheets!Present(d)
      BY <1>6, <1>11, <2>3, <3>2 DEF Once
    <3> QED BY <1>7, <2>2, <2>3, <3>1, <3>2
  <2> QED BY <2>1, <2>3 DEF Once
<1> QED BY <1>4, <1>6, <1>9, <1>10, <1>11, <1>15

LEMMA CommitUploads ==
    ASSUME NEW c, Sheets!CommitUpload(c)
    PROVE  /\ upload[c].phase = "sent" /\ ~Sheets!MustAsk(upload[c])
           /\ upload' = Sheets!Noticed(c, "upload") /\ overlap' = (overlap \/ upload[c].missed)
           /\ twice' = twice \cup Sheets!Doubled(upload[c])
           /\ Commits(stored, stored', c, upload[c])
<1>1. PICK u, ids : u = upload[c] /\ ids = stored.next..(stored.next + Cardinality(Sheets!Inserts(u)) - 1)
  OBVIOUS
<1>2. ids = stored.next..(stored.next + Sheets!Cardinality(Sheets!Inserts(u)) - 1)
  BY <1>1, SheetsCardinality
<1>3. /\ u.phase = "sent" /\ ~Sheets!MustAsk(u) /\ ids \subseteq Sheets!StopKeys
      /\ upload' = Sheets!Noticed(c, "upload") /\ overlap' = (overlap \/ u.missed)
      /\ twice' = twice \cup Sheets!Doubled(u)
      /\ \E r \in IF u.route = Sheets!None THEN RouteKeys \ stored.routes ELSE {u.route} :
            \E row \in Sheets!Bijection(ids, Sheets!Inserts(u)) : stored' = Sheets!AfterUpload(stored, c, u, r, row)
  BY <1>1, <1>2 DEF Sheets!CommitUpload
<1>4. PICK r \in IF u.route = Sheets!None THEN RouteKeys \ stored.routes ELSE {u.route} :
         \E row \in Sheets!Bijection(ids, Sheets!Inserts(u)) : stored' = Sheets!AfterUpload(stored, c, u, r, row)
  BY <1>3
<1>5. IF u.route = Sheets!None THEN r \in RouteKeys \ stored.routes ELSE r = u.route
  OBVIOUS
<1>6. Commits(stored, stored', c, u)
  <2>1. PICK d, e : d = stored /\ e = stored'
    OBVIOUS
  <2>2. PICK row \in Sheets!Bijection(ids, Sheets!Inserts(u)) : e = Sheets!AfterUpload(d, c, u, r, row)
    BY <1>4, <2>1
  <2>3. ids = d.next..(d.next + Cardinality(Sheets!Inserts(u)) - 1)
    BY <1>1, <2>1
  <2>4. Commits(d, e, c, u)
    BY <1>3, <1>5, <2>1, <2>2, <2>3 DEF Commits
  <2> QED BY <2>1, <2>4
<1> QED BY <1>1, <1>3, <1>6

-----------------------------------------------------------------------------
(* The steps of an upload *)

LEMMA UploadStep ==
    ASSUME ImportsSound, NEW c \in Clerks, NEW sheet \in Files, Sheets!Upload(c, sheet)
    PROVE  ImportsSound'
<1>1. Sheets!Read(c, sheet, FALSE, {}, {}, {}) /\ UNCHANGED <<stored, overlap, twice>>
  BY DEF Sheets!Upload
<1>2. PICK confirmed \in BOOLEAN : ~confirmed /\ confirmed = FALSE
  OBVIOUS
<1>3. PICK shown \in SUBSET Sheets!Changes : shown = {}
  OBVIOUS
<1>4. PICK since \in SUBSET Sheets!StopKeys : since = {}
  OBVIOUS
<1>5. Sheets!Read(c, sheet, confirmed, shown, shown, since)
  BY <1>1, <1>2, <1>3, <1>4
<1>6. sheet \in Sheets!Sheets
  BY SheetsAssumption
<1> QED BY <1>1, <1>2, <1>5, <1>6, ReadSound

LEMMA ConfirmStep ==
    ASSUME ImportsSound, NEW c \in Clerks, Sheets!Confirm(c)
    PROVE  ImportsSound'
<1>1. PICK u : u = upload[c]
  OBVIOUS
<1>2. /\ u.phase = "refused" /\ UNCHANGED <<stored, overlap, twice>>
      /\ Sheets!Read(c, u.sheet, TRUE, u.listed, u.shown, u.since)
  BY <1>1 DEF Sheets!Confirm
<1>3. u \in SentFile /\ UploadSound(u, stored, overlap, twice)
  BY <1>1, <1>2 DEF ImportsSound, ImportsTyped, Sending, Sheets!Idle
<1>4. /\ u.sheet \in Sheets!Sheets /\ u.shown \in SUBSET Sheets!Changes
      /\ u.listed \in SUBSET Sheets!Changes /\ u.since \in SUBSET Sheets!StopKeys
  BY <1>3 DEF SentFile
<1>5. /\ ~overlap => Listed(u, stored, twice, u.listed)
      /\ Cardinality(u.listed) <= MaxShown => u.shown = u.listed
  BY <1>2, <1>3 DEF UploadSound, ShortShown
<1>6. ~overlap => Listed([sheet |-> u.sheet, since |-> u.since], stored, twice, u.listed)
  BY <1>5 DEF Listed, Plain
<1> QED BY <1>2, <1>4, <1>5, <1>6, ReadSound

\* An upload that ends without a commit, or that is refused.
LEMMA RefusalStep ==
    ASSUME ImportsSound, NEW c \in Clerks, Sheets!GiveUp(c) \/ Sheets!FailUpload(c) \/ Sheets!Refuse(c)
    PROVE  ImportsSound'
<1>1. PICK u : u = upload[c]
  OBVIOUS
<1>2. UNCHANGED <<stored, overlap, twice>>
  BY DEF Sheets!GiveUp, Sheets!FailUpload, Sheets!Refuse
<1>3. CASE upload' = [upload EXCEPT ![c] = Sheets!Idle]
  <2>1. \A d \in Clerks : upload'[d] = IF d = c THEN Sheets!Idle ELSE upload[d]
    BY <1>3 DEF ImportsSound, ImportsTyped
  <2>2. upload' = [d \in Clerks |-> upload'[d]]
    BY <1>3 DEF ImportsSound, ImportsTyped
  <2> QED BY <1>2, <2>1, <2>2 DEF ImportsSound, ImportsTyped, Sending
<1>4. CASE Sheets!Refuse(c)
  <2>0. PICK shown \in SUBSET upload[c].changes :
          /\ Sheets!Cardinality(upload[c].changes) <= MaxShown => shown = upload[c].changes
          /\ upload' = [upload EXCEPT ![c].phase = "refused", ![c].listed = upload[c].changes,
                                      ![c].shown = shown]
    BY <1>4 DEF Sheets!Refuse
  <2>1. /\ u.phase = "sent" /\ Sheets!MustAsk(u) /\ shown \subseteq u.changes
        /\ Sheets!Cardinality(u.changes) <= MaxShown => shown = u.changes
        /\ upload' = [upload EXCEPT ![c] = [u EXCEPT !.phase = "refused", !.listed = u.changes, !.shown = shown]]
    BY <1>1, <1>4, <2>0 DEF Sheets!Refuse, ImportsSound, ImportsTyped
  <2>2. u \in SentFile /\ UploadSound(u, stored, overlap, twice)
    BY <1>1, <2>1 DEF ImportsSound, ImportsTyped, Sending, Sheets!Idle
  <2>3. PICK v : v = [u EXCEPT !.phase = "refused", !.listed = u.changes, !.shown = shown]
    OBVIOUS
  <2>4. /\ v \in SentFile /\ v.phase = "refused" /\ v.listed = u.changes /\ v.shown = shown
        /\ v.confirmed = u.confirmed /\ v.since = u.since /\ v.sheet = u.sheet
    BY <2>1, <2>2, <2>3 DEF SentFile
  <2>5. ~u.confirmed
    BY <2>1 DEF Sheets!MustAsk
  <2>6. Listed(u, stored, twice, u.changes) => Listed(v, stored, twice, u.changes)
    BY <2>4 DEF Listed, Plain
  <2>7. ShortShown(v)
    BY <2>1, <2>4, SheetsCardinality DEF ShortShown
  <2>8. UploadSound(v, stored, overlap, twice)
    BY <2>1, <2>2, <2>4, <2>5, <2>6, <2>7 DEF UploadSound
  <2>9. \A d \in Clerks : upload'[d] = IF d = c THEN v ELSE upload[d]
    BY <2>1, <2>3 DEF ImportsSound, ImportsTyped
  <2>10. upload' = [d \in Clerks |-> upload'[d]]
    BY <2>1 DEF ImportsSound, ImportsTyped
  <2> QED BY <1>2, <2>4, <2>8, <2>9, <2>10 DEF ImportsSound, ImportsTyped, Sending
<1> QED BY <1>3, <1>4 DEF Sheets!GiveUp, Sheets!FailUpload

\* What the others remember of a commit or a correction by c.
LEMMA NoticedUploads ==
    ASSUME ImportsTyped, NEW c, NEW by, upload' = Sheets!Noticed(c, by)
    PROVE  /\ upload' = [d \in Clerks |-> upload'[d]]
           /\ \A d \in Clerks : Sending(d)' =>
                 /\ d # c /\ Sending(d)
                 /\ upload'[d] = Aged(upload[d], Written(stored, stored'),
                                      by = "upload" /\ upload[d].phase = "sent")
           /\ \A d \in Clerks : Sending(d) /\ d # c => Sending(d)'
<1> DEFINE written == {s \in Sheets!StopKeys : stored'.stops[s] # stored.stops[s]}
<1>1. upload' = [d \in Clerks |->
            CASE d = c                    -> Sheets!Idle
              [] upload[d].phase = "idle" -> Sheets!Idle
              [] OTHER -> [upload[d] EXCEPT !.since = @ \cup written,
                                            !.missed = @ \/ (by = "upload" /\ upload[d].phase = "sent")]]
  BY DEF Sheets!Noticed
<1>2. written = Written(stored, stored')
  BY DEF Written
<1> HIDE DEF written
<1>3. ASSUME NEW d \in Clerks
      PROVE  upload'[d] = CASE d = c                    -> Sheets!Idle
              [] upload[d].phase = "idle" -> Sheets!Idle
              [] OTHER -> Aged(upload[d], Written(stored, stored'),
                               by = "upload" /\ upload[d].phase = "sent")
  BY <1>1, <1>2 DEF Aged
<1>4. ASSUME NEW d \in Clerks, Sending(d)
      PROVE  upload[d] \in SentFile /\ upload[d].phase # "idle"
  BY <1>4 DEF ImportsTyped, SentFile
<1>5. ASSUME NEW d \in Clerks, ~Sending(d) PROVE upload[d].phase = "idle"
  BY <1>5 DEF Sending, Sheets!Idle
<1>6. ASSUME NEW d \in Clerks, Sending(d)'
      PROVE  /\ d # c /\ Sending(d)
             /\ upload'[d] = Aged(upload[d], Written(stored, stored'),
                                  by = "upload" /\ upload[d].phase = "sent")
  BY <1>3, <1>5, <1>6 DEF Sending
<1>7. ASSUME NEW d \in Clerks, Sending(d), d # c PROVE Sending(d)'
  <2>1. upload'[d] = Aged(upload[d], Written(stored, stored'), by = "upload" /\ upload[d].phase = "sent")
    BY <1>3, <1>4, <1>7
  <2>2. upload'[d].phase = upload[d].phase
    BY <1>4, <1>7, <2>1 DEF Aged, SentFile
  <2> QED BY <1>4, <1>7, <2>2 DEF Sending, Sheets!Idle
<1>8. upload' = [d \in Clerks |-> upload'[d]]
  BY <1>1
<1> QED BY <1>6, <1>7, <1>8

LEMMA CommitUploadStep ==
    ASSUME ImportsSound, NEW c \in Clerks, Sheets!CommitUpload(c)
    PROVE  ImportsSound'
<1>1. PICK u : u = upload[c]
  OBVIOUS
<1>2. /\ u.phase = "sent" /\ upload' = Sheets!Noticed(c, "upload") /\ overlap' = (overlap \/ u.missed)
      /\ twice' = twice \cup Sheets!Doubled(u)
      /\ Commits(stored, stored', c, u)
  BY <1>1, CommitUploads
<1>3. /\ u \in SentFile /\ UploadSound(u, stored, overlap, twice)
      /\ stored \in Store /\ StoreSound(stored) /\ (~overlap => Once(stored, twice)) /\ ImportsTyped
  BY <1>1, <1>2 DEF ImportsSound, ImportsTyped, Sending, Sheets!Idle
<1>4. PICK a, b, more : a = stored /\ b = stored' /\ more = twice'
  OBVIOUS
<1>5. /\ stored' \in Store /\ StoreSound(stored')
      /\ StillNew(u, stored) /\ Once(stored, twice) => Once(stored', twice')
  <2>1. StillRead(u, a) /\ OwnLoad(u)
    BY <1>2, <1>3, <1>4 DEF UploadSound
  <2>2. b \in Store /\ StoreSound(b) /\ (StillNew(u, a) /\ Once(a, twice) => Once(b, twice \cup Sheets!Doubled(u)))
    BY <1>2, <1>3, <1>4, <2>1, UploadedRows
  <2> QED BY <1>2, <1>4, <2>2
<1>6. overlap' \in BOOLEAN /\ (~overlap' => ~overlap /\ ~u.missed)
  BY <1>2, <1>3 DEF ImportsTyped, SentFile
<1>7. ~overlap' => Once(stored', twice')
  BY <1>2, <1>3, <1>5, <1>6 DEF UploadSound
<1>8. ASSUME NEW d \in Clerks, Sending(d)'
      PROVE  upload'[d] \in SentFile /\ UploadSound(upload'[d], stored', overlap', twice')
  <2>1. PICK missed \in BOOLEAN : missed = (upload[d].phase = "sent")
    OBVIOUS
  <2>2. Sending(d) /\ upload'[d] = Aged(upload[d], Written(stored, stored'), missed)
    BY <1>2, <1>3, <1>8, <2>1, NoticedUploads
  <2>3. upload[d] \in SentFile /\ UploadSound(upload[d], stored, overlap, twice)
    BY <2>2 DEF ImportsSound, ImportsTyped
  <2>4. /\ overlap \in BOOLEAN /\ (overlap => overlap')
        /\ twice \in SUBSET OrderNumbers /\ more \in SUBSET OrderNumbers /\ twice \subseteq more
    BY <1>2, <1>3, <1>4, InsertedRows DEF ImportsTyped
  <2>5. upload[d].phase = "sent" => missed
    BY <2>1
  <2>6. PICK q, v, x, y : q = upload[d] /\ v = upload'[d] /\ x = overlap /\ y = overlap'
    OBVIOUS
  <2>7. /\ stored \in Store /\ b \in Store /\ q \in SentFile /\ x \in BOOLEAN /\ y \in BOOLEAN /\ UploadSound(q, stored, x, twice) /\ (x => y)
        /\ v = Aged(q, Written(stored, b), missed)
        /\ q.phase = "sent" /\ ~missed => (StillNew(q, stored) => StillNew(q, b))
    BY <1>3, <1>4, <1>5, <1>6, <2>2, <2>3, <2>4, <2>5, <2>6
  <2>8. v \in SentFile /\ UploadSound(v, b, y, more)
    BY <2>4, <2>7, AgedSound
  <2> QED BY <1>4, <2>6, <2>8
<1>9. upload' = [d \in Clerks |-> upload'[d]]
  BY <1>2, <1>3, NoticedUploads
<1>10. twice' \subseteq OrderNumbers
  BY <1>2, <1>3, InsertedRows DEF ImportsTyped
<1> QED BY <1>5, <1>6, <1>7, <1>8, <1>9, <1>10 DEF ImportsSound, ImportsTyped

LEMMA EditStopStep ==
    ASSUME ImportsSound, NEW s \in Sheets!StopKeys, NEW row, Sheets!EditStop(s, row)
    PROVE  ImportsSound'
<1>1. /\ stored' = [stored EXCEPT !.stops[s] = row] /\ upload' = Sheets!Noticed(Sheets!None, "edit")
      /\ overlap' = overlap /\ twice' = twice /\ stored.stops[s] # Sheets!NoStop
      /\ row = Sheets!NoStop \/ \E city \in Cities : row = [stored.stops[s] EXCEPT !.city = city]
  BY DEF Sheets!EditStop
<1>2. /\ stored \in Store /\ StoreSound(stored) /\ (~overlap => Once(stored, twice)) /\ ImportsTyped
  BY DEF ImportsSound, ImportsTyped
<1>3. /\ row \in StopRow
      /\ row = Sheets!NoStop \/ (row.route = stored.stops[s].route /\ row.order = stored.stops[s].order)
  <2>1. stored.stops[s] \in [route: RouteKeys, order: OrderNumbers \cup {Sheets!NoOrder}, city: Cities]
    BY <1>1, <1>2 DEF Store, StopRow
  <2> QED BY <1>1, <2>1 DEF StopRow
<1>4. /\ stored' \in Store /\ stored'.routes = stored.routes /\ stored'.next = stored.next
      /\ \A t \in Sheets!StopKeys : stored'.stops[t] = IF t = s THEN row ELSE stored.stops[t]
  BY <1>1, <1>2, <1>3 DEF Store
<1>5. \A t \in Sheets!Present(stored') :
         /\ t \in Sheets!Present(stored) /\ stored'.stops[t].route = stored.stops[t].route
         /\ stored'.stops[t].order = stored.stops[t].order
  BY <1>1, <1>3, <1>4 DEF Sheets!Present
<1>6. StoreSound(stored')
  BY <1>2, <1>4, <1>5 DEF StoreSound
<1>7. Once(stored, twice) => Once(stored', twice)
  BY <1>4, <1>5 DEF Once
<1>8. ASSUME NEW d \in Clerks, Sending(d)'
      PROVE  upload'[d] \in SentFile /\ UploadSound(upload'[d], stored', overlap', twice')
  <2>1. PICK missed \in BOOLEAN : ~missed /\ missed = FALSE
    OBVIOUS
  <2>2. Sending(d) /\ upload'[d] = Aged(upload[d], Written(stored, stored'), missed)
    <3>1. ("edit" = "upload" /\ upload[d].phase = "sent") = missed
      BY <2>1
    <3> QED BY <1>1, <1>2, <1>8, <3>1, NoticedUploads
  <2>3. upload[d] \in SentFile /\ UploadSound(upload[d], stored, overlap, twice)
    BY <2>2 DEF ImportsSound, ImportsTyped
  <2>4. StillNew(upload[d], stored) => StillNew(upload[d], stored')
    BY <1>4, <1>5 DEF StillNew
  <2>5. overlap \in BOOLEAN /\ twice \in SUBSET OrderNumbers
    BY <1>2 DEF ImportsTyped
  <2>6. PICK q, v, b : q = upload[d] /\ v = upload'[d] /\ b = stored'
    OBVIOUS
  <2>7. /\ stored \in Store /\ b \in Store /\ q \in SentFile /\ UploadSound(q, stored, overlap, twice)
        /\ v = Aged(q, Written(stored, b), missed) /\ (StillNew(q, stored) => StillNew(q, b))
    BY <1>2, <1>4, <2>2, <2>3, <2>4, <2>6
  <2>8. v \in SentFile /\ UploadSound(v, b, overlap, twice)
    BY <2>5, <2>7, AgedSound
  <2> QED BY <1>1, <2>6, <2>8
<1>9. upload' = [d \in Clerks |-> upload'[d]]
  BY <1>1, <1>2, NoticedUploads
<1> QED BY <1>1, <1>2, <1>4, <1>6, <1>7, <1>8, <1>9 DEF ImportsSound, ImportsTyped

LEMMA ImportsStep ==
    ASSUME ImportsSound, Sheets!ImportNext \/ UNCHANGED importVars
    PROVE  ImportsSound'
<1>1. CASE UNCHANGED importVars
  BY <1>1 DEF importVars, ImportsSound, ImportsTyped, Sending
<1> QED BY <1>1, UploadStep, ConfirmStep, RefusalStep, CommitUploadStep, EditStopStep
        DEF Sheets!ImportNext

LEMMA ImportsSoundAlways == Spec => []ImportsSound
<1>1. Init => ImportsSound
  BY ImportsInit DEF Init
<1>2. ImportsSound /\ [Next]_vars => ImportsSound'
  BY ImportsStep DEF Next, vars
<1> QED BY <1>1, <1>2, PTL DEF Spec

\* A load has one route and an order number one stop, however often sheets are sent and
\* confirmed, unless an upload missed the commit of another; but a sheet of the layout of
\* JM that repeats an order not stored yet makes a stop of every row (import_jm_loads,
\* import_generic_routes, import_adimax_routes).
THEOREM OnceUnlessOverlappedAlways == Spec => []OnceUnlessOverlapped
<1>1. ImportsSound => OnceUnlessOverlapped
  <2> SUFFICES ASSUME ImportsSound, ~overlap PROVE Sheets!OnceUnlessOverlapped
    BY DEF OnceUnlessOverlapped, Sheets!OnceUnlessOverlapped
  <2>1. Once(stored, twice)
    BY DEF ImportsSound
  <2>2. Sheets!Cardinality(stored.routes) <= 1
    <3>0. Sheets!Cardinality(stored.routes) = Cardinality(stored.routes)
      BY SheetsCardinality
    <3>1. CASE stored.routes = {}
      BY <3>0, <3>1, FS_EmptySet
    <3>2. CASE stored.routes # {}
      <4>1. PICK r : stored.routes = {r}
        BY <2>1, <3>2 DEF Once
      <4>2. Cardinality({r}) = 1
        BY FS_Singleton
      <4> QED BY <3>0, <4>1, <4>2
    <3> QED BY <3>1, <3>2
  <2>3. \A s, t \in Sheets!Present(stored) :
           stored.stops[s].order = stored.stops[t].order
           /\ stored.stops[s].order \notin twice \cup {Sheets!NoOrder} => s = t
    BY <2>1 DEF Once
  <2> QED BY <2>2, <2>3 DEF Sheets!OnceUnlessOverlapped
<1> QED BY <1>1, ImportsSoundAlways, PTL

\* Who ends with something written is an upload that commits.
LEMMA WritesByCommit ==
    ASSUME ImportsSound, Sheets!ImportNext, NEW c \in Clerks, Sending(c), ~Sending(c)', stored' # stored
    PROVE  Sheets!CommitUpload(c)
<1>0. ImportsTyped
  BY DEF ImportsSound
<1>1. ASSUME NEW d \in Clerks, Sheets!CommitUpload(d) PROVE d = c
  <2>1. upload' = Sheets!Noticed(d, "upload")
    BY <1>1 DEF Sheets!CommitUpload
  <2> QED BY <1>0, <2>1, NoticedUploads
<1>2. ASSUME NEW t, NEW row, Sheets!EditStop(t, row) PROVE FALSE
  <2>1. upload' = Sheets!Noticed(Sheets!None, "edit")
    BY <1>2 DEF Sheets!EditStop
  <2>2. c # Sheets!None
    BY ImportConstants
  <2> QED BY <1>0, <2>1, <2>2, NoticedUploads
<1> QED BY <1>1, <1>2 DEF Sheets!ImportNext, Sheets!Upload, Sheets!Confirm,
            Sheets!GiveUp, Sheets!Refuse, Sheets!FailUpload

\* An upload overwrites a value of a stop only with an authorization and with an entry of
\* the audit, and only what was counted when it was refused (and shown, if the list was
\* short), but for rows that others wrote since and stops that are there twice; and the
\* upload of a carrier's user never gives the carrier a stored load (authorize_changes,
\* collect_changes, require_scoped_route).
THEOREM OverwritesAccountedForAlways == Spec => OverwritesAccountedFor
<1>1. ASSUME ImportsSound, Sheets!ImportNext \/ UNCHANGED importVars,
             NEW c \in Clerks, Sending(c), ~Sending(c)', NEW s \in Sheets!Present(stored),
             stored'.stops[s].city # stored.stops[s].city
      PROVE  Sheets!Accounted(c, s)
  <2>1. Sheets!CommitUpload(c)
    <3>1. stored' # stored
      BY <1>1
    <3> QED BY <1>1, <3>1, WritesByCommit DEF importVars
  <2>2. PICK u : u = upload[c]
    OBVIOUS
  <2>3. u.phase = "sent" /\ ~Sheets!MustAsk(u) /\ Commits(stored, stored', c, u)
    BY <2>1, <2>2, CommitUploads
  <2>4. /\ u \in SentFile /\ UploadSound(u, stored, overlap, twice) /\ stored \in Store /\ StoreSound(stored)
        /\ StillRead(u, stored) /\ OwnLoad(u) /\ twice \subseteq OrderNumbers
    BY <1>1, <2>2, <2>3 DEF ImportsSound, ImportsTyped, UploadSound
  <2>5. PICK d, e : d = stored /\ e = stored'
    OBVIOUS
  <2>6. /\ stored'.audit = stored.audit \cup ({c} \X u.changes)
        /\ stored'.stops[s].city = Sheets!CityAfter(u, s, stored.stops[s].city)
    <3>1. /\ e.audit = d.audit \cup ({c} \X u.changes)
          /\ \A t \in Sheets!Present(d) : e.stops[t].city = Sheets!CityAfter(u, t, d.stops[t].city)
      BY <2>3, <2>4, <2>5, UploadedRows
    <3> QED BY <2>5, <3>1
  <2>7. /\ \E change \in u.changes : change[1] = s
        /\ stored'.stops[s].city = Sheets!LastValue(u, s) /\ s # Sheets!None
    BY <1>1, <2>6, ImportConstants DEF Sheets!CityAfter, Sheets!Present
  <2>8. PICK last \in u.changes : last[1] = s /\ last[3] = stored'.stops[s].city
    BY <2>4, <2>7 DEF StillRead
  <2>9. s \in u.since \/ /\ stored.stops[s].order \in OrderNumbers
                         /\ \E first \in u.changes : first[1] = s /\ first[2] = stored.stops[s].city
    BY <2>4, <2>7 DEF StillRead
  <2>10. u.confirmed
    BY <2>3, <2>7 DEF Sheets!MustAsk
  <2>11. PICK audited : audited = {entry[2] : entry \in {x \in stored'.audit : x[1] = c}}
    OBVIOUS
  <2>12. \A change \in u.changes : change \in audited
    <3> SUFFICES ASSUME NEW change \in u.changes PROVE change \in audited
      OBVIOUS
    <3>1. <<c, change>> \in stored'.audit
      BY <2>6
    <3>2. <<c, change>>[1] = c /\ <<c, change>>[2] = change
      OBVIOUS
    <3>3. <<c, change>> \in {x \in stored'.audit : x[1] = c}
      BY <3>1, <3>2
    <3> QED BY <2>11, <3>2, <3>3
  <2>13. s \in u.since \/ Sheets!Tell(audited, s, stored.stops[s].city, stored'.stops[s].city)
    BY <2>8, <2>9, <2>12 DEF Sheets!Tell
  <2>14. ASSUME s \notin u.since, ~overlap, stored.stops[s].order \notin twice
         PROVE  /\ Sheets!Tell(u.listed, s, stored.stops[s].city, stored'.stops[s].city)
                /\ Sheets!Cardinality(u.listed) <= MaxShown
                     => Sheets!Tell(u.shown, s, stored.stops[s].city, stored'.stops[s].city)
    <3>1. stored.stops[s].order \in OrderNumbers
      BY <2>9, <2>14
    <3>2. s \in Plain(u, stored, twice)
      BY <2>14, <3>1 DEF Plain
    <3>3. \A change \in u.changes : change[1] = s => change \in u.listed
      BY <2>3, <2>4, <2>10, <2>14, <3>2 DEF UploadSound, WasListed
    <3>4. Sheets!Tell(u.listed, s, stored.stops[s].city, stored'.stops[s].city)
      BY <2>8, <2>9, <2>14, <3>3 DEF Sheets!Tell
    <3>5. Sheets!Cardinality(u.listed) <= MaxShown => u.shown = u.listed
      BY <2>4, SheetsCardinality DEF UploadSound, ShortShown
    <3> QED BY <3>4, <3>5
  <2> QED BY <2>2, <2>8, <2>10, <2>11, <2>12, <2>13, <2>14 DEF Sheets!Accounted
<1>2. ASSUME ImportsSound, Sheets!ImportNext \/ UNCHANGED importVars,
             NEW c \in Clerks, Sending(c), ~Sending(c)', NEW r \in stored.routes,
             stored'.carrier[r] # stored.carrier[r]
      PROVE  upload[c].sheet.own = Sheets!NoCarrier \/ stored'.carrier[r] = Sheets!NoCarrier
  <2>1. Sheets!CommitUpload(c)
    <3>1. stored' # stored
      BY <1>2
    <3> QED BY <1>2, <3>1, WritesByCommit DEF importVars
  <2>2. PICK u, d, e : u = upload[c] /\ d = stored /\ e = stored'
    OBVIOUS
  <2>3. u.phase = "sent" /\ Commits(d, e, c, u)
    BY <2>1, <2>2, CommitUploads
  <2>4. /\ u \in SentFile /\ d \in Store /\ StoreSound(d) /\ StillRead(u, d) /\ OwnLoad(u)
    BY <1>2, <2>2, <2>3 DEF ImportsSound, ImportsTyped, UploadSound
  <2>5. \A q \in d.routes : e.carrier[q] # d.carrier[q]
           => u.sheet.own = Sheets!NoCarrier \/ e.carrier[q] = Sheets!NoCarrier
    <3>1. d \in Store /\ StoreSound(d) /\ u \in SentFile
      BY <2>4
    <3>2. Commits(d, e, c, u) /\ StillRead(u, d) /\ OwnLoad(u)
      BY <2>3, <2>4
    <3> QED BY <3>1, <3>2, UploadedRows
  <2> QED BY <1>2, <2>2, <2>5
<1>3. ASSUME ImportsSound, [Next]_vars
      PROVE  [\A c \in Clerks : upload[c] # Sheets!Idle /\ upload'[c] = Sheets!Idle =>
                /\ \A s \in Sheets!Present(stored) :
                      stored'.stops[s].city # stored.stops[s].city => Sheets!Accounted(c, s)
                /\ \A r \in stored.routes :
                      stored'.carrier[r] # stored.carrier[r]
                         => upload[c].sheet.own = Sheets!NoCarrier \/ stored'.carrier[r] = Sheets!NoCarrier
             ]_(Sheets!importVars)
  BY <1>1, <1>2, <1>3 DEF Next, vars, Sending, importVars, Sheets!importVars
<1> QED BY <1>3, ImportsSoundAlways, PTL DEF Spec, OverwritesAccountedFor, Sheets!OverwritesAccountedFor


(***************************************************************************)
(* RouteMaps.  The planned order enumerates the stops: the rank of a stop is  *)
(* the number of those before it, so no two stops share one and none is left   *)
(* out.                                                                       *)
(***************************************************************************)
RowRecord == [sequence: Nat \ {0}, optimized: Nat, place: Places]
RowSets == [MapStops -> RowRecord \cup {Maps!NoRow}]
Earlier(rows, s) == {t \in Maps!Live(rows) : Maps!Before(rows, t, s)}
Rank(rows, s) == Cardinality(Earlier(rows, s)) + 1
LiveCount(rows) == Cardinality(Maps!Live(rows))

LEMMA MapsCardinality == \A S : Maps!Cardinality(S) = Cardinality(S)
BY DEF Maps!Cardinality, Cardinality

LEMMA PositionsNumbered == Maps!Positions \subseteq Nat \ {0}
<1>1. Cardinality(MapStops) \in Nat
  BY MapsAssumption, FS_CardinalityType
<1>2. Maps!Positions = 1..Cardinality(MapStops)
  BY MapsCardinality DEF Maps!Positions
<1> QED BY <1>1, <1>2

LEMMA LiveRows ==
    ASSUME NEW rows \in RowSets
    PROVE  /\ Maps!Live(rows) \subseteq MapStops /\ IsFiniteSet(Maps!Live(rows)) /\ LiveCount(rows) \in Nat
           /\ \A s \in Maps!Live(rows) : rows[s] \in RowRecord
           /\ \A s \in MapStops : s \notin Maps!Live(rows) => rows[s] = Maps!NoRow
<1>1. Maps!Live(rows) \subseteq MapStops
  BY DEF Maps!Live
<1>2. IsFiniteSet(Maps!Live(rows))
  BY <1>1, MapsAssumption, FS_Subset
<1>3. LiveCount(rows) \in Nat
  BY <1>2, FS_CardinalityType DEF LiveCount
<1> QED BY <1>1, <1>2, <1>3 DEF Maps!Live, RowSets

\* Every stop has a rank of its own among 1, 2, ..., and every rank has a stop.
LEMMA RanksEnumerate ==
    ASSUME NEW rows \in RowSets
    PROVE  /\ \A s \in Maps!Live(rows) : Rank(rows, s) \in 1..LiveCount(rows)
           /\ \A s, t \in Maps!Live(rows) : Rank(rows, s) = Rank(rows, t) => s = t
           /\ \A i \in 1..LiveCount(rows) : \E s \in Maps!Live(rows) : Rank(rows, s) = i
<1>1. /\ Maps!Live(rows) \subseteq MapStops /\ IsFiniteSet(Maps!Live(rows)) /\ LiveCount(rows) \in Nat
      /\ \A s \in Maps!Live(rows) : rows[s] \in RowRecord
  BY LiveRows
<1>2. \A s \in Maps!Live(rows) : s \in Int /\ rows[s].sequence \in Int
  BY <1>1, MapsAssumption DEF RowRecord
<1>3. ASSUME NEW s \in Maps!Live(rows)
      PROVE  /\ IsFiniteSet(Earlier(rows, s)) /\ Cardinality(Earlier(rows, s)) \in Nat
             /\ Cardinality(Earlier(rows, s)) < LiveCount(rows)
  <2>1. Earlier(rows, s) \in SUBSET Maps!Live(rows)
    BY DEF Earlier
  <2>2. s \notin Earlier(rows, s)
    BY <1>2 DEF Earlier, Maps!Before
  <2>3. IsFiniteSet(Earlier(rows, s)) /\ Cardinality(Earlier(rows, s)) <= LiveCount(rows)
        /\ Cardinality(Earlier(rows, s)) # LiveCount(rows)
    BY <1>1, <2>1, <2>2, FS_Subset DEF LiveCount
  <2>4. Cardinality(Earlier(rows, s)) \in Nat
    BY <2>3, FS_CardinalityType
  <2> QED BY <1>1, <2>3, <2>4
<1>4. \A s \in Maps!Live(rows) : Rank(rows, s) \in 1..LiveCount(rows)
  BY <1>1, <1>3 DEF Rank
<1>5. ASSUME NEW s \in Maps!Live(rows), NEW t \in Maps!Live(rows), Maps!Before(rows, s, t)
      PROVE  Rank(rows, s) # Rank(rows, t)
  <2>1. Earlier(rows, s) \in SUBSET Earlier(rows, t)
    BY <1>2, <1>5 DEF Earlier, Maps!Before
  <2>2. s \in Earlier(rows, t) /\ s \notin Earlier(rows, s)
    BY <1>2, <1>5 DEF Earlier, Maps!Before
  <2>3. Cardinality(Earlier(rows, s)) # Cardinality(Earlier(rows, t))
    BY <1>3, <2>1, <2>2, FS_Subset
  <2> QED BY <1>3, <2>3 DEF Rank
<1>6. ASSUME NEW s \in Maps!Live(rows), NEW t \in Maps!Live(rows), Rank(rows, s) = Rank(rows, t)
      PROVE  s = t
  <2>1. s # t => Maps!Before(rows, s, t) \/ Maps!Before(rows, t, s)
    BY <1>2 DEF Maps!Before
  <2> QED BY <1>5, <1>6, <2>1
<1>7. \A i \in 1..LiveCount(rows) : \E s \in Maps!Live(rows) : Rank(rows, s) = i
  <2> DEFINE f == [s \in Maps!Live(rows) |-> Rank(rows, s)]
             T == 1..LiveCount(rows)
  <2>1. f \in Injection(Maps!Live(rows), T)
    BY <1>4, <1>6 DEF Injection, IsInjective
  <2>2. IsFiniteSet(T) /\ Cardinality(T) = Cardinality(Maps!Live(rows))
    <3>1. IsFiniteSet(1..LiveCount(rows)) /\ Cardinality(1..LiveCount(rows)) = LiveCount(rows)
      BY <1>1, FS_Interval
    <3> QED BY <3>1 DEF LiveCount
  <2>3. \A s \in Maps!Live(rows) : f[s] = Rank(rows, s)
    OBVIOUS
  <2> HIDE DEF f, T
  <2>4. f \in Surjection(Maps!Live(rows), T)
    BY <2>1, <2>2, FS_Injection
  <2>5. \A i \in T : \E s \in Maps!Live(rows) : f[s] = i
    BY <2>4 DEF Surjection
  <2> QED BY <2>3, <2>5 DEF T
<1> QED BY <1>4, <1>6, <1>7

\* The planned order visits every stop once, at its rank.
LEMMA PlannedByRank ==
    ASSUME NEW rows \in RowSets
    PROVE  /\ Maps!Planned(rows) \in [1..LiveCount(rows) -> Maps!Live(rows)]
           /\ \A i \in 1..LiveCount(rows), s \in Maps!Live(rows) :
                 Maps!Planned(rows)[i] = s <=> Rank(rows, s) = i
<1> DEFINE rank(s) == Maps!Cardinality({t \in Maps!Live(rows) : Maps!Before(rows, t, s)}) + 1
<1>1. ASSUME NEW s PROVE rank(s) = Rank(rows, s)
  BY MapsCardinality DEF Rank, Earlier
<1>2. Maps!Planned(rows) = [i \in 1..LiveCount(rows) |-> CHOOSE s \in Maps!Live(rows) : rank(s) = i]
  BY MapsCardinality DEF Maps!Planned, LiveCount
<1> HIDE DEF rank
<1>3. ASSUME NEW i \in 1..LiveCount(rows)
      PROVE  Maps!Planned(rows)[i] \in Maps!Live(rows) /\ Rank(rows, Maps!Planned(rows)[i]) = i
  <2>1. \E s \in Maps!Live(rows) : rank(s) = i
    BY <1>1, RanksEnumerate
  <2>2. Maps!Planned(rows)[i] = CHOOSE s \in Maps!Live(rows) : rank(s) = i
    BY <1>2
  <2>3. Maps!Planned(rows)[i] \in Maps!Live(rows) /\ rank(Maps!Planned(rows)[i]) = i
    BY <2>1, <2>2
  <2> QED BY <1>1, <2>3
<1>4. \A i \in 1..LiveCount(rows), s \in Maps!Live(rows) : Maps!Planned(rows)[i] = s <=> Rank(rows, s) = i
  BY <1>3, RanksEnumerate
<1> QED BY <1>2, <1>3, <1>4

\* Rows with the same stops, and with the same sequence and address for each.
SameStops(rows, other) == Maps!Live(other) = Maps!Live(rows)
SamePlan(rows, other) ==
    SameStops(rows, other) /\ \A s \in Maps!Live(rows) :
        other[s].sequence = rows[s].sequence /\ other[s].place = rows[s].place

LEMMA PlannedStays ==
    ASSUME NEW rows \in RowSets, NEW other \in RowSets, SamePlan(rows, other)
    PROVE  Maps!LineThrough(other, Maps!Planned(other)) = Maps!LineThrough(rows, Maps!Planned(rows))
<1>1. Maps!Live(other) = Maps!Live(rows) /\ LiveCount(other) = LiveCount(rows)
  BY DEF SamePlan, SameStops, LiveCount
<1>2. ASSUME NEW s \in Maps!Live(rows) PROVE Rank(other, s) = Rank(rows, s)
  <2>1. Earlier(other, s) = Earlier(rows, s)
    BY <1>1 DEF Earlier, Maps!Before, SamePlan
  <2> QED BY <2>1 DEF Rank
<1>3. /\ Maps!Planned(rows) \in [1..LiveCount(rows) -> Maps!Live(rows)]
      /\ \A i \in 1..LiveCount(rows), s \in Maps!Live(rows) :
            Maps!Planned(rows)[i] = s <=> Rank(rows, s) = i
  BY PlannedByRank
<1>4. /\ Maps!Planned(other) \in [1..LiveCount(rows) -> Maps!Live(rows)]
      /\ \A i \in 1..LiveCount(rows), s \in Maps!Live(rows) :
            Maps!Planned(other)[i] = s <=> Rank(other, s) = i
  BY <1>1, PlannedByRank
<1>5. Maps!Planned(other) = Maps!Planned(rows)
  <2>1. \A i \in 1..LiveCount(rows) : Maps!Planned(other)[i] = Maps!Planned(rows)[i]
    BY <1>2, <1>3, <1>4
  <2>2. PICK f, g : f = Maps!Planned(rows) /\ g = Maps!Planned(other)
    OBVIOUS
  <2>3. f = [i \in 1..LiveCount(rows) |-> f[i]] /\ g = [i \in 1..LiveCount(rows) |-> g[i]]
    BY <1>3, <1>4, <2>2
  <2>4. \A i \in 1..LiveCount(rows) : f[i] = g[i]
    BY <2>1, <2>2
  <2> QED BY <2>2, <2>3, <2>4
<1> QED BY <1>3, <1>5 DEF Maps!LineThrough, SamePlan

\* A suggested line gives each stop a position of its own, and visits it there.
Suggests(rows, line) ==
    /\ line = [i \in 1..LiveCount(rows) |-> line[i]]
    /\ {rows[s].optimized : s \in Maps!Live(rows)} = 1..LiveCount(rows)
    /\ \A s \in Maps!Live(rows) : line[rows[s].optimized] = <<s, rows[s].place>>

\* With the positions of the suggestion as its sequence the plan is the suggested line.
LEMMA SuggestionApplied ==
    ASSUME NEW rows \in RowSets, NEW other \in RowSets, SameStops(rows, other),
           NEW line, Suggests(rows, line),
           \A s \in Maps!Live(rows) : other[s].sequence = rows[s].optimized /\ other[s].place = rows[s].place
    PROVE  line = Maps!LineThrough(other, Maps!Planned(other))
<1> DEFINE n == LiveCount(rows)
<1>1. Maps!Live(other) = Maps!Live(rows) /\ LiveCount(other) = n
  BY DEF SameStops, LiveCount
<1>2. n \in Nat /\ IsFiniteSet(Maps!Live(rows))
  BY LiveRows
<1>3. /\ \A s \in Maps!Live(rows) : rows[s].optimized \in 1..n
      /\ \A i \in 1..n : \E s \in Maps!Live(rows) : rows[s].optimized = i
  BY DEF Suggests
<1>4. \A s, t \in Maps!Live(rows) : rows[s].optimized = rows[t].optimized => s = t
  BY DEF Suggests
<1> HIDE DEF n
<1>5. ASSUME NEW s \in Maps!Live(rows) PROVE Rank(other, s) = rows[s].optimized
  <2> DEFINE f == [t \in Earlier(other, s) |-> rows[t].optimized]
             T == 1..(rows[s].optimized - 1)
  <2>1. \A t \in Maps!Live(rows) : rows[t].optimized \in Int /\ (Maps!Before(other, t, s) <=> rows[t].optimized < rows[s].optimized)
    <3> SUFFICES ASSUME NEW t \in Maps!Live(rows)
                 PROVE  rows[t].optimized \in Int /\ (Maps!Before(other, t, s) <=> rows[t].optimized < rows[s].optimized)
      OBVIOUS
    <3>1. rows[t].optimized \in Int /\ rows[s].optimized \in Int /\ t \in Int
      <4>1. t \in MapStops
        BY LiveRows
      <4> QED BY <1>2, <1>3, <4>1, MapsAssumption
    <3>2. rows[t].optimized = rows[s].optimized => t = s
      BY <1>4
    <3> QED BY <3>1, <3>2 DEF Maps!Before
  <2>2. Earlier(other, s) = {t \in Maps!Live(rows) : rows[t].optimized < rows[s].optimized}
    BY <1>1, <2>1 DEF Earlier
  <2>3. rows[s].optimized \in 1..n
    BY <1>3
  <2>4. f \in [Earlier(other, s) -> T]
    BY <1>2, <1>3, <2>2, <2>3
  <2>5. \A t \in Earlier(other, s) : f[t] = rows[t].optimized
    OBVIOUS
  <2>6. T = 1..(rows[s].optimized - 1)
    OBVIOUS
  <2> HIDE DEF f, T
  <2>7. f \in Injection(Earlier(other, s), T)
    BY <1>4, <2>2, <2>4, <2>5 DEF Injection, IsInjective
  <2>8. f \in Surjection(Earlier(other, s), T)
    <3>1. ASSUME NEW i \in T PROVE \E t \in Earlier(other, s) : f[t] = i
      <4>1. i \in 1..n /\ i < rows[s].optimized
        BY <1>2, <2>3, <2>6
      <4>2. PICK t \in Maps!Live(rows) : rows[t].optimized = i
        BY <1>3, <4>1
      <4> QED BY <2>2, <2>5, <4>1, <4>2
    <3> QED BY <2>4, <3>1 DEF Surjection
  <2>9. IsFiniteSet(T) /\ Cardinality(T) = rows[s].optimized - 1
    <3>1. rows[s].optimized \in Int /\ rows[s].optimized >= 1
      BY <1>2, <2>3
    <3>2. PICK a, b : a = 1 /\ b = rows[s].optimized - 1
      OBVIOUS
    <3>3. a \in Int /\ b \in Int /\ T = a..b
      BY <2>6, <3>1, <3>2
    <3>4. IsFiniteSet(a..b) /\ Cardinality(a..b) = IF a > b THEN 0 ELSE b - a + 1
      BY <3>3, FS_Interval
    <3> QED BY <3>1, <3>2, <3>3, <3>4
  <2>10. Cardinality(Earlier(other, s)) = Cardinality(T)
    BY <2>7, <2>8, <2>9, FS_Injection
  <2>11. rows[s].optimized \in Int
    BY <1>2, <2>3
  <2> QED BY <2>9, <2>10, <2>11 DEF Rank
<1>6. /\ Maps!Planned(other) \in [1..n -> Maps!Live(rows)]
      /\ \A i \in 1..n, s \in Maps!Live(rows) : Maps!Planned(other)[i] = s <=> Rank(other, s) = i
  BY <1>1, PlannedByRank
<1>7. ASSUME NEW i \in 1..n
      PROVE  line[i] = <<Maps!Planned(other)[i], other[Maps!Planned(other)[i]].place>>
  <2>1. PICK s \in Maps!Live(rows) : s = Maps!Planned(other)[i]
    BY <1>6
  <2>2. rows[s].optimized = i
    BY <1>5, <1>6, <2>1
  <2> QED BY <2>1, <2>2 DEF Suggests
<1>8. line = [i \in 1..n |-> line[i]]
  BY DEF Suggests, n
<1>9. Maps!LineThrough(other, Maps!Planned(other))
        = [i \in 1..n |-> <<Maps!Planned(other)[i], other[Maps!Planned(other)[i]].place>>]
  BY <1>6 DEF Maps!LineThrough
<1> QED BY <1>7, <1>8, <1>9

\* Only the positions of the suggestion are written: n gives them.
Repositioned(rows, n) ==
    [s \in MapStops |-> IF rows[s] = Maps!NoRow THEN Maps!NoRow ELSE [rows[s] EXCEPT !.optimized = n[s]]]

LEMMA RepositionedRows ==
    ASSUME NEW rows \in RowSets, NEW n, \A s \in Maps!Live(rows) : n[s] \in Nat,
           NEW other, other = Repositioned(rows, n)
    PROVE  /\ other \in RowSets /\ SamePlan(rows, other)
           /\ \A s \in Maps!Live(rows) : other[s].optimized = n[s]
<1>1. /\ \A s \in Maps!Live(rows) : s \in MapStops /\ rows[s] \in RowRecord
      /\ \A s \in MapStops : s \notin Maps!Live(rows) => rows[s] = Maps!NoRow
  BY LiveRows
<1>2. ASSUME NEW s \in Maps!Live(rows)
      PROVE  /\ other[s] \in RowRecord /\ other[s] # Maps!NoRow /\ other[s].optimized = n[s]
             /\ other[s].sequence = rows[s].sequence /\ other[s].place = rows[s].place
  <2>1. other[s] = [rows[s] EXCEPT !.optimized = n[s]]
    BY <1>1 DEF Repositioned, Maps!Live
  <2> QED BY <1>1, <2>1 DEF RowRecord, Maps!NoRow
<1>3. ASSUME NEW s \in MapStops, s \notin Maps!Live(rows) PROVE other[s] = Maps!NoRow
  BY <1>1, <1>3 DEF Repositioned
<1>4. other \in RowSets
  BY <1>2, <1>3 DEF RowSets, Repositioned
<1>5. Maps!Live(other) = Maps!Live(rows)
  <2>1. \A s \in MapStops : s \in Maps!Live(other) <=> other[s] # Maps!NoRow
    BY DEF Maps!Live
  <2>2. \A s \in Maps!Live(other) : s \in MapStops
    BY DEF Maps!Live
  <2> QED BY <1>1, <1>2, <1>3, <2>1, <2>2
<1> QED BY <1>2, <1>4, <1>5 DEF SamePlan, SameStops

\* The planner's order is a permutation of the positions.
LEMMA OrderPermutes ==
    ASSUME NEW rows \in RowSets, NEW stops, stops = Maps!Planned(rows), Maps!Divided(rows, stops),
           NEW order \in Maps!Orders(rows, stops)
    PROVE  /\ Len(stops) = LiveCount(rows) /\ DOMAIN stops = 1..LiveCount(rows)
           /\ order \in [1..LiveCount(rows) -> 1..LiveCount(rows)]
           /\ \A i, k \in 1..LiveCount(rows) : order[i] = order[k] => i = k
           /\ \A i \in 1..LiveCount(rows) : \E k \in 1..LiveCount(rows) : order[k] = i
<1> DEFINE n == LiveCount(rows)
<1>1. n \in Nat /\ stops \in [1..n -> Maps!Live(rows)] /\ n <= Cardinality(MapStops) /\ Cardinality(MapStops) \in Nat
  <2>1. Maps!Live(rows) \in SUBSET MapStops
    BY LiveRows
  <2>2. Cardinality(Maps!Live(rows)) <= Cardinality(MapStops) /\ Cardinality(MapStops) \in Nat
    BY <2>1, MapsAssumption, FS_Subset, FS_CardinalityType
  <2> QED BY <2>2, LiveRows, PlannedByRank DEF LiveCount
<1> HIDE DEF n
<1>2. Len(stops) = n /\ DOMAIN stops = 1..n
  <2>1. stops \in Seq(Maps!Live(rows))
    BY <1>1
  <2> QED BY <1>1, <2>1
<1>3. n \in Maps!Positions
  <2>1. n # 0
    BY <1>2 DEF Maps!Divided
  <2> QED BY <1>1, <2>1, MapsCardinality DEF Maps!Positions
<1>4. order \in [1..n -> 1..n] /\ \A i, k \in 1..n : order[i] = order[k] => i = k
  <2>1. order \in Maps!Reorderings[n]
    BY <1>2 DEF Maps!Orders
  <2>2. Maps!Reorderings[n] = {p \in [1..n -> 1..n] : p[n] = n /\ \A i, k \in 1..n : p[i] = p[k] => i = k}
    BY <1>3 DEF Maps!Reorderings
  <2> QED BY <2>1, <2>2
<1>5. \A i \in 1..n : \E k \in 1..n : order[k] = i
  <2> DEFINE T == 1..n
  <2>1. order \in Injection(T, T)
    BY <1>4 DEF Injection, IsInjective
  <2>2. IsFiniteSet(T)
    BY <1>1, FS_Interval
  <2> HIDE DEF T
  <2>3. order \in Surjection(T, T)
    BY <2>1, <2>2, FS_Injection
  <2>4. \A i \in T : \E k \in T : order[k] = i
    BY <2>3 DEF Surjection
  <2> QED BY <2>4 DEF T
<1> QED BY <1>2, <1>4, <1>5 DEF n

\* What the planner's order makes of the rows, and the line through them in that order.
LEMMA OrderSuggests ==
    ASSUME NEW rows \in RowSets, NEW stops, stops = Maps!Planned(rows), Maps!Divided(rows, stops),
           NEW order \in Maps!Orders(rows, stops),
           NEW better, better = [i \in DOMAIN stops |-> stops[order[i]]],
           NEW n,
           \A s \in Maps!Live(rows) : (\E i \in DOMAIN stops : better[i] = s) => n[s] \in DOMAIN stops /\ better[n[s]] = s,
           NEW other, other = Repositioned(rows, n)
    PROVE  /\ \A s \in Maps!Live(rows) : n[s] \in Nat
           /\ Suggests(other, Maps!LineThrough(rows, better))
<1>1. /\ LiveCount(rows) \in Nat /\ Maps!Live(rows) \subseteq MapStops
      /\ stops \in [1..LiveCount(rows) -> Maps!Live(rows)]
      /\ \A i, k \in 1..LiveCount(rows) : stops[i] = stops[k] => i = k
      /\ \A s \in Maps!Live(rows) : \E i \in 1..LiveCount(rows) : stops[i] = s
  BY LiveRows, RanksEnumerate, PlannedByRank
<1>2. /\ DOMAIN stops = 1..LiveCount(rows)
      /\ order \in [1..LiveCount(rows) -> 1..LiveCount(rows)]
      /\ \A i, k \in 1..LiveCount(rows) : order[i] = order[k] => i = k
      /\ \A i \in 1..LiveCount(rows) : \E k \in 1..LiveCount(rows) : order[k] = i
  BY OrderPermutes
<1>3. /\ better \in [1..LiveCount(rows) -> Maps!Live(rows)]
      /\ \A i, k \in 1..LiveCount(rows) : better[i] = better[k] => i = k
      /\ \A s \in Maps!Live(rows) : \E i \in 1..LiveCount(rows) : better[i] = s
  <2>1. better = [i \in 1..LiveCount(rows) |-> stops[order[i]]]
    BY <1>2
  <2>2. better \in [1..LiveCount(rows) -> Maps!Live(rows)]
    BY <1>1, <1>2, <2>1
  <2>3. \A i \in 1..LiveCount(rows) : better[i] = stops[order[i]] /\ order[i] \in 1..LiveCount(rows)
    BY <1>2, <2>1
  <2>4. \A i, k \in 1..LiveCount(rows) : better[i] = better[k] => i = k
    BY <1>1, <1>2, <2>3
  <2>5. ASSUME NEW s \in Maps!Live(rows) PROVE \E i \in 1..LiveCount(rows) : better[i] = s
    <3>1. PICK i \in 1..LiveCount(rows) : stops[i] = s
      BY <1>1
    <3>2. PICK k \in 1..LiveCount(rows) : order[k] = i
      BY <1>2
    <3> QED BY <2>3, <3>1, <3>2
  <2> QED BY <2>2, <2>4, <2>5
<1>4. ASSUME NEW s \in Maps!Live(rows) PROVE n[s] \in 1..LiveCount(rows) /\ better[n[s]] = s
  BY <1>2, <1>3
<1>5. \A s \in Maps!Live(rows) : n[s] \in Nat
  BY <1>1, <1>4
<1>6. /\ SamePlan(rows, other) /\ \A s \in Maps!Live(rows) : other[s].optimized = n[s]
  BY <1>5, RepositionedRows
<1>7. /\ Maps!Live(other) = Maps!Live(rows) /\ LiveCount(other) = LiveCount(rows)
      /\ \A s \in Maps!Live(rows) : other[s].place = rows[s].place
  BY <1>6 DEF SamePlan, SameStops, LiveCount
<1>8. PICK line : line = Maps!LineThrough(rows, better)
  OBVIOUS
<1>9. line = [i \in 1..LiveCount(rows) |-> <<better[i], rows[better[i]].place>>]
  BY <1>3, <1>8 DEF Maps!LineThrough
<1>10. ASSUME NEW i \in 1..LiveCount(rows) PROVE \E s \in Maps!Live(rows) : n[s] = i
  <2>1. PICK s \in Maps!Live(rows) : s = better[i]
    BY <1>3
  <2>2. PICK k \in 1..LiveCount(rows) : k = n[s] /\ better[k] = better[i]
    BY <1>4, <2>1
  <2> QED BY <1>3, <2>2
<1>11. {other[s].optimized : s \in Maps!Live(rows)} = 1..LiveCount(rows)
  BY <1>4, <1>6, <1>10
<1>12. \A s \in Maps!Live(rows) : line[n[s]] = <<s, rows[s].place>>
  BY <1>4, <1>9
<1>13. Suggests(other, line)
  <2>1. line = [i \in 1..LiveCount(other) |-> line[i]]
    BY <1>7, <1>9
  <2>2. {other[s].optimized : s \in Maps!Live(other)} = 1..LiveCount(other)
    BY <1>7, <1>11
  <2>3. \A s \in Maps!Live(other) : line[other[s].optimized] = <<s, other[s].place>>
    BY <1>6, <1>7, <1>12
  <2> QED BY <2>1, <2>2, <2>3 DEF Suggests
<1> QED BY <1>5, <1>8, <1>13

(***************************************************************************)
(* What a job has read is as old as its reading; while nobody has edited the  *)
(* route its stops are still those stored, and so is each of the two lines     *)
(* that no other job has replaced since.  Under the lines that are said to     *)
(* fit: the line on the map visits the planned order, the suggested one the    *)
(* suggested order.                                                           *)
(***************************************************************************)
MapTyped(m) ==
    /\ m = [rows |-> m.rows, origin |-> m.origin, status |-> m.status,
            line |-> m.line, suggested |-> m.suggested]
    /\ m.rows \in RowSets
SamePositions(rows, other) == \A s \in Maps!Live(rows) : other[s].optimized = rows[s].optimized
Current(read, m, touched) ==
    /\ SamePlan(read.rows, m.rows)
    /\ "line" \notin touched => m.line = read.line
    /\ "suggested" \notin touched => m.suggested = read.suggested /\ SamePositions(read.rows, m.rows)
FitSound(m, lines) ==
    /\ "line" \in lines /\ m.line # Maps!NoLine
          => m.line = Maps!LineThrough(m.rows, Maps!Planned(m.rows))
    /\ "suggested" \in lines /\ m.suggested # Maps!NoLine => Suggests(m.rows, m.suggested)
JobTyped(k) ==
    \/ k = Maps!Idle
    \/ k \in [phase: {"asked", "queued"}, kind: Maps!Kinds]
    \/ /\ k = [phase |-> "loaded", kind |-> k.kind, read |-> k.read, stale |-> k.stale, touched |-> k.touched]
       /\ k.stale \in BOOLEAN /\ MapTyped(k.read)
JobSound(k, m) == JobTyped(k) /\ (k.phase = "loaded" /\ ~k.stale => Current(k.read, m, k.touched))
MapsSound ==
    /\ MapTyped(map) /\ FitSound(map, fit)
    /\ job = [j \in Jobs |-> job[j]] /\ \A j \in Jobs : JobSound(job[j], map)

\* A suggestion stays one while the stops, their addresses and positions stay.
LEMMA SuggestionStays ==
    ASSUME NEW rows \in RowSets, NEW other \in RowSets, SamePlan(rows, other), SamePositions(rows, other),
           NEW line, Suggests(rows, line)
    PROVE  Suggests(other, line)
<1>1. Maps!Live(other) = Maps!Live(rows) /\ LiveCount(other) = LiveCount(rows)
  BY DEF SamePlan, SameStops, LiveCount
<1>2. \A s \in Maps!Live(rows) : other[s].optimized = rows[s].optimized /\ other[s].place = rows[s].place
  BY DEF SamePlan, SamePositions
<1>3. {other[s].optimized : s \in Maps!Live(rows)} = {rows[s].optimized : s \in Maps!Live(rows)}
  BY <1>2
<1> QED BY <1>1, <1>2, <1>3 DEF Suggests

LEMMA MapsInit == Maps!MapInit => MapsSound
<1> SUFFICES ASSUME Maps!MapInit PROVE MapsSound
  OBVIOUS
<1>1. PICK place \in Loads, origin \in {"sheet", "known"} :
          map = [rows |-> [s \in MapStops |-> [sequence |-> s, optimized |-> 0, place |-> place[s]]],
                 origin |-> origin, status |-> "pending", line |-> Maps!NoLine, suggested |-> Maps!NoLine]
  BY DEF Maps!MapInit
<1>2. map.rows \in RowSets
  <2>1. \A s \in MapStops : [sequence |-> s, optimized |-> 0, place |-> place[s]] \in RowRecord
    BY MapsAssumption DEF RowRecord
  <2> QED BY <1>1, <2>1 DEF RowSets
<1>3. MapTyped(map)
  BY <1>1, <1>2 DEF MapTyped
<1>4. FitSound(map, fit)
  BY DEF Maps!MapInit, FitSound
<1>5. job = [j \in Jobs |-> Maps!Idle]
  BY DEF Maps!MapInit
<1>6. \A j \in Jobs : JobSound(job[j], map)
  BY <1>5 DEF JobSound, JobTyped, Maps!Idle
<1> QED BY <1>3, <1>4, <1>5, <1>6 DEF MapsSound

\* What is computed from a reading of the map.
LEMMA ComputedSound ==
    ASSUME NEW read, MapTyped(read), NEW kind, NEW answer \in Maps!Answers(kind, read),
           NEW lines, FitSound(read, lines)
    PROVE  /\ Maps!Computed(read, answer).rows \in RowSets
           /\ SamePlan(read.rows, Maps!Computed(read, answer).rows)
           /\ FitSound(Maps!Computed(read, answer), lines \cup Maps!Redrawn(answer))
<1>0. PICK m, rows : m = Maps!Computed(read, answer) /\ rows = read.rows
  OBVIOUS
<1>1. rows \in RowSets
  BY <1>0 DEF MapTyped
<1>2. SamePlan(rows, rows)
  BY DEF SamePlan, SameStops
<1>3. ASSUME answer = <<"unlocated">>
      PROVE  m.rows \in RowSets /\ SamePlan(rows, m.rows) /\ FitSound(m, lines \cup Maps!Redrawn(answer))
  <2>1. m = Maps!Unlocated(read)
    BY <1>0, <1>3 DEF Maps!Computed
  <2>2. m.rows = rows /\ m.line = Maps!NoLine /\ m.suggested = Maps!NoLine
    BY <1>0, <2>1 DEF Maps!Unlocated, MapTyped
  <2> QED BY <1>1, <1>2, <2>2 DEF FitSound
<1>4. ASSUME NEW drawn \in BOOLEAN, answer = <<"legs", drawn>>
      PROVE  m.rows \in RowSets /\ SamePlan(rows, m.rows) /\ FitSound(m, lines \cup Maps!Redrawn(answer))
  <2>1. m = Maps!DrawnInLegs(read, drawn) /\ Maps!Redrawn(answer) = {"line"}
    BY <1>0, <1>4 DEF Maps!Computed, Maps!Redrawn
  <2>2. m.rows = rows /\ m.suggested = read.suggested
        /\ m.line = IF drawn THEN Maps!LineThrough(rows, Maps!Planned(rows)) ELSE Maps!NoLine
    BY <1>0, <2>1 DEF Maps!DrawnInLegs, MapTyped
  <2> QED BY <1>0, <1>1, <1>2, <2>1, <2>2 DEF FitSound
<1>5. ASSUME NEW drawn \in BOOLEAN, answer = <<"whole", drawn>>
      PROVE  m.rows \in RowSets /\ SamePlan(rows, m.rows) /\ FitSound(m, lines \cup Maps!Redrawn(answer))
  <2>1. m = Maps!Drawn(read, drawn)
    BY <1>0, <1>5 DEF Maps!Computed
  <2>2. m.suggested = Maps!NoLine
        /\ m.rows = [s \in MapStops |-> IF s \in Maps!Live(rows) THEN [rows[s] EXCEPT !.optimized = 0] ELSE Maps!NoRow]
        /\ m.line = IF drawn THEN Maps!LineThrough(rows, Maps!Planned(rows)) ELSE Maps!NoLine
    BY <1>0, <2>1 DEF Maps!Drawn, MapTyped
  <2>3. PICK n : n = [s \in MapStops |-> 0]
    OBVIOUS
  <2>4. m.rows = Repositioned(rows, n)
    BY <2>2, <2>3 DEF Repositioned, Maps!Live
  <2>5. m.rows \in RowSets /\ SamePlan(rows, m.rows)
    <3>1. \A s \in Maps!Live(rows) : n[s] \in Nat
      BY <2>3 DEF Maps!Live
    <3> QED BY <1>1, <2>4, <3>1, RepositionedRows
  <2>6. Maps!LineThrough(m.rows, Maps!Planned(m.rows)) = Maps!LineThrough(rows, Maps!Planned(rows))
    BY <1>1, <2>5, PlannedStays
  <2> QED BY <2>2, <2>5, <2>6 DEF FitSound
<1>6. ASSUME NEW drawn \in BOOLEAN, NEW order \in Maps!Orders(rows, Maps!Planned(rows)),
             Maps!Divided(rows, Maps!Planned(rows)), answer = <<"order", drawn, order>>
      PROVE  m.rows \in RowSets /\ SamePlan(rows, m.rows) /\ FitSound(m, lines \cup Maps!Redrawn(answer))
  <2>1. m = Maps!Suggested(read, order, drawn) /\ Maps!Redrawn(answer) = {"suggested"}
    BY <1>0, <1>6 DEF Maps!Computed, Maps!Redrawn
  <2>2. PICK stops : stops = Maps!Planned(rows)
    OBVIOUS
  <2>3. PICK better : better = [i \in DOMAIN stops |-> stops[order[i]]]
    OBVIOUS
  <2> DEFINE position(s) == CHOOSE i \in DOMAIN stops : better[i] = s
  <2>4. /\ m.line = read.line
        /\ m.rows = [s \in MapStops |-> IF s \in Maps!Live(rows) THEN [rows[s] EXCEPT !.optimized = position(s)]
                                        ELSE Maps!NoRow]
        /\ m.suggested = IF drawn THEN Maps!LineThrough(rows, better) ELSE Maps!NoLine
    BY <1>0, <2>1, <2>2, <2>3 DEF Maps!Suggested, MapTyped
  <2>5. ASSUME NEW s, \E i \in DOMAIN stops : better[i] = s
        PROVE  position(s) \in DOMAIN stops /\ better[position(s)] = s
    BY <2>5
  <2> HIDE DEF position
  <2>6. PICK n : n = [s \in MapStops |-> position(s)]
    OBVIOUS
  <2>7. m.rows = Repositioned(rows, n)
    BY <2>4, <2>6 DEF Repositioned, Maps!Live
  <2>8. \A s \in Maps!Live(rows) : (\E i \in DOMAIN stops : better[i] = s) => n[s] \in DOMAIN stops /\ better[n[s]] = s
    BY <2>5, <2>6 DEF Maps!Live
  <2>9. PICK other : other = m.rows
    OBVIOUS
  <2>10. /\ \A s \in Maps!Live(rows) : n[s] \in Nat
         /\ Suggests(other, Maps!LineThrough(rows, better))
    <3>1. Maps!Divided(rows, stops) /\ order \in Maps!Orders(rows, stops)
      BY <1>6, <2>2
    <3> QED BY <1>1, <2>2, <2>3, <2>7, <2>8, <2>9, <3>1, OrderSuggests
  <2>11. m.rows \in RowSets /\ SamePlan(rows, m.rows)
    BY <1>1, <2>7, <2>10, RepositionedRows
  <2>12. Maps!LineThrough(m.rows, Maps!Planned(m.rows)) = Maps!LineThrough(rows, Maps!Planned(rows))
    BY <1>1, <2>11, PlannedStays
  <2> QED BY <1>0, <2>1, <2>4, <2>9, <2>10, <2>11, <2>12 DEF FitSound
<1>7. \/ answer = <<"unlocated">>
      \/ \E drawn \in BOOLEAN : answer = <<"legs", drawn>>
      \/ \E drawn \in BOOLEAN : answer = <<"whole", drawn>>
      \/ /\ Maps!Divided(rows, Maps!Planned(rows))
         /\ \E drawn \in BOOLEAN : \E order \in Maps!Orders(rows, Maps!Planned(rows)) :
               answer = <<"order", drawn, order>>
  BY <1>0 DEF Maps!Answers, Maps!Optimizes
<1> QED BY <1>0, <1>3, <1>4, <1>5, <1>6, <1>7

-----------------------------------------------------------------------------
(* The steps of a job *)

LEMMA SoundMap == MapsSound => map.rows \in RowSets /\ MapTyped(map) /\ FitSound(map, fit)
BY DEF MapsSound, MapTyped

\* Nothing of the map but its status is written, and jobs go on, start or end.
LEMMA JobsGoOn ==
    ASSUME MapsSound, NEW status,
           map' = map \/ map' = [map EXCEPT !.status = status], fit' = fit,
           job' = [j \in Jobs |-> job'[j]],
           \A j \in Jobs : \/ job'[j] = job[j] \/ job'[j] = Maps!Idle
                           \/ job'[j] \in [phase: {"asked", "queued"}, kind: Maps!Kinds]
                           \/ \E kind : job'[j] = Maps!Loaded(kind)
    PROVE  MapsSound'
<1>1. PICK m, new : m = map /\ new = map'
  OBVIOUS
<1>2. MapTyped(m) /\ FitSound(m, fit) /\ (new = m \/ new = [m EXCEPT !.status = status])
  BY <1>1 DEF MapsSound
<1>3. /\ MapTyped(new) /\ new.rows = m.rows /\ new.line = m.line /\ new.suggested = m.suggested
      /\ FitSound(new, fit)
  BY <1>2 DEF MapTyped, FitSound
<1>4. ASSUME NEW j \in Jobs PROVE JobSound(job'[j], new)
  <2>1. PICK k, old : k = job'[j] /\ old = job[j]
    OBVIOUS
  <2>2. JobSound(old, m)
    BY <1>1, <2>1 DEF MapsSound
  <2>3. CASE k = old
    BY <1>3, <2>1, <2>2, <2>3 DEF JobSound, Current
  <2>4. CASE k = Maps!Idle \/ k \in [phase: {"asked", "queued"}, kind: Maps!Kinds]
    BY <2>1, <2>4 DEF JobSound, JobTyped, Maps!Idle
  <2>5. ASSUME NEW kind, k = Maps!Loaded(kind) PROVE JobSound(k, new)
    <3>1. k = [phase |-> "loaded", kind |-> kind, read |-> m, stale |-> FALSE, touched |-> {}]
      BY <1>1, <2>5 DEF Maps!Loaded
    <3>2. Current(m, new, {})
      BY <1>3 DEF Current, SamePlan, SameStops, SamePositions
    <3> QED BY <1>2, <3>1, <3>2 DEF JobSound, JobTyped
  <2> QED BY <2>1, <2>3, <2>4, <2>5
<1>5. FitSound(map', fit')
  BY <1>1, <1>3
<1> QED BY <1>1, <1>3, <1>4, <1>5 DEF MapsSound

LEMMA QuietSteps ==
    ASSUME MapsSound, NEW j \in Jobs,
           \/ Maps!RefreshRouteMap(j) \/ Maps!OptimizeSequence(j) \/ Maps!Enqueue(j) \/ Maps!LoadRoute(j)
           \/ Maps!EndAtOnce(j) \/ Maps!Fail(j) \/ Maps!NotQueued(j) \/ Maps!Dies(j)
    PROVE  MapsSound'
<1>1. ASSUME NEW k, job' = [job EXCEPT ![j] = k]
      PROVE  job' = [i \in Jobs |-> job'[i]] /\ \A i \in Jobs : job'[i] = IF i = j THEN k ELSE job[i]
  BY <1>1 DEF MapsSound
<1>2. CASE Maps!RefreshRouteMap(j)
  <2>1. /\ job' = [job EXCEPT ![j] = [phase |-> "asked", kind |-> "refresh"]] /\ fit' = fit
        /\ map' = [map EXCEPT !.status = "processing"]
    BY <1>2 DEF Maps!RefreshRouteMap, Maps!Enters
  <2>2. [phase |-> "asked", kind |-> "refresh"] \in [phase: {"asked", "queued"}, kind: Maps!Kinds]
    BY DEF Maps!Kinds
  <2> QED BY <1>1, <2>1, <2>2, JobsGoOn
<1>3. CASE Maps!OptimizeSequence(j)
  <2>1. job' = [job EXCEPT ![j] = Maps!Loaded("request")] /\ fit' = fit /\ map' = map
    BY <1>3 DEF Maps!OptimizeSequence
  <2> QED BY <1>1, <2>1, JobsGoOn
<1>4. CASE Maps!Enqueue(j)
  <2>1. PICK k : k = [job[j] EXCEPT !.phase = "queued"]
    OBVIOUS
  <2>2. job' = [job EXCEPT ![j] = k] /\ fit' = fit /\ map' = map
    BY <1>4, <2>1 DEF Maps!Enqueue, MapsSound
  <2>3. JobTyped(job[j]) /\ job[j].phase = "asked"
    BY <1>4 DEF Maps!Enqueue, MapsSound, JobSound
  <2>4. k \in [phase: {"asked", "queued"}, kind: Maps!Kinds]
    BY <2>1, <2>3 DEF JobTyped, Maps!Idle
  <2> QED BY <1>1, <2>2, <2>4, JobsGoOn
<1>5. CASE Maps!LoadRoute(j)
  <2>1. job' = [job EXCEPT ![j] = Maps!Loaded(job[j].kind)] /\ fit' = fit /\ map' = map
    BY <1>5 DEF Maps!LoadRoute, MapsSound
  <2> QED BY <1>1, <2>1, JobsGoOn
<1>6. CASE Maps!EndAtOnce(j) \/ Maps!Dies(j)
  <2>1. job' = [job EXCEPT ![j] = Maps!Idle] /\ fit' = fit /\ map' = map
    BY <1>6 DEF Maps!EndAtOnce, Maps!Dies
  <2> QED BY <1>1, <2>1, JobsGoOn
<1>7. CASE Maps!Fail(j) \/ Maps!NotQueued(j)
  <2>1. /\ job' = [job EXCEPT ![j] = Maps!Idle] /\ fit' = fit
        /\ map' = map \/ map' = [map EXCEPT !.status = "error"]
    BY <1>7 DEF Maps!Fail, Maps!NotQueued, Maps!AfterFailure
  <2> QED BY <1>1, <2>1, JobsGoOn
<1> QED BY <1>2, <1>3, <1>4, <1>5, <1>6, <1>7

\* A job whose reading is old may be anything that was stored.
LEMMA OutdatedJobs ==
    ASSUME MapsSound, NEW m
    PROVE  /\ Maps!Outdated = [j \in Jobs |-> Maps!Outdated[j]]
           /\ \A j \in Jobs : JobSound(Maps!Outdated[j], m)
<1>1. ASSUME NEW j \in Jobs PROVE JobSound(Maps!Outdated[j], m)
  <2>1. PICK k, old : k = Maps!Outdated[j] /\ old = job[j]
    OBVIOUS
  <2>2. k = IF old.phase = "loaded" THEN [old EXCEPT !.stale = TRUE] ELSE old
    BY <2>1 DEF Maps!Outdated
  <2>3. JobTyped(old)
    BY <2>1 DEF MapsSound, JobSound
  <2>4. CASE old.phase = "loaded"
    <3>1. /\ old = [phase |-> "loaded", kind |-> old.kind, read |-> old.read,
                    stale |-> old.stale, touched |-> old.touched]
          /\ MapTyped(old.read)
      BY <2>3, <2>4 DEF JobTyped, Maps!Idle
    <3>2. k = [phase |-> "loaded", kind |-> old.kind, read |-> old.read,
               stale |-> TRUE, touched |-> old.touched]
      BY <2>2, <2>4, <3>1
    <3> QED BY <2>1, <3>1, <3>2 DEF JobSound, JobTyped
  <2>5. CASE old.phase # "loaded"
    BY <2>1, <2>2, <2>3, <2>5 DEF JobSound
  <2> QED BY <2>4, <2>5
<1> QED BY <1>1 DEF Maps!Outdated

\* A job that has read and asked writes what has changed, over what is stored by then.
LEMMA FinishStep ==
    ASSUME MapsSound, NEW j \in Jobs, Maps!Finish(j)
    PROVE  MapsSound'
<1>1. PICK k, m : k = job[j] /\ m = map
  OBVIOUS
<1>2. PICK answer \in Maps!Answers(k.kind, k.read) :
          /\ fit' = (fit \ Maps!Changed(map')) \cup Maps!Fitting(j, answer, Maps!Computed(k.read, answer))
          /\ map' = Maps!Merged(k.read, Maps!Computed(k.read, answer))
          /\ job' = [Maps!TouchedBy(Maps!Changed(map')) EXCEPT ![j] = Maps!Idle]
  BY <1>1 DEF Maps!Finish
<1>3. k.phase = "loaded"
  BY <1>1 DEF Maps!Finish
<1>4. PICK read, new : read = k.read /\ new = Maps!Computed(read, answer)
  OBVIOUS
<1>5. /\ MapTyped(read) /\ MapTyped(m) /\ m.rows \in RowSets
      /\ read.rows \in RowSets /\ FitSound(m, fit) /\ (~k.stale => Current(read, m, k.touched))
  BY <1>1, <1>3, <1>4 DEF MapsSound, JobSound, JobTyped, Maps!Idle, MapTyped
<1>6. /\ new.rows \in RowSets /\ SamePlan(read.rows, new.rows)
      /\ FitSound(new, Maps!Redrawn(answer))
  <2>1. FitSound(read, {})
    BY DEF FitSound
  <2>2. {} \cup Maps!Redrawn(answer) = Maps!Redrawn(answer)
    OBVIOUS
  <2> QED BY <1>2, <1>4, <1>5, <2>1, <2>2, ComputedSound
<1>7. PICK n : n = [s \in MapStops |->
                      Maps!Written(read.rows[s].optimized, new.rows[s].optimized, m.rows[s].optimized)]
  OBVIOUS
<1>8. PICK e : e = map'
  OBVIOUS
<1>9. /\ e.rows = Repositioned(m.rows, n)
      /\ e.line = Maps!Written(read.line, new.line, m.line)
      /\ e.suggested = Maps!Written(read.suggested, new.suggested, m.suggested)
      /\ e = [rows |-> e.rows, origin |-> e.origin, status |-> e.status, line |-> e.line, suggested |-> e.suggested]
  <2>1. e = [m EXCEPT
        !.origin = Maps!Written(read.origin, new.origin, @),
        !.status = Maps!Written(read.status, new.status, @),
        !.line = Maps!Written(read.line, new.line, @),
        !.suggested = Maps!Written(read.suggested, new.suggested, @),
        !.rows = [s \in MapStops |-> IF m.rows[s] = Maps!NoRow THEN Maps!NoRow
                    ELSE [m.rows[s] EXCEPT
                            !.optimized = Maps!Written(read.rows[s].optimized, new.rows[s].optimized, @)]]]
    BY <1>1, <1>2, <1>4, <1>8 DEF Maps!Merged
  <2>2. /\ e.rows = [s \in MapStops |-> IF m.rows[s] = Maps!NoRow THEN Maps!NoRow
                    ELSE [m.rows[s] EXCEPT
                            !.optimized = Maps!Written(read.rows[s].optimized, new.rows[s].optimized, @)]]
        /\ e.line = Maps!Written(read.line, new.line, m.line)
        /\ e.suggested = Maps!Written(read.suggested, new.suggested, m.suggested)
        /\ e = [rows |-> e.rows, origin |-> e.origin, status |-> e.status, line |-> e.line, suggested |-> e.suggested]
    BY <1>5, <2>1 DEF MapTyped
  <2>3. ASSUME NEW s \in MapStops, m.rows[s] # Maps!NoRow
        PROVE  [m.rows[s] EXCEPT !.optimized = Maps!Written(read.rows[s].optimized, new.rows[s].optimized, @)]
                 = [m.rows[s] EXCEPT !.optimized = n[s]]
    BY <1>7
  <2>4. e.rows = Repositioned(m.rows, n)
    BY <2>2, <2>3 DEF Repositioned
  <2> QED BY <2>2, <2>4
<1>10. \A s \in MapStops : n[s] \in Nat
  <2>1. \A s \in MapStops : new.rows[s].optimized \in Nat /\ m.rows[s].optimized \in Nat
    BY <1>5, <1>6 DEF RowSets, RowRecord, Maps!NoRow
  <2> QED BY <1>7, <2>1 DEF Maps!Written
<1>11. MapTyped(e)
  <2>1. e.rows \in RowSets
    BY <1>5, <1>9, <1>10, LiveRows, RepositionedRows
  <2> QED BY <1>9, <2>1 DEF MapTyped
<1>12. SamePlan(m.rows, e.rows) /\ \A s \in Maps!Live(m.rows) : e.rows[s].optimized = n[s]
  BY <1>5, <1>9, <1>10, LiveRows, RepositionedRows
<1>13. /\ "line" \notin Maps!Changed(e) => e.line = m.line
       /\ "suggested" \notin Maps!Changed(e) => e.suggested = m.suggested /\ SamePositions(m.rows, e.rows)
  BY <1>1 DEF Maps!Changed, SamePositions, Maps!Live
<1>14. ASSUME "line" \in fit', e.line # Maps!NoLine
       PROVE  e.line = Maps!LineThrough(e.rows, Maps!Planned(e.rows))
  <2>1. CASE "line" \in fit /\ "line" \notin Maps!Changed(e)
    <3>1. m.line = Maps!LineThrough(m.rows, Maps!Planned(m.rows))
      BY <1>5, <1>13, <1>14, <2>1 DEF FitSound
    <3> QED BY <1>5, <1>11, <1>12, <1>13, <2>1, <3>1, PlannedStays DEF MapTyped
  <2>2. CASE "line" \in Maps!Fitting(j, answer, new)
    <3>1. /\ ~k.stale /\ "line" \in Maps!Redrawn(answer)
          /\ "line" \notin k.touched \/ new.line # read.line
      BY <1>1, <1>4, <2>2 DEF Maps!Fitting
    <3>2. Current(read, m, k.touched)
      BY <1>5, <3>1
    <3>3. e.line = new.line
      BY <1>9, <3>1, <3>2 DEF Maps!Written, Current
    <3>4. new.line = Maps!LineThrough(new.rows, Maps!Planned(new.rows))
      BY <1>6, <1>14, <3>1, <3>3 DEF FitSound
    <3>5. SamePlan(new.rows, e.rows)
      <4>1. SamePlan(new.rows, read.rows)
        BY <1>6 DEF SamePlan, SameStops
      <4>2. SamePlan(read.rows, m.rows)
        BY <3>2 DEF Current
      <4> QED BY <1>12, <4>1, <4>2 DEF SamePlan, SameStops
    <3> QED BY <1>6, <1>11, <3>3, <3>4, <3>5, PlannedStays DEF MapTyped
  <2> QED BY <1>2, <1>4, <1>8, <1>14, <2>1, <2>2
<1>15. ASSUME "suggested" \in fit', e.suggested # Maps!NoLine
       PROVE  Suggests(e.rows, e.suggested)
  <2>1. CASE "suggested" \in fit /\ "suggested" \notin Maps!Changed(e)
    <3>1. Suggests(m.rows, m.suggested)
      BY <1>5, <1>13, <1>15, <2>1 DEF FitSound
    <3> QED BY <1>5, <1>11, <1>12, <1>13, <2>1, <3>1, SuggestionStays DEF MapTyped
  <2>2. CASE "suggested" \in Maps!Fitting(j, answer, new)
    <3>1. ~k.stale /\ "suggested" \in Maps!Redrawn(answer) /\ "suggested" \notin k.touched
      BY <1>1, <1>4, <2>2 DEF Maps!Fitting
    <3>2. /\ SamePlan(read.rows, m.rows) /\ m.suggested = read.suggested
          /\ SamePositions(read.rows, m.rows)
      BY <1>5, <3>1 DEF Current
    <3>3. e.suggested = new.suggested
      BY <1>9, <3>2 DEF Maps!Written
    <3>4. Suggests(new.rows, new.suggested)
      BY <1>6, <1>15, <3>1, <3>3 DEF FitSound
    <3>5. SamePlan(new.rows, e.rows) /\ SamePlan(new.rows, read.rows)
      <4>1. SamePlan(new.rows, read.rows)
        BY <1>6 DEF SamePlan, SameStops
      <4> QED BY <1>12, <3>2, <4>1 DEF SamePlan, SameStops
    <3>6. SamePositions(new.rows, e.rows)
      <4>1. ASSUME NEW s \in Maps!Live(read.rows)
            PROVE  e.rows[s].optimized = new.rows[s].optimized
        <5>1. s \in MapStops /\ s \in Maps!Live(m.rows) /\ m.rows[s].optimized = read.rows[s].optimized
          BY <3>2 DEF SamePlan, SameStops, SamePositions, Maps!Live
        <5> QED BY <1>7, <1>12, <5>1 DEF Maps!Written
      <4> QED BY <3>5, <4>1 DEF SamePositions, SamePlan, SameStops
    <3> QED BY <1>6, <1>11, <3>3, <3>4, <3>5, <3>6, SuggestionStays DEF MapTyped
  <2> QED BY <1>2, <1>4, <1>8, <1>15, <2>1, <2>2
<1>16. FitSound(e, fit')
  BY <1>14, <1>15 DEF FitSound
<1>17. /\ job' = [i \in Jobs |-> job'[i]]
       /\ \A i \in Jobs : job'[i] = IF i = j THEN Maps!Idle ELSE Maps!TouchedBy(Maps!Changed(e))[i]
  BY <1>2, <1>8 DEF Maps!TouchedBy
<1>18. ASSUME NEW i \in Jobs PROVE JobSound(job'[i], e)
  <2>1. JobSound(Maps!Idle, e)
    BY DEF JobSound, JobTyped, Maps!Idle
  <2>2. PICK h, old : h = Maps!TouchedBy(Maps!Changed(e))[i] /\ old = job[i]
    OBVIOUS
  <2>3. h = IF old.phase = "loaded" THEN [old EXCEPT !.touched = @ \cup Maps!Changed(e)] ELSE old
    BY <2>2 DEF Maps!TouchedBy
  <2>4. JobTyped(old) /\ (old.phase = "loaded" /\ ~old.stale => Current(old.read, m, old.touched))
    BY <1>1, <2>2 DEF MapsSound, JobSound
  <2>5. ASSUME old.phase = "loaded" PROVE JobSound(h, e)
    <3>1. /\ old = [phase |-> "loaded", kind |-> old.kind, read |-> old.read,
                    stale |-> old.stale, touched |-> old.touched]
          /\ old.stale \in BOOLEAN /\ MapTyped(old.read)
      BY <2>4, <2>5 DEF JobTyped, Maps!Idle
    <3>2. h = [phase |-> "loaded", kind |-> old.kind, read |-> old.read,
               stale |-> old.stale, touched |-> old.touched \cup Maps!Changed(e)]
      BY <2>3, <2>5, <3>1
    <3>3. Current(old.read, m, old.touched) => Current(old.read, e, old.touched \cup Maps!Changed(e))
      BY <1>12, <1>13 DEF Current, SamePlan, SameStops, SamePositions
    <3>4. JobTyped(h)
      BY <3>1, <3>2 DEF JobTyped
    <3>5. h.phase = "loaded" /\ ~h.stale => Current(h.read, e, h.touched)
      BY <2>4, <2>5, <3>2, <3>3
    <3> QED BY <3>4, <3>5 DEF JobSound
  <2>6. ASSUME old.phase # "loaded" PROVE JobSound(h, e)
    BY <2>3, <2>4, <2>6 DEF JobSound
  <2>7. JobSound(h, e)
    BY <2>5, <2>6
  <2> QED BY <1>17, <2>1, <2>2, <2>7
<1> QED BY <1>8, <1>11, <1>16, <1>17, <1>18 DEF MapsSound

-----------------------------------------------------------------------------
(* The steps of others *)

LEMMA EditSteps ==
    ASSUME MapsSound, MapTyped(map'), fit' = {},
           \/ job' = Maps!Outdated
           \/ \E j \in Jobs : job' = [Maps!Outdated EXCEPT ![j] = [phase |-> "queued", kind |-> "import"]]
    PROVE  MapsSound'
<1>1. FitSound(map', fit')
  BY DEF FitSound
<1>2. PICK m : m = map'
  OBVIOUS
<1>3. /\ Maps!Outdated = [j \in Jobs |-> Maps!Outdated[j]]
      /\ \A j \in Jobs : JobSound(Maps!Outdated[j], m)
  BY OutdatedJobs
<1>4. JobSound([phase |-> "queued", kind |-> "import"], m)
  BY DEF JobSound, JobTyped, Maps!Kinds
<1>5. \A j \in Jobs : JobSound(job'[j], m)
  BY <1>3, <1>4
<1>6. job' = [j \in Jobs |-> job'[j]]
  BY <1>3
<1> QED BY <1>1, <1>2, <1>5, <1>6 DEF MapsSound

LEMMA RowEdited ==
    ASSUME NEW m, MapTyped(m), NEW s \in MapStops, NEW row \in RowRecord \cup {Maps!NoRow},
           NEW new, new = [m EXCEPT !.rows = [@ EXCEPT ![s] = row]]
    PROVE  MapTyped(new)
<1>1. new.rows = [m.rows EXCEPT ![s] = row]
  BY DEF MapTyped
<1>2. new.rows \in RowSets
  BY <1>1 DEF MapTyped, RowSets
<1> QED BY <1>2 DEF MapTyped

LEMMA StopSteps ==
    ASSUME MapsSound, NEW s \in MapStops, NEW p \in Places, NEW q \in Maps!Positions,
           Maps!AddStop(s, p, q) \/ Maps!UpdateStop(s, p, q)
    PROVE  MapsSound'
<1>1. PICK m, new : m = map /\ new = map'
  OBVIOUS
<1>2. MapTyped(m) /\ m.rows \in RowSets /\ q \in Nat \ {0}
  BY <1>1, SoundMap, PositionsNumbered
<1>3. job' = Maps!Outdated /\ fit' = {}
  BY DEF Maps!AddStop, Maps!UpdateStop, Maps!Edited
<1>4. CASE Maps!AddStop(s, p, q)
  <2>1. PICK row : row = [sequence |-> q, optimized |-> 0, place |-> p]
    OBVIOUS
  <2>2. new = [m EXCEPT !.rows = [@ EXCEPT ![s] = row]]
    BY <1>1, <1>4, <2>1 DEF Maps!AddStop
  <2>3. row \in RowRecord
    BY <1>2, <2>1 DEF RowRecord
  <2>4. MapTyped(new)
    BY <1>2, <2>2, <2>3, RowEdited
  <2> QED BY <1>1, <1>3, <2>4, EditSteps
<1>5. CASE Maps!UpdateStop(s, p, q)
  <2>1. PICK row : row = [m.rows[s] EXCEPT !.sequence = q, !.place = p]
    OBVIOUS
  <2>2. new = [m EXCEPT !.rows = [@ EXCEPT ![s] = row]]
    <3>1. new = [m EXCEPT !.rows[s].sequence = q, !.rows[s].place = p]
      BY <1>1, <1>5 DEF Maps!UpdateStop
    <3>2. s \in DOMAIN m.rows
      BY <1>2 DEF RowSets
    <3> QED BY <1>2, <2>1, <3>1, <3>2 DEF MapTyped
  <2>3. m.rows[s] \in RowRecord
    BY <1>1, <1>2, <1>5 DEF Maps!UpdateStop, RowSets
  <2>4. row \in RowRecord
    BY <1>2, <2>1, <2>3 DEF RowRecord
  <2>5. MapTyped(new)
    BY <1>2, <2>2, <2>4, RowEdited
  <2> QED BY <1>1, <1>3, <2>5, EditSteps
<1> QED BY <1>4, <1>5

LEMMA DeleteStep == ASSUME MapsSound, NEW s \in MapStops, Maps!DeleteStop(s) PROVE MapsSound'
<1>1. PICK m, new : m = map /\ new = map'
  OBVIOUS
<1>2. MapTyped(m) /\ job' = Maps!Outdated /\ fit' = {} /\ new = [m EXCEPT !.rows = [@ EXCEPT ![s] = Maps!NoRow]]
  BY <1>1, SoundMap DEF Maps!DeleteStop, Maps!Edited
<1>3. MapTyped(new)
  BY <1>2, RowEdited
<1> QED BY <1>1, <1>2, <1>3, EditSteps

LEMMA SetOriginStep == ASSUME MapsSound, NEW origin, Maps!SetOrigin(origin) PROVE MapsSound'
<1>1. PICK m, new : m = map /\ new = map'
  OBVIOUS
<1>2. new = [m EXCEPT !.origin = origin] /\ job' = Maps!Outdated /\ fit' = {}
  BY <1>1 DEF Maps!SetOrigin, Maps!Edited
<1>3. MapTyped(new)
  BY <1>1, <1>2, SoundMap DEF MapTyped
<1> QED BY <1>1, <1>2, <1>3, EditSteps

LEMMA UploadRoutesStep ==
    ASSUME MapsSound, NEW j \in Jobs, NEW order \in Maps!SheetOrders, Maps!UploadRoutes(j, order)
    PROVE  MapsSound'
<1>1. PICK m, new : m = map /\ new = map'
  OBVIOUS
<1>2. /\ new = [m EXCEPT !.rows = [s \in MapStops |->
                 IF m.rows[s] = Maps!NoRow THEN Maps!NoRow ELSE [m.rows[s] EXCEPT !.sequence = order[s]]]]
      /\ fit' = {}
      /\ \/ job' = Maps!Outdated
         \/ \E i \in Jobs : job' = [Maps!Outdated EXCEPT ![i] = [phase |-> "queued", kind |-> "import"]]
  BY <1>1 DEF Maps!UploadRoutes, Maps!Edited
<1>3. MapTyped(m) /\ m.rows \in RowSets
  BY <1>1, SoundMap
<1>4. \A s \in MapStops : order[s] \in Nat \ {0}
  BY PositionsNumbered DEF Maps!SheetOrders, Maps!Bijection, Maps!Injection
<1>5. new.rows \in RowSets
  <2>1. new.rows = [s \in MapStops |->
                 IF m.rows[s] = Maps!NoRow THEN Maps!NoRow ELSE [m.rows[s] EXCEPT !.sequence = order[s]]]
    BY <1>2, <1>3 DEF MapTyped
  <2>2. \A s \in MapStops : m.rows[s] # Maps!NoRow => [m.rows[s] EXCEPT !.sequence = order[s]] \in RowRecord
    BY <1>3, <1>4 DEF RowSets, RowRecord
  <2> QED BY <2>1, <2>2 DEF RowSets
<1>6. MapTyped(new)
  BY <1>2, <1>3, <1>5 DEF MapTyped
<1> QED BY <1>1, <1>2, <1>6, EditSteps

\* The suggested line becomes the line on the map, its positions the sequence.
LEMMA ApplyStep == ASSUME MapsSound, Maps!ApplyOptimizedSequence PROVE MapsSound'
<1>1. PICK m, new : m = map /\ new = map'
  OBVIOUS
<1>2. /\ MapTyped(m) /\ m.rows \in RowSets /\ FitSound(m, fit)
      /\ \A s \in Maps!Live(m.rows) : m.rows[s].optimized # 0
      /\ job' = Maps!Outdated
      /\ fit' = IF "suggested" \in fit THEN {"line", "suggested"} ELSE {}
      /\ new = [m EXCEPT !.line = m.suggested,
                !.rows = [s \in MapStops |-> [m.rows[s] EXCEPT !.sequence = m.rows[s].optimized]]]
  BY <1>1, SoundMap DEF Maps!ApplyOptimizedSequence, Maps!AfterApply
<1>3. /\ new.rows = [s \in MapStops |-> [m.rows[s] EXCEPT !.sequence = m.rows[s].optimized]]
      /\ new.line = m.suggested /\ new.suggested = m.suggested
      /\ new = [rows |-> new.rows, origin |-> new.origin, status |-> new.status,
                line |-> new.line, suggested |-> new.suggested]
  BY <1>2 DEF MapTyped
<1>4. ASSUME NEW s \in MapStops
      PROVE  /\ s \notin Maps!Live(m.rows) => new.rows[s] = Maps!NoRow
             /\ s \in Maps!Live(m.rows) =>
                   /\ new.rows[s] \in RowRecord /\ new.rows[s] # Maps!NoRow
                   /\ new.rows[s].sequence = m.rows[s].optimized /\ new.rows[s].optimized = m.rows[s].optimized
                   /\ new.rows[s].place = m.rows[s].place
  <2>1. new.rows[s] = [m.rows[s] EXCEPT !.sequence = m.rows[s].optimized]
    BY <1>3
  <2>2. CASE s \notin Maps!Live(m.rows)
    <3>1. m.rows[s] = Maps!NoRow
      BY <1>2, <2>2, LiveRows
    <3> QED BY <2>1, <2>2, <3>1 DEF Maps!NoRow
  <2>3. CASE s \in Maps!Live(m.rows)
    <3>1. m.rows[s] \in RowRecord /\ m.rows[s].optimized # 0
      BY <1>2, <2>3, LiveRows
    <3> QED BY <2>1, <2>3, <3>1 DEF RowRecord, Maps!NoRow
  <2> QED BY <2>2, <2>3
<1>5. new.rows \in RowSets
  BY <1>3, <1>4 DEF RowSets
<1>6. Maps!Live(new.rows) = Maps!Live(m.rows)
  <2>1. \A s : s \in Maps!Live(new.rows) <=> s \in MapStops /\ new.rows[s] # Maps!NoRow
    BY DEF Maps!Live
  <2>2. \A s : s \in Maps!Live(m.rows) => s \in MapStops
    BY DEF Maps!Live
  <2> QED BY <1>4, <2>1, <2>2
<1>7. MapTyped(new)
  BY <1>3, <1>5 DEF MapTyped
<1>8. FitSound(new, fit')
  <2> SUFFICES ASSUME "suggested" \in fit, m.suggested # Maps!NoLine PROVE FitSound(new, fit')
    BY <1>2, <1>3 DEF FitSound
  <2>1. Suggests(m.rows, m.suggested)
    BY <1>2 DEF FitSound
  <2>2. \A s \in Maps!Live(m.rows) : s \in MapStops
    BY DEF Maps!Live
  <2>3. m.suggested = Maps!LineThrough(new.rows, Maps!Planned(new.rows))
    <3>1. PICK rows, other, line : rows = m.rows /\ other = new.rows /\ line = m.suggested
      OBVIOUS
    <3>2. /\ rows \in RowSets /\ other \in RowSets /\ SameStops(rows, other) /\ Suggests(rows, line)
          /\ \A s \in Maps!Live(rows) : other[s].sequence = rows[s].optimized /\ other[s].place = rows[s].place
      BY <1>2, <1>4, <1>5, <1>6, <2>1, <2>2, <3>1 DEF SameStops
    <3>3. line = Maps!LineThrough(other, Maps!Planned(other))
      BY <3>2, SuggestionApplied
    <3> QED BY <3>1, <3>3
  <2>4. Suggests(new.rows, new.suggested)
    <3>1. LiveCount(new.rows) = LiveCount(m.rows)
      BY <1>6 DEF LiveCount
    <3>2. {new.rows[s].optimized : s \in Maps!Live(new.rows)} = {m.rows[s].optimized : s \in Maps!Live(m.rows)}
      BY <1>4, <1>6, <2>2
    <3>3. \A s \in Maps!Live(new.rows) : new.suggested[new.rows[s].optimized] = <<s, new.rows[s].place>>
      BY <1>3, <1>4, <1>6, <2>1, <2>2 DEF Suggests
    <3>4. new.suggested = [i \in 1..LiveCount(new.rows) |-> new.suggested[i]]
      BY <1>3, <2>1, <3>1 DEF Suggests
    <3>5. {new.rows[s].optimized : s \in Maps!Live(new.rows)} = 1..LiveCount(new.rows)
      BY <2>1, <3>1, <3>2 DEF Suggests
    <3> QED BY <3>3, <3>4, <3>5 DEF Suggests
  <2> QED BY <1>3, <2>3, <2>4 DEF FitSound
<1>9. /\ Maps!Outdated = [j \in Jobs |-> Maps!Outdated[j]]
      /\ \A j \in Jobs : JobSound(Maps!Outdated[j], new)
  BY OutdatedJobs
<1> QED BY <1>1, <1>2, <1>7, <1>8, <1>9 DEF MapsSound

LEMMA MapsStep ==
    ASSUME MapsSound, Maps!MapNext \/ UNCHANGED mapVars
    PROVE  MapsSound'
<1>1. CASE UNCHANGED mapVars
  BY <1>1 DEF mapVars, MapsSound
<1>2. CASE Maps!UpdateOperationalSettings
  BY <1>2 DEF Maps!UpdateOperationalSettings, MapsSound
<1>3. ASSUME NEW j \in Jobs,
             Maps!RefreshRouteMap(j) \/ Maps!OptimizeSequence(j) \/ Maps!JobStep(j) \/ Maps!NotQueued(j) \/ Maps!Dies(j)
      PROVE  MapsSound'
  BY <1>3, QuietSteps, FinishStep DEF Maps!JobStep
<1>4. ASSUME NEW s \in MapStops, NEW p \in Places, NEW q \in Maps!Positions,
             Maps!AddStop(s, p, q) \/ Maps!UpdateStop(s, p, q)
      PROVE  MapsSound'
  BY <1>4, StopSteps
<1>5. ASSUME NEW s \in MapStops, Maps!DeleteStop(s) PROVE MapsSound'
  BY <1>5, DeleteStep
<1>6. ASSUME NEW j \in Jobs, NEW order \in Maps!SheetOrders, Maps!UploadRoutes(j, order) PROVE MapsSound'
  BY <1>6, UploadRoutesStep
<1> QED BY <1>1, <1>2, <1>3, <1>4, <1>5, <1>6, SetOriginStep, ApplyStep DEF Maps!MapNext

LEMMA MapsSoundAlways == Spec => []MapsSound
<1>1. Init => MapsSound
  BY MapsInit DEF Init
<1>2. MapsSound /\ [Next]_vars => MapsSound'
  BY MapsStep DEF Next, vars
<1> QED BY <1>1, <1>2, PTL DEF Spec

\* The line on the map visits the stops in their sequence, the suggested line visits them
\* in the suggested order, and the suggestion gives each stop a position of its own,
\* though jobs overlap and end in any order, but for a line that was not drawn since a
\* stop was edited, one that a job replaced which had loaded the stops before the edit, and
\* a suggestion of which two overlapping jobs replaced columns (route_through_stops,
\* optimize_route, apply_optimized_sequence).
THEOREM LinesFollowStopsAlways == Spec => []LinesFollowStops
<1>1. MapsSound => LinesFollowStops
  <2> SUFFICES ASSUME MapsSound, Suggests(map.rows, map.suggested)
               PROVE  DOMAIN map.suggested = 1..LiveCount(map.rows)
    BY DEF LinesFollowStops, Maps!LinesFollowStops, MapsSound, FitSound, Suggests
  <2> QED BY DEF Suggests
<1> QED BY <1>1, MapsSoundAlways, PTL
=============================================================================
