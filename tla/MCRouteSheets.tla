---------------------------- MODULE MCRouteSheets ----------------------------
(* Uploads of sheets and the maps of routes, in one bounded instance for TLC:  *)
(* a behaviour is of the one or of the other.  What an upload does to a map    *)
(* under way is an action of RouteMaps.                                        *)
EXTENDS Naturals, FiniteSets, Sequences

CONSTANTS MapStops, Places, Loads, Jobs, MaxJobs, MaxEdits, MaxDeaths,
          RouteKeys, MaxStops, OrderNumbers, Cities, Carriers, Files, MaxShown,
          Clerks, MaxUploads, MaxCorrections

VARIABLES about, routing, map, job, fit, silent, started, edits, deaths,
          stored, upload, overlap, twice, uploads, corrections

Maps == INSTANCE RouteMaps
Sheets == INSTANCE RouteImports

\* Ids of routes are positive; a row of a sheet has an order or none, and a value.
ASSUME SheetsAssumption ==
    /\ MaxStops \in Nat /\ IsFiniteSet(OrderNumbers) /\ Cities # {}
    /\ Sheets!NoOrder \notin OrderNumbers /\ Sheets!NoCarrier \notin Carriers
    /\ Files \subseteq Sheets!Sheets
    /\ Sheets!None \notin RouteKeys /\ Sheets!None \notin Clerks

\* Stops are numbered from 1; a load gives each its address.
ASSUME MapsAssumption ==
    /\ MapStops \subseteq Nat \ {0} /\ IsFiniteSet(MapStops)
    /\ \A place \in Loads : \A s \in MapStops : place[s] \in Places

mapVars == <<routing, map, job, fit, silent, started, edits, deaths>>
importVars == <<stored, upload, overlap, twice, uploads, corrections>>
vars == <<about, mapVars, importVars>>

\* Three stops, whose neighbours have different addresses until an edit gives them one.
MCLoads == {<<"p", "q", "p">>}

\* Sheets of one order: with other values, given twice in either layout, without it, and
\* of a carrier's own user, whose carrier may have been switched off.
MCFiles ==
    LET file(values, loose, jm, carrier, own) ==
            [rows |-> [o \in OrderNumbers |-> values], loose |-> loose, jm |-> jm,
             carrier |-> carrier, own |-> own]
    IN  {file(<<"x">>, FALSE, FALSE, "m", "no carrier"), file(<<"y">>, TRUE, FALSE, "m", "m"),
         file(<<"y">>, FALSE, TRUE, "no carrier", "no carrier"), file(<<>>, TRUE, FALSE, "no carrier", "m"),
         file(<<"x", "y">>, FALSE, FALSE, "m", "no carrier"), file(<<"y", "x">>, FALSE, TRUE, "m", "no carrier")}

Init ==
    /\ Maps!MapInit /\ Sheets!ImportInit
    /\ \/ about = "maps" /\ stored.routes = {}
       \/ about = "sheets" /\ map.origin = "known"
Next ==
    \/ about = "maps" /\ Maps!MapNext /\ UNCHANGED <<about, importVars>>
    \/ about = "sheets" /\ Sheets!ImportNext /\ UNCHANGED <<about, mapVars>>
Spec == Init /\ [][Next]_vars /\ Maps!MapFairness

\* See the modules for what these say.
TypeOK == Maps!MapTypeOK /\ Sheets!ImportTypeOK
LinesFollowStops == Maps!LinesFollowStops
RefreshEnds == Maps!RefreshEnds
OnceUnlessOverlapped == Sheets!OnceUnlessOverlapped
OverwritesAccountedFor == Sheets!OverwritesAccountedFor
=============================================================================
