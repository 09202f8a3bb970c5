--------------------------- MODULE MCRouteLifecycle ---------------------------
(* Values for TLC: request sets for RouteLifecycle.                           *)
EXTENDS RouteLifecycle, TLC

OccurrenceSymmetry == Permutations(Occurrences)

NoCorrections == {}

KeepRoute == [status |-> "none", times |-> {}, resetDock |-> FALSE, resetStops |-> FALSE]

\* Corrections that take a route out of and into each part of its life, and the
\* one that records a release without a departure (the only way to depart_cd).
SomeRouteCorrections ==
    {[KeepRoute EXCEPT !.status = st] : st \in {"liberada", "em_rota", "finalizada", "cancelada"}}
    \cup {[KeepRoute EXCEPT !.resetDock = TRUE],
          [KeepRoute EXCEPT !.resetDock = TRUE, !.resetStops = TRUE, !.status = "planejada"],
          [KeepRoute EXCEPT !.times = {"operator_released_at"}]}

KeepStop ==
    [status |-> "none", clearCheckin |-> FALSE, clearDelivery |-> FALSE,
     clearFailure |-> FALSE, clearProofs |-> FALSE, reason |-> FALSE]

SomeStopCorrections ==
    {[KeepStop EXCEPT !.status = st] : st \in {"pendente", "em_rota", "entregue", "falha"}}
    \cup {[KeepStop EXCEPT !.clearCheckin = TRUE, !.clearDelivery = TRUE],
          [KeepStop EXCEPT !.clearFailure = TRUE, !.clearProofs = TRUE]}

\* Keeps a run on the road: three stops with a proof each, out of the
\* distribution centre by force-start, closing photo at the end.
RoadTrip ==
    /\ Stops(db) = StopIds
    /\ db.session /\ ~db.loadedPhoto
    /\ db.dock \in {{}, DockFields}
    /\ db.emptyPhoto => AllStopsClosed(db)
    /\ \A k \in StopIds : db.stops[k].carga /\ ~db.stops[k].proof /\ ~db.stops[k].returned

\* Keeps the runs with interventions small: the dock session empty, full, or as
\* a lone correction leaves it, and an occurrence open or not there.
FewDockStates ==
    /\ ~db.loadedPhoto
    /\ db.dock \in {{}, {"operator_released_at"},
                    {"operator_released_at", "departure_cd_at"}, DockFields}
    /\ \A o \in Occurrences : db.occ[o] \in {"none", "aberta"}

\* The same for the runs with imports, which multiply the stops' contents: no
\* proofs, a first stop that needs none, one close, no photo before the stops are done.
FewProofs ==
    /\ FewDockStates
    /\ db.emptyPhoto => AllStopsClosed(db)
    /\ \A k \in StopIds : ~db.stops[k].proof /\ ~db.stops[k].returned
    /\ 1 \in Stops(db) => db.stops[1].carga
    /\ db.closings <= 1

\* The two kinds of intervention side by side in one run: the administrator's
\* corrections of a route of one stop, imports and synchronisations of two.
OneKindOfIntervention ==
    IF "admin" \in overrides
    THEN FewDockStates /\ overrides = {"admin"} /\ db.next <= 2 /\ db.closings <= 1
         /\ \A k \in StopIds : ~db.stops[k].returned
         /\ \A o \in Occurrences : db.occ[o] = "none"
    ELSE FewProofs

=============================================================================
