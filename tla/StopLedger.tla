------------------------------- MODULE StopLedger -------------------------------
(***************************************************************************)
(* What the timeline of a route promises to its readers (dashboards, the    *)
(* tower, the driver's statement), however many requests overlap: facts are  *)
(* only ever added, an arrival comes with its event, an outcome comes with   *)
(* its event and an arrival, and nothing comes before the departure.         *)
(***************************************************************************)
EXTENDS Naturals

CONSTANT StopKeys

VARIABLES
    departed,    \* the route has left the distribution centre
    arrived,     \* stops with an arrival
    delivered,   \* stops with a delivery time
    arrivals,    \* per stop: arrival events (up to "several")
    outcomes     \* per stop: outcome events (up to "several")

vars == <<departed, arrived, delivered, arrivals, outcomes>>

Init ==
    /\ departed \in BOOLEAN
    /\ arrived = {} /\ delivered = {}
    /\ arrivals = [k \in StopKeys |-> 0] /\ outcomes = [k \in StopKeys |-> 0]

OneMore(tally, k) == [tally EXCEPT ![k] = IF @ = 0 THEN 1 ELSE 2]

Depart ==
    /\ departed' = TRUE
    /\ UNCHANGED <<arrived, delivered, arrivals, outcomes>>

Arrive(k) ==
    /\ departed
    /\ arrived' = arrived \cup {k}
    /\ arrivals' = OneMore(arrivals, k)
    /\ UNCHANGED <<departed, delivered, outcomes>>

\* An outcome brings the arrival along when it has not been recorded.
End(k) ==
    /\ departed
    /\ outcomes' = OneMore(outcomes, k)
    /\ delivered' \in {delivered, delivered \cup {k}}
    /\ arrived' = arrived \cup {k}
    /\ \/ arrivals' = OneMore(arrivals, k)
       \/ k \in arrived /\ arrivals' = arrivals
    /\ UNCHANGED departed

Next == Depart \/ \E k \in StopKeys : Arrive(k) \/ End(k)

Spec == Init /\ [][Next]_vars

=============================================================================
