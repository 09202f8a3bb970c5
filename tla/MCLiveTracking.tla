---------------------------- MODULE MCLiveTracking ----------------------------
(* The two sources of positions in one bounded instance for TLC.  They share *)
(* no table that a handler writes, so an installation has one or the other.  *)
EXTENDS TruckPositions

CONSTANTS MaxSwitches, MaxPositions, MaxTimers, MaxFailures

VARIABLES route, used, consent, recorded, open, visible, polls, timers, tracking, watch, calls,
          switches, sent, failures

Phone == INSTANCE DriverTracking

phoneVars == <<route, used, consent, recorded, open, visible, polls, timers, tracking, watch, calls,
               switches, sent, failures>>
vars == <<truckVars, phoneVars>>

Init == TruckInit /\ Phone!DriverInit /\ enabled = ~used
Next ==
    \/ TruckNext /\ UNCHANGED phoneVars
    \/ Phone!DriverNext /\ UNCHANGED truckVars
Spec == Init /\ [][Next]_vars /\ TruckFairness /\ Phone!DriverFairness

\* See the modules for what these say.
TypeOK == TruckTypeOK /\ Phone!DriverTypeOK
NoWatchLeft == Phone!NoWatchLeft
WatchEnds == Phone!WatchEnds
RecordedWithConsent == Phone!RecordedWithConsent
=============================================================================
