SPECIFICATION Spec
CONSTANTS
  MaxStops = 2
  Occurrences = {o1}
  Seqs = {1}
  RouteCorrections <- NoCorrections
  StopCorrections <- NoCorrections
  Interventions = {}
INVARIANTS TypeOK FinishedIsComplete DockOrder
PROPERTIES EventLedger ClosedIsFrozen
