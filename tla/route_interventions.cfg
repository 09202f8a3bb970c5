SPECIFICATION Spec
CONSTANTS
  MaxStops = 2
  Occurrences = {o1}
  Seqs = {1}
  RouteCorrections <- SomeRouteCorrections
  StopCorrections <- SomeStopCorrections
  Interventions = {"admin", "sync", "import"}
CONSTRAINT OneKindOfIntervention
INVARIANT ArrivalHasEvent
PROPERTY HistoryKept
