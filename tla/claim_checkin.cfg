SPECIFICATION Spec
CONSTANTS
  MaxStops = 1
  Occurrences = {o1}
  Seqs = {1}
  RouteCorrections <- NoCorrections
  StopCorrections <- SomeStopCorrections
  Interventions = {"admin"}
PROPERTY CheckinKeepsOutcome
