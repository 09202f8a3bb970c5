SPECIFICATION Spec
CONSTANTS
  MaxStops = 3
  Occurrences = {o1, o2}
  Seqs = {1, 2}
  RouteCorrections <- NoCorrections
  StopCorrections <- NoCorrections
  Interventions = {}
SYMMETRY OccurrenceSymmetry
CONSTRAINT RoadTrip
INVARIANTS TravelFollowsPlan OutcomeConsistent
PROPERTY OutcomeIsFinal
