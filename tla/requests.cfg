SPECIFICATION Spec
CONSTANTS
  MaxStops = 2
  Occurrences = {o1}
  Workers = {w1, w2}
  MaxRequests = 5
  Ops = {"start", "checkin", "success", "failure", "close", "reopen", "occurrence", "settle"}
INVARIANTS RowsTornOnlyByOverlap LedgerDoubledOnlyByOverlap
INVARIANT FinishedIncompleteOnlyByOverlap
PROPERTIES LedgerKept LegUnderOccurrenceOnlyByOverlap
CHECK_DEADLOCK FALSE
