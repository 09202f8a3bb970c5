SPECIFICATION Spec
CONSTANTS
  Pages = {p1, p2}
  Front = p1
  MaxTaps = 2
  Acts = {"checkin", "deliver", "position"}
  MaxFaults = 1
INVARIANTS NothingLost OnceUnlessRaced ReplayInOrder
PROPERTY Drains
CHECK_DEADLOCK FALSE
