SPECIFICATION BackOfficeSpec
CONSTANTS
  Branches = {b1, b2}
  Carriers = {c1, c2}
  Drivers = {d1}
  Vehicles = {v1}
  None = None
  MaxRequests = 6
  Slots = {s1, s2}
  Daily = 1
  MaxDocumentRequests = 4
  Processes = {p1, p2}
  Releases = {r1, r2}
  Trips = {t1}
  MaxFaults = 1
  MaxEdits = 2
SYMMETRY IdSymmetry
CONSTRAINT OneDesk
INVARIANTS FleetAgreesWithVehicles ServedBranchesOffered CrewOfCarrier BooksAgree PaidOnce BootstrapSound
PROPERTY ApprovedOnlyByReview
CHECK_DEADLOCK FALSE
