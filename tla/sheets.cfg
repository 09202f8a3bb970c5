SPECIFICATION Spec
CONSTANTS
  MapStops = {1, 2, 3}
  Places = {"p", "q"}
  Loads <- MCLoads
  Jobs = {j1, j2}
  MaxJobs = 2
  MaxEdits = 1
  MaxDeaths = 1
  RouteKeys = {1, 2}
  MaxStops = 4
  OrderNumbers = {"a"}
  Cities = {"x", "y", "z"}
  Carriers = {"m"}
  Files <- MCFiles
  MaxShown = 1
  Clerks = {c1, c2}
  MaxUploads = 2
  MaxCorrections = 1
INVARIANTS LinesFollowStops OnceUnlessOverlapped
PROPERTIES RefreshEnds OverwritesAccountedFor
CHECK_DEADLOCK FALSE
