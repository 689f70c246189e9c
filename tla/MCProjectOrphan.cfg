SPECIFICATION Spec
CONSTANTS
  r1 = r1
  None = None
  Charts = {p1, p2}
  Releases = {r1}
  ReleaseOf <- MCReleaseOf
  Managed = {p1, p2}
  Unparsable = {}
  HasProjectLabel = TRUE
  HasReleaseLabel = TRUE
  UserOps = {"delete"}
  MaxChanges = 1
  MaxFaults = 0
INVARIANTS OrphansAreUnused
CHECK_DEADLOCK FALSE
