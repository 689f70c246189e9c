SPECIFICATION FairSpec
CONSTANTS
  r1 = r1
  None = None
  Charts = {p1}
  Releases = {r1}
  ReleaseOf <- MCReleaseOf
  Managed = {p1}
  Unparsable = {}
  HasProjectLabel = TRUE
  HasReleaseLabel = TRUE
  UserOps = {"create", "delete", "label", "targets", "namespace", "helm"}
  MaxChanges = 2
  MaxFaults = 1
INVARIANTS TypeOK NoReleaseLeftBehind
PROPERTIES AloneIsDeployed DeletedIsRemoved
CHECK_DEADLOCK FALSE
