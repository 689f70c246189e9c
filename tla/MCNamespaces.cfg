SPECIFICATION Spec
CONSTANTS
  p1 = p1
  p2 = p2
  n1 = n1
  None = None
  System = System
  Empty = Empty
  Projects = {p1, p2}
  LongProjects = {p2}
  Namespaces = {n1}
  SystemNamespaces = {}
  HasReleaseLabel = TRUE
  MaxAttempts = 2
  MaxChanges = 1
  MaxFaults = 1
INVARIANTS NCTypeOK WorkIsExpected SettledIsRegistered
PROPERTIES ProjectsGetRegistered LabelsAreCurrent ReadyKnowsProjects
CHECK_DEADLOCK FALSE
