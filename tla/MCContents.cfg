SPECIFICATION MCSpec
CONSTANTS
  Bindings = {b1}
  ClusterBindings = {c1}
  Roles = {ro1}
  DefaultRoles = {"admin"}
  RolesOf <- MCRolesOf
  Users = {u1, u2}
  Accounts = {sa}
  Namespaces = {n1, n2}
  ReleaseNamespaces = {own}
  SpecValues <- MCSpecValues
  ValuesFor <- MCValuesFor
  NoValues <- None
  Fields <- MCFields
  Texts <- MCTexts
  Depth = 4
  ValuesOverride <- MCValuesOverride
  UserOps = {"bind", "role", "label", "tamper", "join", "leave", "spec"}
  MaxChanges = 2
  MaxFaults = 1
INVARIANTS TypeOK SettledGrants ValuesAreOverlaid
PROPERTIES ContentsSettle
CHECK_DEADLOCK FALSE
