SPECIFICATION HistSpec
CONSTANTS
  r1 = r1
  r2 = r2
  os1 = os1
  os2 = os2
  g1 = g1
  g2 = g2
  Nil = Nil
  Drifted = Drifted
  Keys = {k1, k2}
  Resources = {r1}
  GVKs = {g1, g2}
  ObjectSets = {os1}
  GVKOf <- MCGVKOf
  ResourcesOf <- MCResourcesOf
  Ptrs = {1, 2, 3, 4, 5, 6}
  ChanCap = 1
  MaxOps = 2
  MaxDrift = 0
  MaxFail = 0
INVARIANTS TypeOK NoNilDereference InformerFollowsRegister TrackedChangesAreReverted
SYMMETRY KeySymmetry
PROPERTIES NoStealing
