SPECIFICATION HLSpec
CONSTANTS
  r1 = r1
  os1 = os1
  os2 = os2
  g1 = g1
  Nil = Nil
  Drifted = Drifted
  Keys = {k1}
  Resources = {r1}
  GVKs = {g1}
  ObjectSets = {os1}
  GVKOf <- MCGVKOf
  ResourcesOf <- MCResourcesOf
  Ptrs = {1, 2, 3, 4}
  ChanCap = 1
  MaxOps = 1
  MaxDrift = 0
  MaxFail = 1
  EnvOps = {"create", "claim", "delete"}
  InitReleases <- AnyRelease
  InitManifests = {os1}
INVARIANTS HLTypeOK
PROPERTIES ClaimedOnce
