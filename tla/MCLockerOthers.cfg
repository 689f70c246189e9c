SPECIFICATION HLSpec
CONSTANTS
  r1 = r1
  os1 = os1
  os2 = os2
  g1 = g1
  Nil = Nil
  Drifted = Drifted
  Keys = {k1}
  Resources = {r1}
  GVKs = {g1}
  ObjectSets = {os1}
  GVKOf <- MCGVKOf
  ResourcesOf <- MCResourcesOf
  Ptrs = {1, 2, 3, 4}
  ChanCap = 1
  MaxOps = 3
  MaxDrift = 1
  MaxFail = 0
  EnvOps = {"upgrade", "uninstall", "keep-history", "secret"}
  InitReleases <- ForeignRelease
  InitManifests = {os1}
INVARIANTS OthersAreLeftAlone
