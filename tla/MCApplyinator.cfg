SPECIFICATION FairSpec
CONSTANTS
  Keys = {k1, k2, k3}
  Workers = {w1, w2}
  NoKey = NoKey
INVARIANTS TypeOK Stingy QueuedOnce NothingLost
PROPERTIES ImplementsApplier RequestsAreServed
