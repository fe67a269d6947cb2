SPECIFICATION Spec
CONSTANTS
  j1 = j1
  j2 = j2
  c1 = c1
  c2 = c2
  None = None
  Jobs = {j1}
  Consumers = {c1, c2}
  Type <- Type1
  MaxRetry <- MaxRetry1
  Prefetch = 1
  Mids = {0, 1, 2, 3, 4, 5, 6}
  MaxDrops = 1
  MaxBoots = 2
SYMMETRY ConsumerSymmetry
CONSTRAINT LostAcksBound
INVARIANTS TypeOK RunsBounded NoSilentLoss WgExact NoPublishAfterShutdown
PROPERTIES ImplementsDelivery
CHECK_DEADLOCK FALSE
