SPECIFICATION FairSpec
CONSTANTS
  p1 = p1
  p2 = p2
  c1 = c1
  k1 = k1
  Producers <- MCProducers
  Consumers <- MCConsumers
  Controllers <- MCControllers
  SizeBound = 2
  MaxOffers = 3
INVARIANTS FifoExactlyOnce NoStrandedWaiter DrainLosesNothing
PROPERTIES Implements WaiterReturns
