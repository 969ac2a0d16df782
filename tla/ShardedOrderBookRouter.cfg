SPECIFICATION FairSpec
CONSTANTS
  OrderIds = {0, 1}
  Instruments = {0, 1, 2, 3}
  NumShards = 2
  MaxEvents = 3
  MaxReads = 1
INVARIANTS
  Quiet
  AgreesWithSimple
PROPERTIES
  SyncReturns
  CloseReturns
