SPECIFICATION Spec
CONSTANTS
  OrderIds = {0, 1}
  Instruments = {0, 1, 2}
  NumShards = 2
  MaxEvents = 2
  MaxReads = 1
INVARIANT NamedInstrumentIsReached
