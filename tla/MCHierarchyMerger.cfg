SPECIFICATION FairSpec
CONSTANTS
  N = 3
  Streams <- AnyStream
INVARIANTS
  StableOutput
PROPERTIES
  ImplementsKWayMerge
  MergeEnds
