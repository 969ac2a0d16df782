SPECIFICATION FairSpec
CONSTANTS
  N = 3
  Streams <- AnyStream
INVARIANTS
  HeapHasEveryFile
PROPERTIES
  ImplementsKWayMerge
  MergeEnds
