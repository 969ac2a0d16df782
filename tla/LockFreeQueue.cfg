SPECIFICATION FairSpec
CONSTANTS
  Capacity = 4
  MaxItems = 6
INVARIANTS
  Delivered
  RaceFree
  EndMeansDrained
PROPERTIES
  ImplementsChannel
  EndIsReached
  PushReturns
