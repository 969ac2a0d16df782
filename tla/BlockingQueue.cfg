SPECIFICATION FairSpec
CONSTANTS
  Producers = {p1, p2}
  Consumers = {c1, c2}
  MaxItems = 2
INVARIANTS
  WakeupsSuffice
  OncePerItem
  ProducerOrder
PROPERTIES
  ImplementsChannel
  EndIsReached
  ItemsArrive
