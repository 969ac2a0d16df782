SPECIFICATION Spec
CONSTANTS
  Price = {1, 2, 3, 4, 5, 6, 7, 8, 9, 10, 11, 12}
INVARIANTS
  WalksInOrder
  LinksAgree
  BalancedOffPath
PROPERTIES
  LoopsAdvance
