SPECIFICATION Spec
CONSTANTS
  Ids = {1, 2, 3}
  Prices = {1, 2, 3}
  Sizes = {0, 1, 2}
INVARIANTS
  AppliesMeaning
  LevelsAgree
