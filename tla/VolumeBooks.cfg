SPECIFICATION BooksSpec
CONSTANTS
  Ids = {1, 2}
  Prices = {1, 2}
  Sizes = {0, 1, 2}
  MaxVolume = 4
INVARIANTS
  LevelsMatchOrders
  
  OrdersFollowMeaning
  
  AtLeastResting
