SPECIFICATION Spec
CONSTANTS
  Redemptions = {r1}
  Settlements = {x1, x2}
  Buyers = {b1}
  Stores = {t1}
  Treasury = Treasury
  None = None
  Sessions = {s1}
  Calls = {"qr", "confirm", "request", "pay"}
  Amounts = {2}
  Extras = {0}
  Start <- BuyersHaveFour
  Earned <- RewardsMinted
  MaxAttempts = 1
  Concurrency = 5
  MaxOrders = 1
INVARIANT PaidForSales
CHECK_DEADLOCK FALSE
