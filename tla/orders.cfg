SPECIFICATION FairSpec
CONSTANTS
  Redemptions = {r1}
  Settlements = {x1}
  Buyers = {b1}
  Stores = {t1}
  Treasury = Treasury
  None = None
  Sessions = {s1}
  Calls = {"qr", "confirm", "refund", "request", "approve", "pay", "reject"}
  Amounts = {2}
  Extras = {1}
  Start <- BuyersHaveFour
  Earned <- RewardsMinted
  MaxAttempts = 1
  Concurrency = 1
  MaxOrders = 1
INVARIANTS HashIsProof PaidIsOrdered
PROPERTY SaleIsProcessed
CHECK_DEADLOCK FALSE
