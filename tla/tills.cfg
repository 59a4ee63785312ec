SPECIFICATION Spec
CONSTANTS
  Redemptions = {r1, r2}
  Settlements = {}
  Buyers = {b1, b2}
  Stores = {t1}
  Treasury = Treasury
  None = None
  Sessions = {s1, s2}
  Calls = {"qr", "confirm"}
  Amounts = {2}
  Extras = {0}
  Start <- ThreeAndTwo
  Earned <- ThreeAndFour
  MaxAttempts = 2
  Concurrency = 1
  MaxOrders = 2
SYMMETRY Alike
INVARIANTS IInv ChargedOnce BuyerSolvent
PROPERTY SaleIsFinal
CHECK_DEADLOCK FALSE
