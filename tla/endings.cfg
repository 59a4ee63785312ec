SPECIFICATION FairSpec
CONSTANTS
  Requests = {r1}
  Bids = {x1}
  Batches = {b1}
  Households = {h1}
  Collectors = {c1}
  Centers = {a1}
  None = None
  Sessions = {s1}
  Calls = {"create", "claim", "accept", "bid", "select", "startRoute", "reach", "verify"}
  Scans = {"pending", "auction", "arrived"}
  Modes = {"AUTOMATIC", "AUCTION"}
  Donations = {TRUE}
  Items = {1}
  Price <- FlatPrice
  Deposits <- Deposited
  StartScore = 2
  StartBalance = 0
  MaxBalance = 0
  MaxAttempts = 1
  MaxCrashes = 1
  MaxOutlived = 0
  CompletionColumns = TRUE
PROPERTIES PendingEnds AuctionEnds ArrivedEnds LockIsFreed
