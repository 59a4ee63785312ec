SPECIFICATION Spec
CONSTANTS
  Requests = {r1}
  Bids = {}
  Batches = {b1}
  Households = {h1}
  Collectors = {c1}
  Centers = {a1}
  None = None
  Sessions = {s1}
  Calls = {"create", "claim", "accept", "verify"}
  Scans = {}
  Modes = {"AUTOMATIC"}
  Donations = {FALSE}
  Items = {1}
  Price <- FlatPrice
  Deposits <- Deposited
  StartScore = 3
  StartBalance = 0
  MaxBalance = 14
  MaxAttempts = 1
  MaxCrashes = 0
  MaxOutlived = 0
  CompletionColumns = FALSE
SYMMETRY Interchangeable
INVARIANT PaidOnce
