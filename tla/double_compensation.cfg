SPECIFICATION Spec
CONSTANTS
  Requests = {r1}
  Bids = {}
  Batches = {b1}
  Households = {h1}
  Collectors = {c1}
  Centers = {a1}
  None = None
  Sessions = {s1, s2}
  Calls = {"create", "claim", "accept", "startRoute", "reach", "noShow"}
  Scans = {}
  Modes = {"AUTOMATIC"}
  Donations = {FALSE}
  Items = {1}
  Price <- FlatPrice
  Deposits <- NoDeposits
  StartScore = 3
  StartBalance = 14
  MaxBalance = 94
  MaxAttempts = 1
  MaxCrashes = 0
  MaxOutlived = 0
  CompletionColumns = TRUE
SYMMETRY Interchangeable
INVARIANT CompensatedOnce
