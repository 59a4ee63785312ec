SPECIFICATION Spec
CONSTANTS
  Requests = {r1}
  Bids = {}
  Batches = {b1}
  Households = {h1}
  Collectors = {c1, c2}
  Centers = {a1}
  None = None
  Sessions = {s1, s2}
  Calls = {"create", "claim", "accept", "verify"}
  Scans = {"inactive"}
  Modes = {"AUTOMATIC"}
  Donations = {FALSE}
  Items = {1}
  Price <- FlatPrice
  Deposits <- Deposited
  StartScore = 3
  StartBalance = 14
  MaxBalance = 14
  MaxAttempts = 1
  MaxCrashes = 0
  MaxOutlived = 0
  CompletionColumns = FALSE
SYMMETRY Interchangeable
PROPERTY VerifierIsCollector
