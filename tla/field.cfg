SPECIFICATION Spec
ACTION_CONSTRAINT FieldWork
CONSTANTS
  Requests = {r1}
  Bids = {x1, x2}
  Batches = {b1}
  contention = contention
  visit = visit
  verification = verification
  auction = auction
  Households = {contention, visit, verification, auction}
  Collectors = {c1, c2}
  Centers = {a1, a2}
  None = None
  Sessions = {s1, s2, s3}
  Calls = {"create", "claim", "accept", "abandon", "cancel", "startRoute", "edit", "location", "reach", "noShow", "reject", "verify", "dispatch", "bid", "withdraw", "select"}
  Scans = {"pending", "inactive", "arrived", "auction"}
  Modes = {"AUTOMATIC", "AUCTION"}
  Donations = {FALSE}
  Items = {1}
  Price <- FlatPrice
  Deposits <- Deposited
  StartScore = 3
  StartBalance = 0
  MaxBalance = 40
  MaxAttempts = 1
  MaxCrashes = 1
  MaxOutlived = 1
  CompletionColumns = TRUE
SYMMETRY Interchangeable
INVARIANTS IInv CenterAssigned HoldHasOwner VisitRecorded AtMostOneAcceptedBid CompletedInBatch OneVerification
PROPERTY RecordsKept
