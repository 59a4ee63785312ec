SPECIFICATION MCSpec
CONSTANTS
  Centers = {a1, a2}
  First = a1
  Sessions = {s1, s2}
  None = None
  Calls = {"movement", "dispatch", "reroute", "receive", "approve", "dispute", "resolve", "fiat", "consolidate", "request", "accept", "deliver", "direct", "sell"}
  Weights = {10, 20}
  Opening <- Forty
  MaxIn = 50
  MaxCrashes = 1
  Batches = {b1}
  Lots = {l1}
  Estimated <- Ten
  Destination <- Somewhere
  Tolerance = 15
  MaxAttempts = 1
  MaxStalls = 1
  Orders = {o1, o2}
  Shrink = 5
INVARIANTS TypeOK ToleratedOrApproved BookedOnce StockIsKardex
PROPERTIES JobEnds DispatchIsCovered CertifiedTradeSpec
CHECK_DEADLOCK FALSE
