SPECIFICATION MCSpec
CONSTANTS
  w = w
  c1 = c1
  r1 = r1
  r2 = r2
  p1 = p1
  u1 = u1
  u2 = u2
  b1 = b1
  pet = pet
  glass = glass
  Addresses = {w, c1, u1, u2}
  Owner = w
  Primary = w
  BatchIds = {b1}
  Codes = {pet, glass}
  Preset <- Presets
  DefaultRate = 3
  ShareBps = 2000
  Amounts <- SomeAmounts
  Loads <- SomeLoads
  None = None
  MaxInvocations = 3
  Requests = {r1, r2}
  Processes = {p1, p2}
  Pools <- SomePools
  Tasks <- SomeTasks
  MaxTries = 2
PROPERTY RequestsEnd
INVARIANTS LedgerConsistent RewardIsMinted SignatureOnce CollisionHasCause SuccessIsApplied
CHECK_DEADLOCK FALSE
