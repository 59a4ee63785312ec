SPECIFICATION MCSpec
CONSTANTS
  n1 = n1
  n2 = n2
  c1 = c1
  c2 = c2
  f1 = f1
  s1 = s1
  o1 = o1
  o2 = o2
  x1 = x1
  p1 = p1
  t1 = t1
  t2 = t2
  NodeOrder <- Nodes
  TierOf <- TierTable
  RpcCalls = {c1, c2}
  FailureLimit = 2
  Cooldown = 1
  Jitter = {0}
  CursorModulus = 2
  MaxTime = 2
  Payers = {p1, p2}
  Orders = {o1, o2}
  Notices = {x1, x2}
  Remints = {y1}
  Walletless = {p2}
  MinDeposit = 1
  MaxDeposit = 1
  DailyLimit = 1
  MintAttempts = 2
  MaxStalls = 1
  IdemKeys = {k1}
  Requests = {q1, q2, q3, q4}
  MaxExpiries = 1
  Members = {p1}
  Tokens = {t1, t2}
  AuthCalls = {c1, c2}
  Passwords = {w1, w2}
  ResetLinks = {l1}
  MaxFailures = 2
  MaxWrong = 3
  People = {p1}
  Servers = {s1, s2}
  Collectors = {}
  Stores = {p1}
  ProfileCalls = {c1, c2}
  MaxObserved = 0
  MaxApplications = 1
  Filings = {f1, f2, f3}
  Legacy = 2
  Replies = {c1, c2}
  Households = {h1}
  Claims = {c1, c2}
  Missions = 6
  Forms = {f1, f2}
  AuthRequests = {c1, c2}
  MaxTries = 2
  MaxCodes = 2
  Owners = {p1, p2}
  Devices = {d1}
  DeviceCalls = {c1, c2}
  Pushes = {m1}
  Rateable = {r1, r2}
  Raters = {c1, c2}
  Stars = {1, 5}
  QaRatings = 2
INVARIANTS TypeOK SecondMintHasCause RepeatHasCause UnlistedHasCause CorrelativesGapless AccountOfItsCode
PROPERTIES CreditDecided CancelledStaysOut
CHECK_DEADLOCK FALSE
