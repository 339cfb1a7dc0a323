SPECIFICATION ServicesSpec
CONSTANTS
  Sessions = {s1, s2, s3}
  Links = {l1, l2}
  Requests = {r1, r2}
  MaxFailures = 2
  MaxPasswords = 2
  Idle = Idle
  NoRow = NoRow
  Users = {l1, l2}
  a1 = a1
  Addresses = {a1}
  Challenges = {c1, c2}
  RegistrationKeys = {k1, k2}
  Signs <- EitherSigns
  MaxFailedProofs = 1
  Nobody = Nobody
  Watchers = {r1, r2}
  Gross = 5
  FeeBps = 2500
  ScanLimit = 1
  MaxTransfers = 2
  NoScan = NoScan
  Keys = {l1, l2}
  Calls = {s1, s2, s3}
  SwapQuotes = {q1}
  Withdrawals = {d1}
  Payouts = {p1}
  NoIntent = NoIntent
  NoCall = NoCall
  NoKey = NoKey
  PaymentQuotes = {q1}
  Tasks = {s1, s2, s3}
  Terms = {1, 2}
  Garbled = Garbled
  NoTerms = NoTerms
  NoTask = NoTask
  Posts = {s1, s2, s3}
  Members = {l1, l2}
  Clients = {r1, r2}
  NoPost = NoPost
  NoChange = NoChange
  ann = ann
  ben = ben
  cat = cat
  t1 = t1
  t2 = t2
  t3 = t3
  Games = {r1, r2}
  Saves = {l1, l2}
  Stake <- OneEach
  Prizes = {2}
  EntryLimits = {1}
  LossLimits = {1}
  Horizon = 1
  NoLimit = NoLimit
  Out = Out
  Players = {ann, ben, cat}
  Creator = ann
  Tabs = {t1, t2, t3}
  Holder <- OneOfThem
  Budget = 2
  InviteTtl = 1
  MaxVersion = 3
  NoGuest = NoGuest
  Processes = {ann, ben}
  Callers = {t1, t2, t3}
  RunsIn <- OneOfThem
  Ttl = 3
  NoCatalogue = NoCatalogue
  NotAsking = NotAsking
SYMMETRY Symmetry
CHECK_DEADLOCK FALSE
PROPERTY JoinsCannotRaceALimit
