SPECIFICATION Spec
CONSTANTS
  k1 = k1
  k2 = k2
  k3 = k3
  q1 = q1
  q2 = q2
  Keys = {k1, k2, k3}
  Quotes = {q1, q2}
  Requests = {r1, r2}
  Workers = {}
  QuoteOf <- SharedQuote
  Kind <- Purchases
  Announced <- OddWords
  MaxActive = 1
  MaxAttempts = 1
  MaxRefreshes = 1
  Idle = Idle
CHECK_DEADLOCK FALSE
SYMMETRY StartSymmetry
INVARIANTS InitiatedOnce QuoteBacksOneOperation ActiveWithinCap NothingSynthesized
