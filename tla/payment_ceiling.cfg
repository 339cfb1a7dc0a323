SPECIFICATION FairSpec
CONSTANTS
  k1 = k1
  k2 = k2
  k3 = k3
  q1 = q1
  q2 = q2
  Keys = {k1}
  Quotes = {q1}
  Requests = {r1}
  Workers = {w1}
  QuoteOf <- OneQuote
  Kind <- Payout
  Announced <- CeilingWords
  MaxActive = 1
  MaxAttempts = 2
  MaxRefreshes = 0
  Idle = Idle
CHECK_DEADLOCK FALSE
PROPERTIES PollingIsBounded
