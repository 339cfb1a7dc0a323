SPECIFICATION Spec
CONSTANTS
  k1 = k1
  k2 = k2
  k3 = k3
  q1 = q1
  q2 = q2
  Keys = {k1}
  Quotes = {q1}
  Requests = {r1}
  Workers = {w1, w2}
  QuoteOf <- OneQuote
  Kind <- Payout
  Announced <- RaceWords
  MaxActive = 1
  MaxAttempts = 2
  MaxRefreshes = 0
  Idle = Idle
CHECK_DEADLOCK FALSE
SYMMETRY Symmetry
INVARIANTS ConfirmsUntilAcknowledged PollsUntilTerminal
PROPERTIES MovesAlongTheGraph
