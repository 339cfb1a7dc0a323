SPECIFICATION Spec
CONSTANTS
  i1 = i1
  i2 = i2
  h1 = h1
  h2 = h2
  Intents = {i1, i2}
  Hashes = {h1}
  Requests = {r1, r2}
  Workers = {w1, w2}
  HashOf <- SameHash
  Family <- TwoEvm
  MaxAttempts = 2
  Idle = Idle
  NoRecord = NoRecord
SYMMETRY Symmetry
CHECK_DEADLOCK FALSE
INVARIANTS VerdictsAreTheChains
PROPERTIES PromiseIsKept
