SPECIFICATION Spec
CONSTANTS
  i1 = i1
  i2 = i2
  h1 = h1
  h2 = h2
  Intents = {i1}
  Hashes = {h1}
  Requests = {r1}
  Workers = {w1, w2}
  HashOf <- OneHash
  Family <- Evm
  MaxAttempts = 2
  Idle = Idle
  NoRecord = NoRecord
SYMMETRY Symmetry
CHECK_DEADLOCK FALSE
PROPERTIES FinalIsDurable
