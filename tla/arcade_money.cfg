SPECIFICATION Spec
CONSTANTS
  Users = {u1, u2}
  Rounds = {r1, r2}
  Workers = {w1}
  Terms <- MixedTerms
  DepositAmounts <- OneDeposit
  MinPlayers = 2
  MaxPlayers = 2
  MaxTick = 2
  MaxDeposits = 1
  Nobody = Nobody
  NoMove = NoMove
SYMMETRY Symmetry
CHECK_DEADLOCK FALSE
INVARIANTS EscrowBacksRoundsInPlay AvailableFollowsLedger RoundSettlesToZero LedgerFollowsRound
