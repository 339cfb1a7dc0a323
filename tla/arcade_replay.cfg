SPECIFICATION Spec
CONSTANTS
  Users = {u1, u2, u3}
  Rounds = {r1}
  Workers = {w1}
  Terms <- FreeTerms
  DepositAmounts <- NoDeposits
  MinPlayers = 2
  MaxPlayers = 3
  MaxTick = 3
  MaxDeposits = 0
  Nobody = Nobody
  NoMove = NoMove
CHECK_DEADLOCK FALSE
INVARIANTS ReplayNamesTheWinner
