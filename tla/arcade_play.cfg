SPECIFICATION Spec
CONSTANTS
  Users = {u1, u2, u3, u4}
  Rounds = {r1}
  Workers = {w1, w2}
  Terms <- StakedTerms
  DepositAmounts <- OneDeposit
  MinPlayers = 2
  MaxPlayers = 3
  MaxTick = 4
  MaxDeposits = 1
  Nobody = Nobody
  NoMove = NoMove
SYMMETRY Symmetry
CHECK_DEADLOCK FALSE
INVARIANTS WinnerPlayed NoMovesFromTheEliminated
PROPERTIES EscrowIsImplemented TickResolvedOnceAndInTime
