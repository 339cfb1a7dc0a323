SPECIFICATION WorkersSpec
CONSTANTS
  r1 = r1
  w1 = w1
  w2 = w2
  k1 = k1
  q1 = q1
  i1 = i1
  h1 = h1
  ann = ann
  ben = ben
  t1 = t1
  t2 = t2
  Idle = Idle
  NoRecord = NoRecord
  Users = {ann, ben}
  Rounds = {r1}
  Workers = {w1, w2}
  Terms <- StakedTerms
  DepositAmounts <- OneDeposit
  MinPlayers = 2
  MaxPlayers = 2
  MaxTick = 2
  MaxDeposits = 1
  Nobody = Nobody
  NoMove = NoMove
CHECK_DEADLOCK FALSE
PROPERTIES DueTicksResolve LobbiesClose PaymentsEnd ConfirmationsEnd LookupsEnd MatchesEnd
