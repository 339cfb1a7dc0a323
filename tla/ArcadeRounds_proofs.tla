------------------------ MODULE ArcadeRounds_proofs ------------------------
(***************************************************************************)
(* Theorems about ArcadeRounds, for every set of players, rounds, workers  *)
(* and stake terms.                                                        *)
(***************************************************************************)
EXTENDS ArcadeRounds, SumTheorems, FiniteSetTheorems, TLAPS

-----------------------------------------------------------------------------
(* Arithmetic of the pot. *)

\* A set of players has a size.
LEMMA CountType ==
    ASSUME NEW S, S \subseteq Users
    PROVE  IsFiniteSet(S) /\ Cardinality(S) \in Nat
  BY ArcadeAssumption, FS_Subset, FS_CardinalityType

LEMMA Product == \A a, b \in Nat : a * b \in Nat /\ (a = 0 => a * b = 0)
  BY SMT

\* rakeOf rounds down, so the house never takes more than the pot.
LEMMA RakeBounds ==
    \A p, b \in Nat : b <= 10000 =>
        RakeOf(p, b) \in Nat /\ RakeOf(p, b) <= p
<1> SUFFICES ASSUME NEW p \in Nat, NEW b \in Nat, b <= 10000
             PROVE  RakeOf(p, b) \in Nat /\ RakeOf(p, b) <= p
  OBVIOUS
<1>1. p * b \in Nat /\ p * b <= p * 10000
  BY SMT
<1> DEFINE x == p * b
<1>2. x \in Nat /\ x <= p * 10000
  BY <1>1
<1>3. x \div 10000 \in Nat /\ x \div 10000 <= p
  <2> HIDE DEF x
  <2> QED BY <1>2, SMT
<1> QED BY <1>3 DEF RakeOf

\* The stake, the pot, the rake and the payout of a round are amounts, and the
\* payout and the rake make up the pot.
LEMMA PotTypes ==
    ASSUME terms \in [Rounds -> Terms], NEW r \in Rounds
    PROVE  /\ Amount(r) \in Nat /\ Pot(r) \in Nat
           /\ Rake(r) \in Nat /\ Payout(r) \in Nat
           /\ Payout(r) + Rake(r) = Pot(r)
           /\ Amount(r) = 0 => Pot(r) = 0 /\ Rake(r) = 0 /\ Payout(r) = 0
<1>1. terms[r].amount \in Nat /\ terms[r].rakeBps \in Nat /\ terms[r].rakeBps <= 10000
  BY ArcadeAssumption
<1>2. Cardinality(Entrants(r)) \in Nat
  BY CountType DEF Entrants
<1>3. Amount(r) \in Nat
  BY <1>1 DEF Amount
<1>4. Pot(r) \in Nat /\ (Amount(r) = 0 => Pot(r) = 0)
  BY <1>2, <1>3, Product DEF Pot
<1>5. Rake(r) \in Nat /\ Rake(r) <= Pot(r)
  <2> DEFINE p == Pot(r)
             b == terms[r].rakeBps
  <2>1. RakeOf(p, b) \in Nat /\ RakeOf(p, b) <= p
    <3>1. p \in Nat /\ b \in Nat /\ b <= 10000
      BY <1>1, <1>4
    <3> HIDE DEF p, b
    <3> QED BY <3>1, RakeBounds
  <2> QED BY <2>1 DEF Rake
<1>6. Payout(r) = Pot(r) - Rake(r)
  BY DEF Payout
<1> QED BY <1>3, <1>4, <1>5, <1>6

-----------------------------------------------------------------------------
(* Type correctness. *)

LEMMA InitTypes == Init => TypeOK
  BY ArcadeAssumption DEF Init, TypeOK, RoundTypes, SeatTypes, MoneyTypes, Seats, Ticks

\* The money of a round moves in amounts.
LEMMA EscrowTypes ==
    ASSUME TypeOK, NEW r \in Rounds, NEW u \in Users, Escrow(r, u)
    PROVE  MoneyTypes'
<1> USE DEF TypeOK, MoneyTypes
<1> DEFINE a == Amount(r)
<1>1. a \in Nat
  BY PotTypes DEF RoundTypes
<1>2. /\ available' = [available EXCEPT ![u] = @ - a]
      /\ escrowed' = [escrowed EXCEPT ![u] = @ + a]
      /\ ledger' = [ledger EXCEPT ![r][u] = @ - a]
      /\ UNCHANGED <<house, deposits, credits, settlement>>
  BY DEF Escrow
<1> HIDE DEF a
<1>3. available' \in [Users -> Int] /\ escrowed' \in [Users -> Int]
  BY <1>1, <1>2
<1>4. ledger' \in [Rounds -> [Users -> Int]]
  BY <1>1, <1>2
<1> QED BY <1>2, <1>3, <1>4

LEMMA RefundTypes ==
    ASSUME TypeOK, NEW r \in Rounds, RefundAll(r)
    PROVE  MoneyTypes'
<1> USE DEF TypeOK, MoneyTypes
<1>1. CASE UNCHANGED moneyVars
  BY <1>1 DEF moneyVars
<1>2. CASE ~ NothingToSettle(r)
  <2> DEFINE a == Amount(r)
             E == Entrants(r)
  <2>1. a \in Nat
    BY PotTypes DEF RoundTypes
  <2>2. /\ settlement' = [settlement EXCEPT ![r] = [pot |-> 0, rake |-> 0, paidOut |-> 0]]
        /\ escrowed' = [u \in Users |-> IF u \in E THEN escrowed[u] - a ELSE escrowed[u]]
        /\ available' = [u \in Users |-> IF u \in E THEN available[u] + a ELSE available[u]]
        /\ ledger' = [ledger EXCEPT ![r] =
                          [u \in Users |-> IF u \in E THEN @[u] + a ELSE @[u]]]
        /\ UNCHANGED <<house, deposits, credits>>
    BY <1>2 DEF RefundAll
  <2> HIDE DEF a, E
  <2>3. available' \in [Users -> Int] /\ escrowed' \in [Users -> Int]
    BY <2>1, <2>2
  <2>4. ledger' \in [Rounds -> [Users -> Int]]
    BY <2>1, <2>2
  <2>5. settlement' \in [Rounds -> Settlements \cup {Nobody}]
    BY <2>2 DEF Settlements
  <2> QED BY <2>2, <2>3, <2>4, <2>5
<1> QED BY <1>1, <1>2 DEF RefundAll

LEMMA PayOutTypes ==
    ASSUME TypeOK, NEW r \in Rounds, NEW w \in Users, PayOut(r, w)
    PROVE  MoneyTypes'
<1> USE DEF TypeOK, MoneyTypes
<1>1. CASE UNCHANGED moneyVars
  BY <1>1 DEF moneyVars
<1>2. CASE ~ NothingToSettle(r)
  <2> DEFINE a == Amount(r)
             E == Entrants(r)
             pot == Pot(r)
             rake == Rake(r)
             pay == Payout(r)
  <2>1. a \in Nat /\ pot \in Nat /\ rake \in Nat /\ pay \in Nat
    BY PotTypes DEF RoundTypes
  <2>2. /\ settlement' = [settlement EXCEPT ![r] = [pot |-> pot, rake |-> rake, paidOut |-> pay]]
        /\ escrowed' = [u \in Users |-> IF u \in E THEN escrowed[u] - a ELSE escrowed[u]]
        /\ available' = [available EXCEPT ![w] = @ + pay]
        /\ ledger' = [ledger EXCEPT ![r][w] = @ + pay]
        /\ house' = [house EXCEPT ![r] = @ + rake]
        /\ UNCHANGED <<deposits, credits>>
    BY <1>2 DEF PayOut
  <2> HIDE DEF a, E, pot, rake, pay
  <2>3. available' \in [Users -> Int] /\ escrowed' \in [Users -> Int]
    BY <2>1, <2>2
  <2>4. ledger' \in [Rounds -> [Users -> Int]] /\ house' \in [Rounds -> Int]
    BY <2>1, <2>2
  <2>5. settlement' \in [Rounds -> Settlements \cup {Nobody}]
    BY <2>1, <2>2 DEF Settlements
  <2> QED BY <2>2, <2>3, <2>4, <2>5
<1> QED BY <1>1, <1>2 DEF PayOut

LEMMA NextTypes == TypeOK /\ StageFits /\ [Next]_vars => TypeOK'
<1> SUFFICES ASSUME TypeOK, StageFits, [Next]_vars
             PROVE  TypeOK'
  OBVIOUS
<1> USE DEF TypeOK
<1>1. ASSUME NEW u \in Users, NEW a \in DepositAmounts, Credit(u, a)
      PROVE  TypeOK'
  <2>1. MoneyTypes'
    BY <1>1, ArcadeAssumption DEF Credit, MoneyTypes
  <2> QED BY <1>1, <2>1 DEF Credit, RoundTypes, SeatTypes, roundVars, seatVars
<1>2. ASSUME NEW r \in Rounds, NEW t \in Terms, EnsureOpenRound(r, t)
      PROVE  TypeOK'
  <2>1. RoundTypes'
    BY <1>2 DEF EnsureOpenRound, RoundTypes
  <2> QED BY <1>2, <2>1 DEF EnsureOpenRound, SeatTypes, MoneyTypes, moneyVars, seatVars
<1>3. ASSUME NEW r \in Rounds, NEW u \in Users, Join(r, u)
      PROVE  TypeOK'
  <2>1. SeatTypes'
    BY <1>3 DEF Join, SeatTypes, Seats
  <2>3. MoneyTypes'
    <3>1. CASE UNCHANGED moneyVars
      BY <3>1 DEF MoneyTypes, moneyVars
    <3>2. CASE Escrow(r, u)
      BY <3>2, EscrowTypes
    <3> QED BY <1>3, <3>1, <3>2 DEF Join
  <2> QED BY <1>3, <2>1, <2>3 DEF Join, RoundTypes, roundVars
<1>4. ASSUME NEW r \in Rounds, NEW u \in Users, NEW c \in Choice, CommitRead(r, u, c)
      PROVE  TypeOK'
  <2>1. tick[r] \in Ticks
    BY <1>4, ArcadeAssumption DEF CommitRead, StageFits, RoundTypes, Ticks
  <2>2. commit' \in [Users -> Commits \cup {Nobody}]
    BY <1>4, <2>1 DEF CommitRead, Commits
  <2> QED BY <1>4, <2>2 DEF CommitRead, RoundTypes, SeatTypes, MoneyTypes, roundVars,
                            seatVars, moneyVars
<1>5. ASSUME NEW u \in Users, CommitInsert(u)
      PROVE  TypeOK'
  <2>1. commit[u] \in Commits
    BY <1>5 DEF CommitInsert
  <2>2. moves' \in [Rounds -> [Ticks -> [Users -> Choice \cup {NoMove}]]]
    BY <1>5, <2>1 DEF CommitInsert, Commits
  <2>3. commit' \in [Users -> Commits \cup {Nobody}]
    BY <1>5 DEF CommitInsert
  <2> QED BY <1>5, <2>2, <2>3 DEF CommitInsert, RoundTypes, SeatTypes, MoneyTypes,
                                  roundVars, seatVars, moneyVars
<1>6. ASSUME NEW u \in Users, CommitLost(u)
      PROVE  TypeOK'
  BY <1>6 DEF CommitLost, RoundTypes, SeatTypes, MoneyTypes, roundVars, seatVars, moneyVars
<1>7. ASSUME NEW w \in Workers, SweepDue(w) \/ AdvanceFails(w) \/ Crash(w)
      PROVE  TypeOK'
  <2>1. sweep' \in [Workers -> SUBSET Rounds]
    BY <1>7 DEF SweepDue, AdvanceFails, Crash
  <2> QED BY <1>7, <2>1 DEF SweepDue, AdvanceFails, Crash, RoundTypes, SeatTypes, MoneyTypes,
                            roundVars, seatVars, moneyVars
<1>8. ASSUME NEW w \in Workers, NEW r \in Rounds, Advance(w, r)
      PROVE  TypeOK'
  <2>1. sweep' \in [Workers -> SUBSET Rounds]
    BY <1>8 DEF Advance, AbortShort, Start, ResolveNone, ResolveWin, ResolveOn, AdvanceStale,
                Taken
  <2>5. ASSUME NEW u \in Users \cup {Nobody}, Eliminate(r, u)
        PROVE  SeatTypes'
    BY <2>5 DEF Eliminate, SeatAfter, SeatTypes, RoundTypes, Seats
  <2>6. CASE AbortShort(w, r)
    <3>1. RoundTypes'
      BY <2>6 DEF AbortShort, RoundTypes
    <3>2. SeatTypes'
      BY <2>6 DEF AbortShort, SeatTypes, Seats
    <3> QED BY <2>1, <2>6, <3>1, <3>2, RefundTypes DEF AbortShort
  <2>7. CASE Start(w, r)
    <3>1. RoundTypes'
      BY <2>7, ArcadeAssumption DEF Start, RoundTypes
    <3> QED BY <2>1, <2>7, <3>1 DEF Start, SeatTypes, MoneyTypes, seatVars, moneyVars
  <2>8. CASE ResolveNone(w, r)
    <3>1. RoundTypes'
      BY <2>8 DEF ResolveNone, RoundTypes
    <3> QED BY <2>1, <2>5, <2>8, <3>1, RefundTypes DEF ResolveNone
  <2>9. CASE ResolveWin(w, r)
    <3>1. RoundTypes'
      BY <2>9 DEF ResolveWin, RoundTypes
    <3>2. SeatTypes' /\ MoneyTypes'
      BY <2>5, <2>9, PayOutTypes DEF ResolveWin
    <3> QED BY <2>1, <2>9, <3>1, <3>2 DEF ResolveWin
  <2>10. CASE ResolveOn(w, r)
    <3>1. tick[r] < MaxTick
      BY <2>10 DEF ResolveOn, MayResolve, StageFits
    <3>2. RoundTypes'
      BY <2>10, <3>1, ArcadeAssumption DEF ResolveOn, RoundTypes
    <3> QED BY <2>1, <2>5, <2>10, <3>2 DEF ResolveOn, MoneyTypes, moneyVars
  <2>11. CASE AdvanceStale(w, r)
    BY <2>1, <2>11 DEF AdvanceStale, RoundTypes, SeatTypes, MoneyTypes, roundVars, seatVars,
                       moneyVars
  <2> QED BY <1>8, <2>6, <2>7, <2>8, <2>9, <2>10, <2>11 DEF Advance
<1>9. ASSUME NEW r \in Rounds, WindowLapses(r) \/ ClockRuns(r)
      PROVE  TypeOK'
  <2>1. RoundTypes'
    BY <1>9 DEF WindowLapses, ClockRuns, RoundTypes
  <2> QED BY <1>9, <2>1 DEF WindowLapses, ClockRuns, SeatTypes, MoneyTypes, seatVars, moneyVars
<1>10. CASE UNCHANGED vars
  BY <1>10 DEF vars, RoundTypes, SeatTypes, MoneyTypes, roundVars, seatVars, moneyVars
<1> QED
  BY <1>1, <1>2, <1>3, <1>4, <1>5, <1>6, <1>7, <1>8, <1>9, <1>10 DEF Next

-----------------------------------------------------------------------------
(* Seats. *)

LEMMA RemainingAlive ==
    ASSUME NEW r \in Rounds
    PROVE  Remaining(r) \subseteq Alive(r)
  BY DEF Remaining, Survivors, Picked, Committed

\* A resolved tick seats nobody and unseats nobody.
LEMMA EliminateSeats ==
    ASSUME TypeOK, NEW r \in Rounds, NEW w \in Remaining(r) \cup {Nobody}, Eliminate(r, w)
    PROVE  /\ \A q \in Rounds : q # r => seat'[q] = seat[q] /\ outAt'[q] = outAt[q]
           /\ \A u \in Users :
                 /\ seat'[r][u] = IF u \in Alive(r) \ Remaining(r) THEN "eliminated"
                                  ELSE IF u = w THEN "won" ELSE seat[r][u]
                 /\ outAt'[r][u] = IF u \in Alive(r) \ Remaining(r) THEN tick[r]
                                   ELSE outAt[r][u]
           /\ \A q \in Rounds : Entrants(q)' = Entrants(q)
<1>1. \A q \in Rounds : q # r => seat'[q] = seat[q] /\ outAt'[q] = outAt[q]
  BY DEF Eliminate, TypeOK, SeatTypes
<1>2. \A u \in Users :
         /\ seat'[r][u] = IF u \in Alive(r) \ Remaining(r) THEN "eliminated"
                          ELSE IF u = w THEN "won" ELSE seat[r][u]
         /\ outAt'[r][u] = IF u \in Alive(r) \ Remaining(r) THEN tick[r] ELSE outAt[r][u]
  BY DEF Eliminate, SeatAfter, TypeOK, SeatTypes
<1>3. \A u \in Users : seat'[r][u] # "none" <=> seat[r][u] # "none"
  BY <1>2, RemainingAlive, ArcadeAssumption DEF Alive
<1>4. \A q \in Rounds : Entrants(q)' = Entrants(q)
  BY <1>1, <1>3 DEF Entrants
<1> QED BY <1>1, <1>2, <1>4

\* Only join gives out a seat, and only in an open round.
LEMMA EntrantsStay ==
    ASSUME TypeOK, [Next]_vars, NEW q \in Rounds
    PROVE  /\ Entrants(q) \subseteq Entrants(q)'
           /\ status[q] # "open" => Entrants(q)' = Entrants(q)
<1>1. CASE UNCHANGED seat
  BY <1>1 DEF Entrants
<1>2. ASSUME NEW r \in Rounds, NEW u \in Users, Join(r, u)
      PROVE  /\ Entrants(q) \subseteq Entrants(q)'
             /\ status[q] # "open" => Entrants(q)' = Entrants(q)
  BY <1>2 DEF Join, Entrants, TypeOK, SeatTypes
<1>3. ASSUME NEW w \in Workers, NEW r \in Rounds, Advance(w, r)
      PROVE  Entrants(q)' = Entrants(q)
  <2>1. CASE AbortShort(w, r)
    BY <2>1 DEF AbortShort, Entrants, TypeOK, SeatTypes
  <2>2. CASE ResolveNone(w, r)
    BY <2>2, EliminateSeats DEF ResolveNone
  <2>3. CASE ResolveWin(w, r)
    BY <2>3, EliminateSeats DEF ResolveWin
  <2>4. CASE ResolveOn(w, r)
    BY <2>4, EliminateSeats DEF ResolveOn
  <2>5. CASE Start(w, r) \/ AdvanceStale(w, r)
    BY <2>5 DEF Start, AdvanceStale, seatVars, Entrants
  <2> QED BY <1>3, <2>1, <2>2, <2>3, <2>4, <2>5 DEF Advance
<1> QED
  BY <1>1, <1>2, <1>3 DEF Next, Credit, EnsureOpenRound, CommitRead, CommitInsert, CommitLost,
                          SweepDue, AdvanceFails, Crash, WindowLapses, ClockRuns, vars, seatVars

LEMMA NextStage == TypeOK /\ StageFits /\ [Next]_vars => StageFits'
<1> SUFFICES ASSUME TypeOK, StageFits, [Next]_vars, NEW q \in Rounds
             PROVE  /\ status'[q] = "unborn" => Entrants(q)' = {}
                    /\ status'[q] \in {"unborn", "open"} =>
                          tick'[q] = 0 /\ \A u \in Users : seat'[q][u] \in {"none", "alive"}
                    /\ status'[q] \in {"running", "settled"} => tick'[q] # 0
                    /\ status'[q] = "running" =>
                          \A u \in Users : seat'[q][u] \in {"none", "alive", "eliminated"}
                    /\ clock'[q] # "before" => tick'[q] < MaxTick
  BY DEF StageFits
<1> DEFINE Stage == /\ status'[q] = "unborn" => Entrants(q)' = {}
                    /\ status'[q] \in {"unborn", "open"} =>
                          tick'[q] = 0 /\ \A u \in Users : seat'[q][u] \in {"none", "alive"}
                    /\ status'[q] \in {"running", "settled"} => tick'[q] # 0
                    /\ status'[q] = "running" =>
                          \A u \in Users : seat'[q][u] \in {"none", "alive", "eliminated"}
                    /\ clock'[q] # "before" => tick'[q] < MaxTick
<1>1. CASE UNCHANGED <<status, tick, clock, seat>>
  BY <1>1 DEF StageFits, Entrants
<1>2. ASSUME NEW r \in Rounds, NEW t \in Terms, EnsureOpenRound(r, t)
      PROVE  Stage
  BY <1>2 DEF EnsureOpenRound, StageFits, TypeOK, RoundTypes, seatVars, Entrants
<1>3. ASSUME NEW r \in Rounds, NEW u \in Users, Join(r, u)
      PROVE  Stage
  BY <1>3, EntrantsStay DEF Join, StageFits, TypeOK, SeatTypes, roundVars
<1>4. ASSUME NEW r \in Rounds, WindowLapses(r) \/ ClockRuns(r)
      PROVE  Stage
  BY <1>4 DEF WindowLapses, ClockRuns, StageFits, TypeOK, RoundTypes, seatVars, Entrants
<1>5. ASSUME NEW w \in Workers, NEW r \in Rounds, Advance(w, r)
      PROVE  Stage
  <2>1. CASE AbortShort(w, r)
    BY <2>1, EntrantsStay DEF AbortShort, StageFits, TypeOK, RoundTypes, SeatTypes
  <2>2. CASE Start(w, r)
    BY <2>2, EntrantsStay, ArcadeAssumption
    DEF Start, StageFits, TypeOK, RoundTypes, SeatTypes, seatVars
  <2>3. ASSUME MayResolve(r), NEW v \in Remaining(r) \cup {Nobody}, Eliminate(r, v)
        PROVE  /\ Entrants(q)' = Entrants(q)
               /\ q # r => seat'[q] = seat[q]
               /\ q = r => status[q] = "running" /\ tick[q] # 0 /\ tick[q] < MaxTick
               /\ q = r /\ v = Nobody =>
                     \A u \in Users : seat'[q][u] \in {"none", "alive", "eliminated"}
    <3>1. Nobody \notin Users
      BY ArcadeAssumption
    <3> QED BY <2>3, <3>1, EliminateSeats DEF MayResolve, StageFits
  <2>4. CASE ResolveNone(w, r)
    <3>1. MayResolve(r) /\ Eliminate(r, Nobody) /\ tick' = tick /\ clock' = clock
      BY <2>4 DEF ResolveNone
    <3>2. status' = [status EXCEPT ![r] = "aborted"]
      BY <2>4 DEF ResolveNone
    <3> QED BY <2>3, <3>1, <3>2 DEF StageFits, TypeOK, RoundTypes
  <2>5. CASE ResolveWin(w, r)
    <3>1. PICK v \in Users : Remaining(r) = {v} /\ Eliminate(r, v)
      BY <2>5 DEF ResolveWin
    <3>2. MayResolve(r) /\ tick' = tick /\ clock' = clock
      BY <2>5 DEF ResolveWin
    <3>3. status' = [status EXCEPT ![r] = "settled"]
      BY <2>5 DEF ResolveWin
    <3> QED BY <2>3, <3>1, <3>2, <3>3 DEF StageFits, TypeOK, RoundTypes
  <2>7. CASE ResolveOn(w, r)
    <3>1. MayResolve(r) /\ Eliminate(r, Nobody) /\ status' = status
      BY <2>7 DEF ResolveOn
    <3>2. /\ tick' = [tick EXCEPT ![r] = @ + 1]
          /\ clock' = [clock EXCEPT ![r] = "before"]
      BY <2>7 DEF ResolveOn
    <3>3. CASE q = r
      <4>1. /\ tick'[q] = tick[q] + 1 /\ tick[q] \in Nat /\ clock'[q] = "before"
            /\ status'[q] = "running"
        BY <2>3, <3>1, <3>2, <3>3, ArcadeAssumption DEF TypeOK, RoundTypes
      <4> QED BY <2>3, <3>1, <3>3, <4>1
    <3>4. CASE q # r
      BY <2>3, <3>1, <3>2, <3>4 DEF StageFits, TypeOK, RoundTypes
    <3> QED BY <3>3, <3>4
  <2>6. CASE AdvanceStale(w, r)
    BY <1>1, <2>6 DEF AdvanceStale, roundVars, seatVars
  <2> QED BY <1>5, <2>1, <2>2, <2>4, <2>5, <2>6, <2>7 DEF Advance
<1> QED
  BY <1>1, <1>2, <1>3, <1>4, <1>5 DEF Next, Credit, CommitRead, CommitInsert, CommitLost,
     SweepDue, AdvanceFails, Crash, vars, seatVars, roundVars

-----------------------------------------------------------------------------
(* Moves. *)

\* Ticks only go forward, and a player who goes out does so in the tick the
\* round is at.
LEMMA GoingOut ==
    ASSUME TypeOK, StageFits, [Next]_vars, NEW q \in Rounds, NEW u \in Users
    PROVE  /\ tick'[q] \in Nat /\ tick[q] \in Nat /\ tick'[q] >= tick[q]
           /\ seat'[q][u] = "eliminated" =>
                 \/ seat[q][u] = "eliminated" /\ outAt'[q][u] = outAt[q][u]
                 \/ outAt'[q][u] = tick[q]
<1> DEFINE Goal == /\ tick'[q] \in Nat /\ tick[q] \in Nat /\ tick'[q] >= tick[q]
                   /\ seat'[q][u] = "eliminated" =>
                         \/ seat[q][u] = "eliminated" /\ outAt'[q][u] = outAt[q][u]
                         \/ outAt'[q][u] = tick[q]
<1>0. tick[q] \in Nat
  BY ArcadeAssumption DEF TypeOK, RoundTypes
<1>1. CASE UNCHANGED <<tick, seat, outAt>>
  BY <1>0, <1>1
<1>2. ASSUME NEW r \in Rounds, NEW v \in Users, Join(r, v)
      PROVE  Goal
  BY <1>0, <1>2 DEF Join, TypeOK, SeatTypes, roundVars
<1>3. ASSUME NEW w \in Workers, NEW r \in Rounds, Advance(w, r)
      PROVE  Goal
  <2>1. CASE AbortShort(w, r)
    BY <1>0, <2>1 DEF AbortShort, TypeOK, SeatTypes
  <2>2. CASE Start(w, r)
    <3>1. tick'[q] >= tick[q] /\ tick'[q] \in Nat
      BY <1>0, <2>2 DEF Start, StageFits, TypeOK, RoundTypes
    <3> QED BY <1>0, <2>2, <3>1 DEF Start, seatVars
  <2>3. ASSUME NEW v \in Remaining(r) \cup {Nobody}, Eliminate(r, v)
        PROVE  seat'[q][u] = "eliminated" =>
                  \/ seat[q][u] = "eliminated" /\ outAt'[q][u] = outAt[q][u]
                  \/ outAt'[q][u] = tick[q]
    BY <2>3, EliminateSeats
  <2>4. CASE ResolveNone(w, r)
    BY <1>0, <2>3, <2>4 DEF ResolveNone
  <2>5. CASE ResolveWin(w, r)
    BY <1>0, <2>3, <2>5 DEF ResolveWin
  <2>6. CASE ResolveOn(w, r)
    <3>1. tick' = [tick EXCEPT ![r] = @ + 1] /\ Eliminate(r, Nobody)
      BY <2>6 DEF ResolveOn
    <3>2. tick'[q] \in Nat /\ tick'[q] >= tick[q]
      BY <1>0, <3>1 DEF TypeOK, RoundTypes
    <3> QED BY <1>0, <2>3, <3>1, <3>2
  <2>7. CASE AdvanceStale(w, r)
    BY <1>1, <2>7 DEF AdvanceStale, roundVars, seatVars
  <2> QED BY <1>3, <2>1, <2>2, <2>4, <2>5, <2>6, <2>7 DEF Advance
<1> QED
  BY <1>1, <1>2, <1>3 DEF Next, Credit, EnsureOpenRound, CommitRead, CommitInsert, CommitLost,
     SweepDue, AdvanceFails, Crash, WindowLapses, ClockRuns, vars, seatVars, roundVars

LEMMA NextMoves ==
    TypeOK /\ StageFits /\ CommitsFit /\ NoMovesFromTheEliminated /\ [Next]_vars
        => CommitsFit' /\ NoMovesFromTheEliminated'
<1> SUFFICES ASSUME TypeOK, StageFits, CommitsFit, NoMovesFromTheEliminated, [Next]_vars
             PROVE  CommitsFit' /\ NoMovesFromTheEliminated'
  OBVIOUS
\* What lets a move in, for a player of a round: an old one stays let in.
<1> DEFINE Fits(q, t, u) ==
              /\ seat[q][u] # "none" /\ t <= tick[q]
              /\ seat[q][u] = "eliminated" => t <= outAt[q][u]
           FitsNext(q, t, u) ==
              /\ seat'[q][u] # "none" /\ t <= tick'[q]
              /\ seat'[q][u] = "eliminated" => t <= outAt'[q][u]
<1>1. ASSUME NEW q \in Rounds, NEW t \in Ticks, NEW u \in Users, Fits(q, t, u)
      PROVE  FitsNext(q, t, u)
  <2>1. t \in Nat /\ seat'[q][u] # "none"
    BY <1>1, EntrantsStay, ArcadeAssumption DEF Ticks, Entrants
  <2> QED BY <1>1, <2>1, GoingOut
<1>2. ASSUME NEW r \in Rounds, NEW u \in Users, NEW c \in Choice, CommitRead(r, u, c)
      PROVE  Fits(r, tick[r], u)
  <2>1. tick[r] \in Nat
    BY ArcadeAssumption DEF TypeOK, RoundTypes
  <2> QED BY <1>2, <2>1 DEF CommitRead
<1>3. ASSUME NEW u \in Users, commit[u] # Nobody
      PROVE  /\ commit[u] \in Commits
             /\ Fits(commit[u].round, commit[u].tick, u)
             /\ FitsNext(commit[u].round, commit[u].tick, u)
  <2>1. commit[u] \in Commits
    BY <1>3 DEF TypeOK
  <2>2. Fits(commit[u].round, commit[u].tick, u)
    BY <1>3 DEF CommitsFit, Entrants
  <2>3. commit[u].round \in Rounds /\ commit[u].tick \in Ticks
    BY <2>1 DEF Commits
  <2> QED BY <1>1, <2>1, <2>2, <2>3
<1>4. ASSUME NEW u \in Users, commit'[u] # Nobody
      PROVE  FitsNext(commit'[u].round, commit'[u].tick, u)
  <2>1. CASE commit'[u] = commit[u]
    BY <1>3, <1>4, <2>1
  <2>2. CASE commit'[u] # commit[u]
    <3>1. PICK r \in Rounds, c \in Choice : CommitRead(r, u, c)
      BY <1>4, <2>2 DEF Next, Advance, AbortShort, Start, ResolveNone, ResolveWin, ResolveOn,
         AdvanceStale, Credit, EnsureOpenRound, Join, CommitRead, CommitInsert, CommitLost,
         SweepDue, AdvanceFails, Crash, WindowLapses, ClockRuns, vars, TypeOK
    <3>2. commit'[u] = [round |-> r, tick |-> tick[r], choice |-> c]
      BY <3>1 DEF CommitRead, TypeOK
    <3>3. tick[r] \in Ticks
      BY <3>1, ArcadeAssumption DEF CommitRead, StageFits, TypeOK, RoundTypes, Ticks
    <3> QED BY <1>1, <1>2, <3>1, <3>2, <3>3
  <2> QED BY <2>1, <2>2
<1>5. ASSUME NEW q \in Rounds, NEW t \in Ticks, NEW u \in Users, moves'[q][t][u] # NoMove
      PROVE  FitsNext(q, t, u)
  <2>1. CASE moves'[q][t][u] = moves[q][t][u]
    BY <1>1, <1>5, <2>1 DEF NoMovesFromTheEliminated, Entrants
  <2>2. CASE moves'[q][t][u] # moves[q][t][u]
    <3>1. PICK v \in Users : CommitInsert(v)
      BY <2>2 DEF Next, Advance, AbortShort, Start, ResolveNone, ResolveWin, ResolveOn,
         AdvanceStale, Credit, EnsureOpenRound, Join, CommitRead, CommitLost,
         SweepDue, AdvanceFails, Crash, WindowLapses, ClockRuns, vars
    <3>2. commit[v] \in Commits
      BY <1>3, <3>1 DEF CommitInsert
    <3>3. v = u /\ commit[u].round = q /\ commit[u].tick = t
      BY <2>2, <3>1, <3>2 DEF CommitInsert, TypeOK, Commits
    <3> QED BY <1>3, <3>1, <3>3 DEF CommitInsert
  <2> QED BY <2>1, <2>2
<1> QED BY <1>4, <1>5 DEF CommitsFit, NoMovesFromTheEliminated, Entrants

-----------------------------------------------------------------------------
(* Money. *)

\* The same players and the same terms make the same pot.
LEMMA PotStays ==
    ASSUME NEW q \in Rounds, Entrants(q)' = Entrants(q), terms'[q] = terms[q]
    PROVE  /\ Amount(q)' = Amount(q) /\ Pot(q)' = Pot(q)
           /\ Rake(q)' = Rake(q) /\ Payout(q)' = Payout(q)
  BY DEF Amount, Pot, Rake, RakeOf, Payout

\* refundAll on a round in play brings every player of it back to zero.
LEMMA RefundBook ==
    ASSUME TypeOK, LedgerFollowsRound, SettledExactlyOnce,
           NEW r \in Rounds, InPlay(r), RefundAll(r)
    PROVE  /\ \A u \in Users : ledger'[r][u] = 0
           /\ settlement'[r] # Nobody <=> Amount(r) # 0
           /\ house'[r] = 0
           /\ \A q \in Rounds : q # r =>
                 /\ ledger'[q] = ledger[q] /\ house'[q] = house[q]
                 /\ settlement'[q] = settlement[q]
<1>1. Amount(r) \in Nat
  BY PotTypes DEF TypeOK, RoundTypes
<1>2. \A u \in Users : ledger[r][u] = IF u \in Entrants(r) THEN -Amount(r) ELSE 0
  BY DEF LedgerFollowsRound, Books, InPlay
<1>3. settlement[r] = Nobody /\ house[r] = 0
  BY DEF SettledExactlyOnce, SettlementFits, InPlay, Finished
<1>4. CASE Amount(r) = 0
  <2>1. UNCHANGED <<ledger, house, settlement>>
    BY <1>4 DEF RefundAll, NothingToSettle, moneyVars
  <2>2. \A u \in Users : ledger[r][u] = 0
    BY <1>2, <1>4
  <2> QED BY <1>3, <1>4, <2>1, <2>2
<1>5. CASE Amount(r) # 0
  <2> DEFINE a == Amount(r)
             E == Entrants(r)
  <2>1. /\ settlement' = [settlement EXCEPT ![r] = [pot |-> 0, rake |-> 0, paidOut |-> 0]]
        /\ ledger' = [ledger EXCEPT ![r] =
                          [u \in Users |-> IF u \in E THEN @[u] + a ELSE @[u]]]
        /\ house' = house
    BY <1>3, <1>5 DEF RefundAll, NothingToSettle
  <2>2. settlement'[r] # Nobody
    BY <2>1, ArcadeAssumption DEF TypeOK, MoneyTypes
  <2>3. \A u \in Users : ledger[r][u] = IF u \in E THEN -a ELSE 0
    BY <1>2
  <2>4. a \in Nat /\ a # 0
    BY <1>1, <1>5
  <2>5. /\ \A q \in Rounds : q # r => ledger'[q] = ledger[q] /\ settlement'[q] = settlement[q]
        /\ house'[r] = 0
    BY <1>3, <2>1 DEF TypeOK, MoneyTypes
  <2> HIDE DEF a, E
  <2>6. \A u \in Users : ledger'[r][u] = 0
    BY <2>1, <2>3, <2>4 DEF TypeOK, MoneyTypes
  <2> QED BY <1>5, <2>1, <2>2, <2>5, <2>6
<1> QED BY <1>4, <1>5

\* payOut on a running round moves the whole pot: the stakes are lost, the
\* winner has the payout and the house the rake.
LEMMA PayBook ==
    ASSUME TypeOK, LedgerFollowsRound, SettledExactlyOnce,
           NEW r \in Rounds, NEW w \in Entrants(r), status[r] = "running", PayOut(r, w)
    PROVE  /\ \A u \in Users : ledger'[r][u] =
                 IF u \notin Entrants(r) THEN 0
                 ELSE IF u = w THEN Payout(r) - Amount(r) ELSE -Amount(r)
           /\ settlement'[r] # Nobody <=> Amount(r) # 0
           /\ house'[r] = Rake(r)
           /\ settlement'[r] # Nobody =>
                 settlement'[r] = [pot |-> Pot(r), rake |-> Rake(r), paidOut |-> Payout(r)]
           /\ \A q \in Rounds : q # r =>
                 /\ ledger'[q] = ledger[q] /\ house'[q] = house[q]
                 /\ settlement'[q] = settlement[q]
<1> DEFINE a == Amount(r)
           E == Entrants(r)
           pot == Pot(r)
           rake == Rake(r)
           pay == Payout(r)
<1>1. /\ a \in Nat /\ pot \in Nat /\ rake \in Nat /\ pay \in Nat
      /\ a = 0 => rake = 0 /\ pay = 0
  BY PotTypes DEF TypeOK, RoundTypes
<1>2. /\ \A u \in Users : ledger[r][u] = IF u \in E THEN -a ELSE 0
      /\ w \in Users
  BY DEF LedgerFollowsRound, Books, Entrants
<1>3. settlement[r] = Nobody /\ house[r] = 0
  BY DEF SettledExactlyOnce, SettlementFits, Finished
<1>4. CASE a = 0
  <2>1. UNCHANGED <<ledger, house, settlement>>
    BY <1>4 DEF PayOut, NothingToSettle, moneyVars
  <2> HIDE DEF a, E, pot, rake, pay
  <2>2. /\ \A u \in Users : ledger'[r][u] =
              IF u \notin E THEN 0 ELSE IF u = w THEN pay - a ELSE -a
        /\ house'[r] = rake
    BY <1>1, <1>2, <1>3, <1>4, <2>1
  <2> QED BY <1>3, <1>4, <2>1, <2>2 DEF a, E, pay, rake
<1>5. CASE a # 0
  <2>1. /\ settlement' = [settlement EXCEPT ![r] = [pot |-> pot, rake |-> rake, paidOut |-> pay]]
        /\ ledger' = [ledger EXCEPT ![r][w] = @ + pay]
        /\ house' = [house EXCEPT ![r] = @ + rake]
    BY <1>3, <1>5 DEF PayOut, NothingToSettle
  <2>2. [pot |-> pot, rake |-> rake, paidOut |-> pay] # Nobody
    BY <1>1, ArcadeAssumption
  <2> HIDE DEF a, E, pot, rake, pay
  <2>3. settlement'[r] # Nobody /\ settlement'[r] = [pot |-> pot, rake |-> rake, paidOut |-> pay]
    BY <2>1, <2>2 DEF TypeOK, MoneyTypes
  <2>4. \A q \in Rounds : q # r =>
           ledger'[q] = ledger[q] /\ house'[q] = house[q] /\ settlement'[q] = settlement[q]
    BY <2>1 DEF TypeOK, MoneyTypes
  <2>5. house'[r] = rake
    BY <1>1, <1>3, <2>1 DEF TypeOK, MoneyTypes
  <2>6. w \in E
    BY DEF E
  <2>7. \A u \in Users : ledger'[r][u] =
              IF u \notin E THEN 0 ELSE IF u = w THEN pay - a ELSE -a
    BY <1>1, <1>2, <2>1, <2>6 DEF TypeOK, MoneyTypes
  <2> QED BY <1>5, <2>3, <2>4, <2>5, <2>7 DEF a, E, pot, rake, pay
<1> QED BY <1>4, <1>5

\* No step changes a move that was made.
LEMMA KeepMoves ==
    ASSUME TypeOK, [Next]_vars, NEW q \in Rounds, NEW t \in Ticks, NEW u \in Users,
           moves[q][t][u] # NoMove
    PROVE  moves'[q][t][u] = moves[q][t][u]
<1>1. ASSUME NEW v \in Users, CommitInsert(v)
      PROVE  moves'[q][t][u] = moves[q][t][u]
  <2>1. commit[v] \in Commits
    BY <1>1 DEF CommitInsert, TypeOK
  <2> QED BY <1>1, <2>1 DEF CommitInsert, TypeOK, Commits
<1> QED
  BY <1>1 DEF Next, Advance, AbortShort, Start, ResolveNone, ResolveWin, ResolveOn,
     AdvanceStale, Credit, EnsureOpenRound, Join, CommitRead, CommitLost, SweepDue, AdvanceFails, Crash,
     WindowLapses, ClockRuns, vars

LEMMA NextBooks == IInv /\ [Next]_vars => LedgerFollowsRound' /\ SettledExactlyOnce' /\ WinnerPlayed'
<1> SUFFICES ASSUME IInv, [Next]_vars, NEW q \in Rounds
             PROVE  /\ \A u \in Users : ledger'[q][u] = Books(q, u)'
                    /\ SettlementFits(q)'
                    /\ status'[q] = "settled" => WonByPlaying(q)'
  BY DEF LedgerFollowsRound, SettledExactlyOnce, WinnerPlayed
<1> DEFINE Kept == /\ \A u \in Users : ledger'[q][u] = Books(q, u)'
                   /\ SettlementFits(q)'
                   /\ status'[q] = "settled" => WonByPlaying(q)'
<1>0. /\ TypeOK /\ StageFits /\ LedgerFollowsRound /\ SettledExactlyOnce
      /\ \A u \in Users : ledger[q][u] = Books(q, u)
      /\ SettlementFits(q)
      /\ status[q] = "settled" =>
            WonByPlaying(q) /\ winner[q] \in Users /\ tick[q] \in Ticks
  <2>1. status[q] = "settled" => winner[q] \in Users
    BY DEF IInv, WinnerPlayed, WonByPlaying, Entrants
  <2>2. status[q] = "settled" => tick[q] \in Ticks
    BY ArcadeAssumption DEF IInv, StageFits, TypeOK, RoundTypes, Ticks
  <2> QED BY <2>1, <2>2 DEF IInv, LedgerFollowsRound, SettledExactlyOnce, WinnerPlayed
\* The columns of a round that nothing touches, but perhaps its seats.
<1>1. ASSUME /\ status'[q] = status[q] /\ terms'[q] = terms[q] /\ winner'[q] = winner[q]
             /\ ledger'[q] = ledger[q] /\ house'[q] = house[q]
             /\ settlement'[q] = settlement[q] /\ Entrants(q)' = Entrants(q),
             status[q] = "settled" => seat'[q] = seat[q] /\ tick'[q] = tick[q]
      PROVE  Kept
  <2>1. \A u \in Users : ledger'[q][u] = Books(q, u)'
    BY <1>0, <1>1, PotStays DEF Books
  <2>2. SettlementFits(q)'
    BY <1>0, <1>1, PotStays DEF SettlementFits, Finished
  <2>3. status'[q] = "settled" => WonByPlaying(q)'
    BY <1>0, <1>1, KeepMoves DEF WonByPlaying
  <2> QED BY <2>1, <2>2, <2>3
<1>2. ASSUME NEW r \in Rounds, NEW t \in Terms, EnsureOpenRound(r, t)
      PROVE  Kept
  <2>1. UNCHANGED <<winner, tick, seat, ledger, house, settlement>>
    BY <1>2 DEF EnsureOpenRound, seatVars, moneyVars
  <2>2. Entrants(q)' = Entrants(q)
    BY <2>1 DEF Entrants
  <2>3. CASE q # r
    BY <1>1, <1>2, <2>1, <2>2, <2>3 DEF EnsureOpenRound, TypeOK, RoundTypes
  <2>4. CASE q = r
    <3>1. status[q] = "unborn" /\ status'[q] = "open"
      BY <1>0, <1>2, <2>4 DEF EnsureOpenRound, TypeOK, RoundTypes
    <3>2. Entrants(q) = {}
      BY <1>0, <3>1 DEF StageFits
    <3> QED BY <1>0, <2>1, <2>2, <3>1, <3>2 DEF Books, SettlementFits, Finished
  <2> QED BY <2>3, <2>4
<1>3. ASSUME NEW r \in Rounds, NEW u \in Users, Join(r, u)
      PROVE  Kept
  <2>1. UNCHANGED <<status, terms, winner, tick>>
    BY <1>3 DEF Join, roundVars
  <2>2. /\ house' = house /\ settlement' = settlement
        /\ \A p \in Rounds : p # r => ledger'[p] = ledger[p] /\ seat'[p] = seat[p]
    BY <1>0, <1>3 DEF Join, Escrow, moneyVars, TypeOK, SeatTypes, MoneyTypes
  <2>3. CASE q # r
    BY <1>1, <2>1, <2>2, <2>3 DEF Entrants
  <2>4. CASE q = r
    <3>1. status[q] = "open" /\ u \notin Entrants(q)
      BY <1>3, <2>4 DEF Join, Entrants
    <3>2. /\ Entrants(q)' = Entrants(q) \cup {u}
          /\ Amount(q)' = Amount(q) /\ Amount(q) \in Nat
      BY <1>0, <1>3, <2>1, <2>4, PotTypes DEF Join, Entrants, Amount, TypeOK, SeatTypes, RoundTypes
    <3>3. ledger[q][u] = 0
      BY <1>0, <3>1 DEF Books
    <3>4. \A v \in Users : ledger'[q][v] = IF v = u THEN -Amount(q) ELSE ledger[q][v]
      <4>1. CASE Amount(r) = 0 /\ UNCHANGED moneyVars
        BY <2>4, <3>3, <4>1 DEF moneyVars
      <4>2. CASE Escrow(r, u)
        BY <1>0, <2>4, <3>2, <3>3, <4>2 DEF Escrow, TypeOK, MoneyTypes
      <4> QED BY <1>3, <4>1, <4>2 DEF Join
    <3>5. \A v \in Users : ledger'[q][v] = Books(q, v)'
      BY <1>0, <2>1, <3>1, <3>2, <3>4 DEF Books
    <3>6. SettlementFits(q)'
      BY <1>0, <2>1, <2>2, <3>1, <3>2 DEF SettlementFits, Finished
    <3> QED BY <2>1, <3>1, <3>5, <3>6
  <2> QED BY <2>3, <2>4
\* A round in play that is aborted and refunded.
<1>4. ASSUME NEW r \in Rounds, InPlay(r), status' = [status EXCEPT ![r] = "aborted"],
             UNCHANGED <<terms, winner, tick>>, RefundAll(r),
             \A p \in Rounds : Entrants(p)' = Entrants(p) /\ (p # r => seat'[p] = seat[p])
      PROVE  Kept
  <2>1. /\ \A u \in Users : ledger'[r][u] = 0
        /\ settlement'[r] # Nobody <=> Amount(r) # 0
        /\ house'[r] = 0
        /\ \A p \in Rounds : p # r =>
              /\ ledger'[p] = ledger[p] /\ house'[p] = house[p]
              /\ settlement'[p] = settlement[p]
    BY <1>0, <1>4, RefundBook
  <2>2. CASE q # r
    BY <1>1, <1>4, <2>1, <2>2 DEF TypeOK, RoundTypes
  <2>3. CASE q = r
    <3>1. status'[q] = "aborted" /\ Amount(q)' = Amount(q)
      BY <1>0, <1>4, <2>3, PotStays DEF TypeOK, RoundTypes
    <3> QED BY <2>1, <2>3, <3>1 DEF Books, SettlementFits, Finished
  <2> QED BY <2>2, <2>3
<1>5. ASSUME NEW w \in Workers, NEW r \in Rounds, Advance(w, r)
      PROVE  Kept
  <2>1. CASE AbortShort(w, r)
    <3>1. /\ InPlay(r) /\ RefundAll(r) /\ status' = [status EXCEPT ![r] = "aborted"]
          /\ UNCHANGED <<terms, winner, tick>>
          /\ \A p \in Rounds : p # r => seat'[p] = seat[p]
      BY <1>0, <2>1 DEF AbortShort, InPlay, TypeOK, SeatTypes
    <3>2. \A p \in Rounds : Entrants(p)' = Entrants(p)
      BY <1>0, <2>1 DEF AbortShort, Entrants, TypeOK, SeatTypes
    <3> QED BY <1>4, <3>1, <3>2
  <2>2. CASE Start(w, r)
    <3>1. /\ UNCHANGED <<terms, winner, seat, ledger, house, settlement>>
          /\ status' = [status EXCEPT ![r] = "running"] /\ status[r] = "open"
          /\ \A p \in Rounds : p # r => tick'[p] = tick[p]
      BY <1>0, <2>2 DEF Start, seatVars, moneyVars, TypeOK, RoundTypes
    <3>2. Entrants(q)' = Entrants(q)
      BY <3>1 DEF Entrants
    <3>3. CASE q # r
      BY <1>0, <1>1, <3>1, <3>2, <3>3 DEF TypeOK, RoundTypes
    <3>4. CASE q = r
      <4>1. status'[q] = "running" /\ status[q] = "open"
        BY <1>0, <3>1, <3>4 DEF TypeOK, RoundTypes
      <4> QED BY <1>0, <3>1, <3>2, <4>1, PotStays DEF Books, SettlementFits, Finished
    <3> QED BY <3>3, <3>4
  <2>3. CASE ResolveNone(w, r)
    <3>1. /\ InPlay(r) /\ RefundAll(r) /\ status' = [status EXCEPT ![r] = "aborted"]
          /\ UNCHANGED <<terms, winner, tick>> /\ Eliminate(r, Nobody)
      BY <2>3 DEF ResolveNone, MayResolve, InPlay
    <3> QED BY <1>0, <1>4, <3>1, EliminateSeats
  <2>4. CASE ResolveWin(w, r)
    <3>1. PICK v \in Users :
             /\ Remaining(r) = {v} /\ Eliminate(r, v)
             /\ winner' = [winner EXCEPT ![r] = v] /\ PayOut(r, v)
      BY <2>4 DEF ResolveWin
    <3>2. /\ status[r] = "running" /\ status' = [status EXCEPT ![r] = "settled"]
          /\ UNCHANGED <<terms, tick, moves>>
      BY <2>4 DEF ResolveWin, MayResolve
    <3>3. v \in Alive(r) /\ v \in Entrants(r)
      BY <3>1, RemainingAlive DEF Alive, Entrants
    <3>4. /\ \A u \in Users : ledger'[r][u] =
                IF u \notin Entrants(r) THEN 0
                ELSE IF u = v THEN Payout(r) - Amount(r) ELSE -Amount(r)
          /\ settlement'[r] # Nobody <=> Amount(r) # 0
          /\ house'[r] = Rake(r)
          /\ settlement'[r] # Nobody =>
                settlement'[r] = [pot |-> Pot(r), rake |-> Rake(r), paidOut |-> Payout(r)]
          /\ \A p \in Rounds : p # r =>
                /\ ledger'[p] = ledger[p] /\ house'[p] = house[p]
                /\ settlement'[p] = settlement[p]
      BY <1>0, <3>1, <3>2, <3>3, PayBook
    <3>5. \A p \in Rounds : Entrants(p)' = Entrants(p) /\ (p # r => seat'[p] = seat[p])
      BY <1>0, <3>1, EliminateSeats
    <3>6. CASE q # r
      BY <1>0, <1>1, <3>1, <3>2, <3>4, <3>5, <3>6 DEF TypeOK, RoundTypes
    <3>7. CASE q = r
      <4>1. status'[q] = "settled" /\ winner'[q] = v
        BY <1>0, <3>1, <3>2, <3>7 DEF TypeOK, RoundTypes
      <4>2. \A u \in Users : ledger'[q][u] = Books(q, u)'
        BY <3>2, <3>4, <3>5, <3>7, <4>1, PotStays DEF Books
      <4>3. SettlementFits(q)'
        BY <1>0, <3>2, <3>4, <3>5, <3>7, <4>1, PotStays, PotTypes
        DEF SettlementFits, Finished, TypeOK, RoundTypes
      <4>4. WonByPlaying(q)'
        <5>1. seat'[r][v] = "won"
          BY <1>0, <3>1, EliminateSeats
        <5>2. \A u \in Entrants(r) \ {v} : seat'[r][u] = "eliminated"
          <6>1. \A u \in Entrants(r) : seat[r][u] \in {"alive", "eliminated"}
            BY <1>0, <3>2 DEF StageFits, Entrants
          <6> QED BY <1>0, <3>1, <6>1, EliminateSeats DEF Entrants, Alive
        <5>3. moves[r][tick[r]][v] # NoMove
          BY <3>1, NoMoveAssumption DEF Remaining, Survivors, Picked, Committed, Choice,
                                        MinorityChoice
        <5> QED BY <3>2, <3>3, <3>5, <3>7, <4>1, <5>1, <5>2, <5>3 DEF WonByPlaying
      <4> QED BY <4>2, <4>3, <4>4
    <3> QED BY <3>6, <3>7
  <2>5. CASE ResolveOn(w, r)
    <3>1. /\ UNCHANGED <<status, terms, winner, ledger, house, settlement>>
          /\ Eliminate(r, Nobody) /\ status[r] = "running"
          /\ \A p \in Rounds : p # r => tick'[p] = tick[p]
      BY <1>0, <2>5 DEF ResolveOn, MayResolve, moneyVars, TypeOK, RoundTypes
    <3>2. \A p \in Rounds : Entrants(p)' = Entrants(p) /\ (p # r => seat'[p] = seat[p])
      BY <1>0, <3>1, EliminateSeats
    <3> QED BY <1>1, <3>1, <3>2
  <2>6. CASE AdvanceStale(w, r)
    BY <1>1, <2>6 DEF AdvanceStale, roundVars, seatVars, moneyVars, Entrants
  <2> QED BY <1>5, <2>1, <2>2, <2>3, <2>4, <2>5, <2>6 DEF Advance
<1>6. CASE UNCHANGED <<status, terms, winner, tick, seat, ledger, house, settlement>>
  BY <1>1, <1>6 DEF Entrants
<1> QED
  BY <1>2, <1>3, <1>5, <1>6 DEF Next, Credit, CommitRead, CommitInsert, CommitLost,
     SweepDue, AdvanceFails, Crash, WindowLapses, ClockRuns, vars, roundVars, seatVars, moneyVars

-----------------------------------------------------------------------------
(* The theorems. *)

LEMMA InitInv == Init => IInv
<1> SUFFICES ASSUME Init PROVE IInv
  OBVIOUS
<1>1. TypeOK
  BY InitTypes
<1>2. \A r \in Rounds : Entrants(r) = {}
  BY DEF Init, Entrants
<1>3. StageFits
  BY <1>2, ArcadeAssumption DEF Init, StageFits
<1>4. CommitsFit /\ NoMovesFromTheEliminated
  BY DEF Init, CommitsFit, NoMovesFromTheEliminated
<1>5. LedgerFollowsRound
  BY <1>2 DEF Init, LedgerFollowsRound, Books
<1>6. SettledExactlyOnce /\ WinnerPlayed
  BY DEF Init, SettledExactlyOnce, SettlementFits, WinnerPlayed, Finished
<1> QED BY <1>1, <1>3, <1>4, <1>5, <1>6 DEF IInv

LEMMA NextInv == IInv /\ [Next]_vars => IInv'
  BY NextTypes, NextStage, NextMoves, NextBooks DEF IInv

\* The inductive invariant: types, stages, commits in flight and money together.
THEOREM Invariant == Spec => []IInv
  BY InitInv, NextInv, PTL DEF Spec

\* Every column of every table keeps to its domain.
THEOREM TypeCorrect == Spec => []TypeOK
<1>1. IInv => TypeOK
  BY DEF IInv
<1> QED BY <1>1, Invariant, PTL

\* Every ledger row total is the one the round's state asks for: a stake is
\* charged once, and goes back, to the winner, or to the house, exactly once.
THEOREM LedgerCorrect == Spec => []LedgerFollowsRound
<1>1. IInv => LedgerFollowsRound
  BY DEF IInv
<1> QED BY <1>1, Invariant, PTL

\* A staked round is settled in the step that finishes it, by one row that
\* accounts for its pot.
THEOREM SettlesOnce == Spec => []SettledExactlyOnce
<1>1. IInv => SettledExactlyOnce
  BY DEF IInv
<1> QED BY <1>1, Invariant, PTL

\* No round is won in silence, and its winner is the only player left.
THEOREM WinnerIsEarned == Spec => []WinnerPlayed
<1>1. IInv => WinnerPlayed
  BY DEF IInv
<1> QED BY <1>1, Invariant, PTL

\* commit's unlocked reads never let in a move of a later tick than the one
\* that put the player out.
THEOREM EliminatedStaySilent == Spec => []NoMovesFromTheEliminated
<1>1. IInv => NoMovesFromTheEliminated
  BY DEF IInv
<1> QED BY <1>1, Invariant, PTL

\* A move is never overwritten.
THEOREM MovesAreFinal == Spec => MoveIsFinal
<1>1. TypeOK /\ [Next]_vars =>
         [\A r \in Rounds, t \in Ticks, u \in Users :
            moves[r][t][u] # NoMove => moves'[r][t][u] = moves[r][t][u]]_vars
  BY KeepMoves
<1> QED BY <1>1, TypeCorrect, PTL DEF Spec, MoveIsFinal

\* What a settlement writes stays in its round.
LEMMA OtherRounds ==
    ASSUME TypeOK, NEW r \in Rounds, NEW q \in Rounds, q # r,
           RefundAll(r) \/ \E w \in Users : PayOut(r, w)
    PROVE  ledger'[q] = ledger[q] /\ house'[q] = house[q] /\ settlement'[q] = settlement[q]
  BY DEF RefundAll, PayOut, moneyVars, TypeOK, MoneyTypes

\* A finished round never changes.
THEOREM FinishedRoundsRest == Spec => FinishedIsFinal
<1> USE DEF Rests
<1>1. ASSUME TypeOK, [Next]_vars, NEW q \in Rounds, Finished(q)
      PROVE  Rests(q)
  <2>1. CASE UNCHANGED <<status, winner, seat, outAt, ledger, house, settlement>>
    BY <2>1
  <2>2. ASSUME NEW r \in Rounds, NEW t \in Terms, EnsureOpenRound(r, t)
        PROVE  Rests(q)
    BY <1>1, <2>2 DEF EnsureOpenRound, Finished, TypeOK, RoundTypes, seatVars, moneyVars
  <2>3. ASSUME NEW r \in Rounds, NEW u \in Users, Join(r, u)
        PROVE  Rests(q)
    <3>1. q # r
      BY <1>1, <2>3 DEF Join, Finished
    <3>2. ledger'[q] = ledger[q] /\ house' = house /\ settlement' = settlement
      BY <1>1, <2>3, <3>1 DEF Join, Escrow, moneyVars, TypeOK, MoneyTypes
    <3> QED BY <1>1, <2>3, <3>1, <3>2 DEF Join, roundVars, TypeOK, SeatTypes
  <2>4. ASSUME NEW w \in Workers, NEW r \in Rounds, Advance(w, r)
        PROVE  Rests(q)
    <3>1. CASE AbortShort(w, r)
      BY <1>1, <3>1, OtherRounds DEF AbortShort, Finished, TypeOK, RoundTypes, SeatTypes
    <3>2. CASE Start(w, r)
      BY <1>1, <3>2 DEF Start, Finished, TypeOK, RoundTypes, seatVars, moneyVars
    <3>3. CASE ResolveNone(w, r)
      <4>1. q # r
        BY <1>1, <3>3 DEF ResolveNone, MayResolve, Finished
      <4> QED BY <1>1, <3>3, <4>1, OtherRounds, EliminateSeats
              DEF ResolveNone, TypeOK, RoundTypes
    <3>4. CASE ResolveWin(w, r)
      <4>1. q # r
        BY <1>1, <3>4 DEF ResolveWin, MayResolve, Finished
      <4>2. PICK v \in Users : /\ Remaining(r) = {v} /\ Eliminate(r, v)
                               /\ winner' = [winner EXCEPT ![r] = v] /\ PayOut(r, v)
        BY <3>4 DEF ResolveWin
      <4>3. seat'[q] = seat[q] /\ outAt'[q] = outAt[q]
        BY <1>1, <4>1, <4>2, EliminateSeats
      <4> QED BY <1>1, <3>4, <4>1, <4>2, <4>3, OtherRounds DEF ResolveWin, TypeOK, RoundTypes
    <3>5. CASE ResolveOn(w, r)
      <4>1. q # r
        BY <1>1, <3>5 DEF ResolveOn, MayResolve, Finished
      <4> QED BY <1>1, <3>5, <4>1, EliminateSeats DEF ResolveOn, moneyVars
    <3>6. CASE AdvanceStale(w, r)
      BY <3>6 DEF AdvanceStale, roundVars, seatVars, moneyVars
    <3> QED BY <2>4, <3>1, <3>2, <3>3, <3>4, <3>5, <3>6 DEF Advance
  <2> QED
    BY <1>1, <2>1, <2>2, <2>3, <2>4 DEF Next, Credit, CommitRead, CommitInsert, CommitLost,
       SweepDue, AdvanceFails, Crash, WindowLapses, ClockRuns, vars, roundVars, seatVars, moneyVars
<1>2. TypeOK /\ [Next]_vars => [\A r \in Rounds : Finished(r) => Rests(r)]_vars
  BY <1>1
<1> HIDE DEF Rests
<1> QED BY <1>2, TypeCorrect, PTL DEF Spec, FinishedIsFinal

\* A tick ends once, by one, and neither it nor a seat before its deadline.
THEOREM TicksAreKept == Spec => TickResolvedOnceAndInTime
<1> USE DEF ResolvedInTime
<1>1. ASSUME TypeOK, StageFits, [Next]_vars, NEW q \in Rounds
      PROVE  ResolvedInTime(q)
  <2>1. CASE UNCHANGED <<tick, seat>>
    BY <2>1
  <2>2. ASSUME NEW r \in Rounds, NEW u \in Users, Join(r, u)
        PROVE  ResolvedInTime(q)
    BY <1>1, <2>2 DEF Join, TypeOK, SeatTypes, roundVars
  <2>3. ASSUME NEW w \in Workers, NEW r \in Rounds, Advance(w, r)
        PROVE  ResolvedInTime(q)
    <3>1. CASE AbortShort(w, r)
      BY <1>1, <3>1 DEF AbortShort, TypeOK, SeatTypes
    <3>2. CASE Start(w, r)
      BY <1>1, <3>2 DEF Start, StageFits, TypeOK, RoundTypes, seatVars
    <3>3. CASE ResolveNone(w, r)
      BY <1>1, <3>3, EliminateSeats DEF ResolveNone, MayResolve
    <3>4. CASE ResolveWin(w, r)
      BY <1>1, <3>4, EliminateSeats DEF ResolveWin, MayResolve
    <3>5. CASE ResolveOn(w, r)
      <4>1. tick' = [tick EXCEPT ![r] = @ + 1] /\ Eliminate(r, Nobody) /\ clock[r] # "before"
        BY <3>5 DEF ResolveOn, MayResolve
      <4>2. CASE q = r
        BY <1>1, <4>1, <4>2 DEF TypeOK, RoundTypes
      <4>3. CASE q # r
        BY <1>1, <4>1, <4>3, EliminateSeats DEF TypeOK, RoundTypes
      <4> QED BY <4>2, <4>3
    <3>6. CASE AdvanceStale(w, r)
      BY <3>6 DEF AdvanceStale, roundVars, seatVars
    <3> QED BY <2>3, <3>1, <3>2, <3>3, <3>4, <3>5, <3>6 DEF Advance
  <2> QED
    BY <1>1, <2>1, <2>2, <2>3 DEF Next, Credit, EnsureOpenRound, CommitRead, CommitInsert,
       CommitLost, SweepDue, AdvanceFails, Crash, WindowLapses, ClockRuns, vars, roundVars, seatVars
<1>2. IInv /\ [Next]_vars => [\A r \in Rounds : ResolvedInTime(r)]_vars
  BY <1>1 DEF IInv
<1> HIDE DEF ResolvedInTime
<1> QED BY <1>2, Invariant, PTL DEF Spec, TickResolvedOnceAndInTime

-----------------------------------------------------------------------------
(* Balances. *)

\* The two columns of arcade_balances, each the sum of what the rounds say.
MoneyInv == EscrowBacksRoundsInPlay /\ AvailableFollowsLedger

\* What a round holds of a player is an amount.
LEMMA HeldType ==
    ASSUME terms \in [Rounds -> Terms], NEW r \in Rounds, NEW u \in Users
    PROVE  Held(r, u) \in Nat
  BY ArcadeAssumption DEF Held, Amount

\* A round whose money moves, and no other, moves the balances by as much: what
\* it holds goes into escrow, what its ledger rows say into the available money.
LEMMA MoneyMoves ==
    ASSUME TypeOK, TypeOK', MoneyInv, NEW r \in Rounds,
           \A q \in Rounds \ {r}, u \in Users :
              Held(q, u)' = Held(q, u) /\ ledger'[q][u] = ledger[q][u],
           \A u \in Users :
              /\ escrowed'[u] = escrowed[u] + (Held(r, u)' - Held(r, u))
              /\ available'[u] = available[u] + (ledger'[r][u] - ledger[r][u])
              /\ available'[u] >= 0,
           deposits' = deposits
    PROVE  MoneyInv'
<1> SUFFICES ASSUME NEW u \in Users
             PROVE  /\ escrowed'[u] = SumFunction([q \in Rounds |-> Held(q, u)'])
                    /\ available'[u] = deposits'[u]
                                          + SumFunction([q \in Rounds |-> ledger'[q][u]])
  BY DEF MoneyInv, EscrowBacksRoundsInPlay, AvailableFollowsLedger
<1>0. IsFiniteSet(Rounds)
  BY ArcadeAssumption
<1> DEFINE held == [q \in Rounds |-> Held(q, u)]
           heldNext == [q \in Rounds |-> Held(q, u)']
           rows == [q \in Rounds |-> ledger[q][u]]
           rowsNext == [q \in Rounds |-> ledger'[q][u]]
<1>1. escrowed'[u] = SumFunction(heldNext)
  <2>1. \A q \in Rounds : held[q] \in Int /\ heldNext[q] \in Int
    <3>1. \A q \in Rounds : Held(q, u) \in Nat
      BY HeldType DEF TypeOK, RoundTypes
    <3>2. \A q \in Rounds : Held(q, u)' \in Nat
      <4>1. terms' \in [Rounds -> Terms]
        BY DEF TypeOK, RoundTypes
      <4> QED BY <4>1, ArcadeAssumption DEF Held, Amount
    <3> QED BY <3>1, <3>2
  <2>2. \A q \in Rounds \ {r} : heldNext[q] = held[q]
    OBVIOUS
  <2>3. DOMAIN held = Rounds /\ DOMAIN heldNext = Rounds
    OBVIOUS
  <2>4. escrowed[u] = SumFunction(held) /\ escrowed'[u] = escrowed[u] + (heldNext[r] - held[r])
    BY DEF MoneyInv, EscrowBacksRoundsInPlay
  <2> HIDE DEF held, heldNext
  <2>5. SumFunctionOnSet(heldNext, Rounds) = SumFunctionOnSet(held, Rounds) + (heldNext[r] - held[r])
    BY <1>0, <2>1, <2>2, SumChanges
  <2> QED BY <2>3, <2>4, <2>5 DEF SumFunction
<1>2. available'[u] = deposits'[u] + SumFunction(rowsNext)
  <2>1. \A q \in Rounds : rows[q] \in Int /\ rowsNext[q] \in Int
    BY DEF TypeOK, MoneyTypes
  <2>2. \A q \in Rounds \ {r} : rowsNext[q] = rows[q]
    OBVIOUS
  <2>3. DOMAIN rows = Rounds /\ DOMAIN rowsNext = Rounds
    OBVIOUS
  <2>4. /\ available[u] = deposits[u] + SumFunction(rows)
        /\ available'[u] = available[u] + (rowsNext[r] - rows[r])
        /\ deposits[u] \in Int /\ deposits'[u] = deposits[u]
    BY DEF MoneyInv, AvailableFollowsLedger, TypeOK, MoneyTypes
  <2> HIDE DEF rows, rowsNext
  <2>5. SumFunctionOnSet(rowsNext, Rounds) = SumFunctionOnSet(rows, Rounds) + (rowsNext[r] - rows[r])
    BY <1>0, <2>1, <2>2, SumChanges
  <2>6. SumFunctionOnSet(rows, Rounds) \in Int
    BY <1>0, <2>1, SumType
  <2> QED BY <2>1, <2>3, <2>4, <2>5, <2>6 DEF SumFunction
<1> QED BY <1>1, <1>2

\* A settlement of a round in play, either kind, empties what the round holds
\* and never lowers what anybody can spend.
LEMMA Releases ==
    ASSUME TypeOK, SettledExactlyOnce, NEW r \in Rounds, InPlay(r),
           RefundAll(r) \/ \E w \in Users : PayOut(r, w), NEW u \in Users
    PROVE  /\ escrowed'[u] = escrowed[u] - Held(r, u)
           /\ available'[u] = available[u] + (ledger'[r][u] - ledger[r][u])
           /\ available'[u] >= available[u]
           /\ deposits' = deposits
<1> DEFINE a == Amount(r)
           E == Entrants(r)
           pay == Payout(r)
<1>1. a \in Nat /\ pay \in Nat
  BY PotTypes DEF TypeOK, RoundTypes
<1>2. settlement[r] = Nobody
  BY DEF SettledExactlyOnce, SettlementFits, InPlay, Finished
<1>3. /\ available \in [Users -> Int] /\ escrowed \in [Users -> Int]
      /\ ledger \in [Rounds -> [Users -> Int]]
  BY DEF TypeOK, MoneyTypes
<1>4. Held(r, u) = IF u \in E THEN a ELSE 0
  BY DEF Held
<1>5. CASE a = 0
  <2>1. UNCHANGED moneyVars
    BY <1>5 DEF RefundAll, PayOut, NothingToSettle
  <2> QED BY <1>3, <1>4, <1>5, <2>1 DEF moneyVars
<1>6. CASE a # 0 /\ RefundAll(r)
  <2>1. /\ escrowed' = [v \in Users |-> IF v \in E THEN escrowed[v] - a ELSE escrowed[v]]
        /\ available' = [v \in Users |-> IF v \in E THEN available[v] + a ELSE available[v]]
        /\ ledger' = [ledger EXCEPT ![r] = [v \in Users |-> IF v \in E THEN @[v] + a ELSE @[v]]]
        /\ deposits' = deposits
    BY <1>2, <1>6 DEF RefundAll, NothingToSettle
  <2> HIDE DEF a, E
  <2> QED BY <1>1, <1>3, <1>4, <2>1
<1>7. ASSUME a # 0, NEW w \in Users, PayOut(r, w)
      PROVE  /\ escrowed'[u] = escrowed[u] - Held(r, u)
             /\ available'[u] = available[u] + (ledger'[r][u] - ledger[r][u])
             /\ available'[u] >= available[u]
             /\ deposits' = deposits
  <2>1. /\ escrowed' = [v \in Users |-> IF v \in E THEN escrowed[v] - a ELSE escrowed[v]]
        /\ available' = [available EXCEPT ![w] = @ + pay]
        /\ ledger' = [ledger EXCEPT ![r][w] = @ + pay]
        /\ deposits' = deposits
    BY <1>2, <1>7 DEF PayOut, NothingToSettle
  <2> HIDE DEF a, E, pay
  <2> QED BY <1>1, <1>3, <1>4, <2>1
<1> QED BY <1>5, <1>6, <1>7

LEMMA InitMoney == Init => MoneyInv
<1> SUFFICES ASSUME Init, NEW u \in Users
             PROVE  /\ escrowed[u] = SumFunction([r \in Rounds |-> Held(r, u)])
                    /\ available[u] = deposits[u] + SumFunction([r \in Rounds |-> ledger[r][u]])
                    /\ available[u] >= 0
  BY DEF MoneyInv, EscrowBacksRoundsInPlay, AvailableFollowsLedger
<1>1. /\ available[u] = 0 /\ escrowed[u] = 0 /\ deposits[u] = 0
      /\ \A r \in Rounds : ledger[r][u] = 0 /\ Held(r, u) = 0
  BY DEF Init, Held, InPlay
<1>2. ASSUME NEW f, DOMAIN f = Rounds, \A r \in Rounds : f[r] = 0
      PROVE  SumFunction(f) = 0
  <2>1. SumFunctionOnSet(f, Rounds) = 0 * Cardinality(Rounds) /\ Cardinality(Rounds) \in Nat
    BY <1>2, ArcadeAssumption, SumConstant, FS_CardinalityType
  <2> QED BY <1>2, <2>1 DEF SumFunction
<1>3. SumFunction([r \in Rounds |-> Held(r, u)]) = 0
  BY <1>1, <1>2
<1>4. SumFunction([r \in Rounds |-> ledger[r][u]]) = 0
  BY <1>1, <1>2
<1> QED BY <1>1, <1>3, <1>4

LEMMA NextMoney ==
    ASSUME IInv, IInv', MoneyInv, [Next]_vars
    PROVE  MoneyInv'
<1>0. /\ TypeOK /\ TypeOK' /\ StageFits /\ SettledExactlyOnce
      /\ available \in [Users -> Int] /\ escrowed \in [Users -> Int]
      /\ ledger \in [Rounds -> [Users -> Int]]
      /\ \A u \in Users : available[u] >= 0
  BY DEF IInv, TypeOK, MoneyTypes, MoneyInv, AvailableFollowsLedger
<1>h. \A r \in Rounds, u \in Users : Held(r, u) \in Nat
  BY <1>0, HeldType DEF TypeOK, RoundTypes
\* The rounds the step is not about.
<1>o. ASSUME NEW q \in Rounds, status'[q] = status[q], terms'[q] = terms[q],
             Entrants(q)' = Entrants(q)
      PROVE  \A u \in Users : Held(q, u)' = Held(q, u)
  BY <1>o DEF Held, InPlay, Amount
\* A round whose stakes stay where they are.
<1>1. ASSUME UNCHANGED <<available, escrowed, ledger, deposits>>,
             \A q \in Rounds, u \in Users : Held(q, u)' = Held(q, u)
      PROVE  MoneyInv'
  BY <1>1 DEF MoneyInv, EscrowBacksRoundsInPlay, AvailableFollowsLedger
<1>2. ASSUME NEW v \in Users, NEW a \in DepositAmounts, Credit(v, a)
      PROVE  MoneyInv'
  <2>1. \A q \in Rounds, u \in Users : Held(q, u)' = Held(q, u)
    BY <1>2, <1>o DEF Credit, roundVars, seatVars, Entrants
  <2>2. /\ escrowed' = escrowed /\ ledger' = ledger /\ a \in Nat
        /\ available' = [available EXCEPT ![v] = @ + a]
        /\ deposits' = [deposits EXCEPT ![v] = @ + a]
        /\ deposits \in [Users -> Nat]
    BY <1>0, <1>2, ArcadeAssumption DEF Credit, TypeOK, MoneyTypes
  <2>3. EscrowBacksRoundsInPlay'
    BY <2>1, <2>2 DEF MoneyInv, EscrowBacksRoundsInPlay
  <2>4. ASSUME NEW u \in Users
        PROVE  /\ available'[u] = deposits'[u] + SumFunction([r \in Rounds |-> ledger'[r][u]])
               /\ available'[u] >= 0
    <3> DEFINE s == SumFunction([r \in Rounds |-> ledger[r][u]])
    <3>1. available[u] = deposits[u] + s /\ s \in Int
      <4>1. available[u] = deposits[u] + s
        BY DEF MoneyInv, AvailableFollowsLedger
      <4> DEFINE f == [r \in Rounds |-> ledger[r][u]]
      <4>2. \A r \in Rounds : f[r] \in Int
        BY <1>0
      <4>3. DOMAIN f = Rounds
        OBVIOUS
      <4>4. SumFunctionOnSet(f, Rounds) \in Int
        <5> HIDE DEF f
        <5> QED BY <4>2, ArcadeAssumption, SumType
      <4> QED BY <4>1, <4>3, <4>4 DEF SumFunction
    <3>2. SumFunction([r \in Rounds |-> ledger'[r][u]]) = s
      BY <2>2
    <3> HIDE DEF s
    <3> QED BY <1>0, <2>2, <3>1, <3>2
  <2> QED BY <2>3, <2>4 DEF MoneyInv, AvailableFollowsLedger
<1>3. ASSUME NEW r \in Rounds, NEW t \in Terms, EnsureOpenRound(r, t)
      PROVE  MoneyInv'
  <2>1. UNCHANGED <<seat, available, escrowed, ledger, deposits>>
    BY <1>3 DEF EnsureOpenRound, seatVars, moneyVars
  <2>2. Entrants(r) = {} /\ \A q \in Rounds : Entrants(q)' = Entrants(q)
    BY <1>0, <1>3, <2>1 DEF EnsureOpenRound, StageFits, Entrants
  <2>3. \A q \in Rounds \ {r} : status'[q] = status[q] /\ terms'[q] = terms[q]
    BY <1>0, <1>3 DEF EnsureOpenRound, TypeOK, RoundTypes
  <2>4. \A u \in Users : Held(r, u) = 0 /\ Held(r, u)' = 0
    BY <2>2 DEF Held
  <2>5. \A q \in Rounds, u \in Users : Held(q, u)' = Held(q, u)
    BY <1>o, <2>2, <2>3, <2>4
  <2> QED BY <1>1, <2>1, <2>5
<1>4. ASSUME NEW r \in Rounds, NEW v \in Users, Join(r, v)
      PROVE  MoneyInv'
  <2> DEFINE a == Amount(r)
  <2>1. /\ UNCHANGED <<status, terms>> /\ status[r] = "open" /\ v \notin Entrants(r)
        /\ a \in Nat
    BY <1>0, <1>4, PotTypes DEF Join, roundVars, Entrants, TypeOK, RoundTypes
  <2>2. /\ Entrants(r)' = Entrants(r) \cup {v}
        /\ \A q \in Rounds \ {r} : Entrants(q)' = Entrants(q)
    BY <1>0, <1>4 DEF Join, Entrants, TypeOK, SeatTypes
  <2>3. \A u \in Users : /\ Held(r, u) = IF u \in Entrants(r) THEN a ELSE 0
                         /\ Held(r, u)' = IF u = v THEN a ELSE Held(r, u)
    BY <2>1, <2>2 DEF Held, InPlay, Amount
  <2>4. \A q \in Rounds \ {r}, u \in Users : Held(q, u)' = Held(q, u)
    BY <1>o, <2>1, <2>2
  <2>5. CASE a = 0 /\ UNCHANGED moneyVars
    <3>1. \A q \in Rounds, u \in Users : Held(q, u)' = Held(q, u)
      BY <2>1, <2>3, <2>4, <2>5
    <3> QED BY <1>1, <2>5, <3>1 DEF moneyVars
  <2>6. CASE Escrow(r, v)
    <3>1. /\ available[v] >= a /\ deposits' = deposits
          /\ available' = [available EXCEPT ![v] = @ - a]
          /\ escrowed' = [escrowed EXCEPT ![v] = @ + a]
          /\ ledger' = [ledger EXCEPT ![r][v] = @ - a]
      BY <2>6 DEF Escrow
    <3> HIDE DEF a
    <3>2. \A q \in Rounds \ {r}, u \in Users : ledger'[q][u] = ledger[q][u]
      BY <1>0, <3>1
    <3>3. ASSUME NEW u \in Users
          PROVE  /\ escrowed'[u] = escrowed[u] + (Held(r, u)' - Held(r, u))
                 /\ available'[u] = available[u] + (ledger'[r][u] - ledger[r][u])
                 /\ available'[u] >= 0
      <4>1. Held(r, u) \in Nat /\ Held(r, v) = 0
        BY <1>h, <2>1, <2>3
      <4>2. CASE u = v
        BY <1>0, <2>1, <2>3, <3>1, <4>1, <4>2
      <4>3. CASE u # v
        BY <1>0, <2>1, <2>3, <3>1, <4>1, <4>3
      <4> QED BY <4>2, <4>3
    <3> QED BY <1>0, <2>4, <3>1, <3>2, <3>3, MoneyMoves
  <2> QED BY <1>4, <2>5, <2>6 DEF Join
\* A round in play that ends, one way or the other.
<1>5. ASSUME NEW r \in Rounds, InPlay(r), NEW s \in {"settled", "aborted"},
             status' = [status EXCEPT ![r] = s], terms' = terms,
             RefundAll(r) \/ \E w \in Users : PayOut(r, w),
             \A q \in Rounds : Entrants(q)' = Entrants(q)
      PROVE  MoneyInv'
  <2>1. status'[r] = s /\ \A q \in Rounds \ {r} : status'[q] = status[q]
    BY <1>0, <1>5 DEF TypeOK, RoundTypes
  <2>2. \A u \in Users : Held(r, u)' = 0
    BY <1>5, <2>1 DEF Held, InPlay
  <2>3. \A q \in Rounds \ {r}, u \in Users :
           Held(q, u)' = Held(q, u) /\ ledger'[q][u] = ledger[q][u]
    BY <1>0, <1>5, <1>o, <2>1, OtherRounds
  <2>4. ASSUME NEW u \in Users
        PROVE  /\ escrowed'[u] = escrowed[u] + (Held(r, u)' - Held(r, u))
               /\ available'[u] = available[u] + (ledger'[r][u] - ledger[r][u])
               /\ available'[u] >= 0
               /\ deposits' = deposits
    <3>1. /\ escrowed'[u] = escrowed[u] - Held(r, u)
          /\ available'[u] = available[u] + (ledger'[r][u] - ledger[r][u])
          /\ available'[u] >= available[u] /\ deposits' = deposits
      BY <1>0, <1>5, Releases
    <3>2. /\ Held(r, u) \in Nat /\ escrowed[u] \in Int /\ available[u] \in Int
          /\ available'[u] \in Int
      BY <1>0, <1>h DEF TypeOK, MoneyTypes
    <3> QED BY <1>0, <2>2, <3>1, <3>2
  <2>5. deposits' = deposits
    BY <1>5 DEF RefundAll, PayOut, moneyVars
  <2> QED BY <1>0, <2>3, <2>4, <2>5, MoneyMoves
<1>6. ASSUME NEW w \in Workers, NEW r \in Rounds, Advance(w, r)
      PROVE  MoneyInv'
  <2>1. CASE AbortShort(w, r)
    <3>1. \A q \in Rounds : Entrants(q)' = Entrants(q)
      BY <1>0, <2>1 DEF AbortShort, Entrants, TypeOK, SeatTypes
    <3> QED BY <1>5, <2>1, <3>1 DEF AbortShort, InPlay
  <2>2. CASE Start(w, r)
    <3>1. /\ UNCHANGED <<terms, seat, available, escrowed, ledger, deposits>>
          /\ status[r] = "open" /\ status' = [status EXCEPT ![r] = "running"]
      BY <2>2 DEF Start, seatVars, moneyVars
    <3>2. \A q \in Rounds : InPlay(q)' <=> InPlay(q)
      BY <1>0, <3>1 DEF InPlay, TypeOK, RoundTypes
    <3>3. \A q \in Rounds, u \in Users : Held(q, u)' = Held(q, u)
      BY <3>1, <3>2 DEF Held, Amount, Entrants
    <3> QED BY <1>1, <3>1, <3>3
  <2>3. CASE ResolveNone(w, r)
    <3>1. \A q \in Rounds : Entrants(q)' = Entrants(q)
      BY <1>0, <2>3, EliminateSeats DEF ResolveNone
    <3> QED BY <1>5, <2>3, <3>1 DEF ResolveNone, MayResolve, InPlay
  <2>4. CASE ResolveWin(w, r)
    <3>1. PICK v \in Users : Remaining(r) = {v} /\ Eliminate(r, v) /\ PayOut(r, v)
      BY <2>4 DEF ResolveWin
    <3>2. \A q \in Rounds : Entrants(q)' = Entrants(q)
      BY <1>0, <3>1, EliminateSeats
    <3> QED BY <1>5, <2>4, <3>1, <3>2 DEF ResolveWin, MayResolve, InPlay
  <2>5. CASE ResolveOn(w, r)
    <3>1. /\ UNCHANGED <<status, terms, available, escrowed, ledger, deposits>>
          /\ Eliminate(r, Nobody)
      BY <2>5 DEF ResolveOn, moneyVars
    <3>2. \A q \in Rounds : Entrants(q)' = Entrants(q)
      BY <1>0, <3>1, EliminateSeats
    <3> QED BY <1>1, <1>o, <3>1, <3>2
  <2>6. CASE AdvanceStale(w, r)
    <3>1. UNCHANGED <<status, terms, seat, available, escrowed, ledger, deposits>>
      BY <2>6 DEF AdvanceStale, roundVars, seatVars, moneyVars
    <3> QED BY <1>1, <1>o, <3>1 DEF Entrants
  <2> QED BY <1>6, <2>1, <2>2, <2>3, <2>4, <2>5, <2>6 DEF Advance
<1>7. CASE UNCHANGED <<status, terms, seat, available, escrowed, ledger, deposits>>
  BY <1>1, <1>o, <1>7 DEF Entrants
<1> QED
  BY <1>2, <1>3, <1>4, <1>6, <1>7 DEF Next, CommitRead, CommitInsert, CommitLost,
     SweepDue, AdvanceFails, Crash, WindowLapses, ClockRuns, vars, roundVars, seatVars, moneyVars

\* Every balance is the sum of what the rounds hold and of what the ledger says.
THEOREM BalancesAddUp == Spec => []MoneyInv
<1>1. IInv /\ IInv' /\ MoneyInv /\ [Next]_vars => MoneyInv'
  BY NextMoney
<1> QED BY <1>1, InitMoney, Invariant, PTL DEF Spec

\* No player's escrow holds more, or less, than the stakes of the rounds in play.
THEOREM EscrowIsBacked == Spec => []EscrowBacksRoundsInPlay
<1>1. MoneyInv => EscrowBacksRoundsInPlay
  BY DEF MoneyInv
<1> QED BY <1>1, BalancesAddUp, PTL

\* What a player can spend is what the ledger says, and never below zero.
THEOREM BalancesFollowLedger == Spec => []AvailableFollowsLedger
<1>1. MoneyInv => AvailableFollowsLedger
  BY DEF MoneyInv
<1> QED BY <1>1, BalancesAddUp, PTL

-----------------------------------------------------------------------------
(* The ledger of a finished round. *)

\* One player of a set has the payout and everybody in it lost a stake: the
\* total is the payout less the stakes.
LEMMA WonTotal ==
    ASSUME NEW S, IsFiniteSet(S), NEW w \in S, NEW a \in Int, NEW pay \in Int, NEW f,
           \A u \in S : f[u] = IF u = w THEN pay - a ELSE -a
    PROVE  SumFunctionOnSet(f, S) = pay - a * Cardinality(S)
<1> DEFINE lost == [u \in S |-> -a]
<1>1. SumFunctionOnSet(lost, S) = (-a) * Cardinality(S)
  <2>1. (-a) \in Int /\ \A u \in S : lost[u] = -a
    OBVIOUS
  <2> HIDE DEF lost
  <2> QED BY <2>1, SumConstant
<1>2. SumFunctionOnSet(f, S) = SumFunctionOnSet(lost, S) + (f[w] - lost[w])
  <2>1. /\ \A u \in S : lost[u] \in Int /\ f[u] \in Int
        /\ \A u \in S \ {w} : f[u] = lost[u]
    OBVIOUS
  <2> HIDE DEF lost
  <2> QED BY <2>1, SumChanges
<1>3. f[w] = pay - a /\ lost[w] = -a
  OBVIOUS
<1> HIDE DEF lost
<1>4. Cardinality(S) \in Nat
  BY FS_CardinalityType
<1> QED BY <1>1, <1>2, <1>3, <1>4

LEMMA BooksBalance ==
    ASSUME TypeOK, LedgerFollowsRound, SettledExactlyOnce, WinnerPlayed
    PROVE  RoundSettlesToZero
<1> SUFFICES ASSUME NEW r \in Rounds, Finished(r)
             PROVE  SumFunction(ledger[r]) + house[r] = 0
  BY DEF RoundSettlesToZero
<1> DEFINE E == Entrants(r)
           f == ledger[r]
<1>0. /\ IsFiniteSet(Users) /\ DOMAIN f = Users /\ \A u \in Users : f[u] \in Int
      /\ \A u \in Users : f[u] = Books(r, u)
      /\ SettlementFits(r) /\ house[r] \in Int
  BY ArcadeAssumption DEF TypeOK, MoneyTypes, LedgerFollowsRound, SettledExactlyOnce
<1>1. CASE status[r] = "aborted"
  <2>1. \A u \in Users : f[u] = 0
    BY <1>0, <1>1 DEF Books
  <2>2. house[r] = 0
    BY <1>0, <1>1 DEF SettlementFits
  <2> HIDE DEF f
  <2>3. SumFunctionOnSet(f, Users) = 0 * Cardinality(Users) /\ Cardinality(Users) \in Nat
    BY <1>0, <2>1, SumConstant, FS_CardinalityType
  <2> QED BY <1>0, <2>2, <2>3 DEF SumFunction, f
<1>2. CASE status[r] = "settled"
  <2> DEFINE w == winner[r]
             a == Amount(r)
             pay == Payout(r)
  <2>1. /\ a \in Nat /\ pay \in Nat /\ Rake(r) \in Nat /\ pay + Rake(r) = Pot(r)
        /\ Pot(r) = a * Cardinality(E) /\ Cardinality(E) \in Nat
        /\ IsFiniteSet(E) /\ E \in SUBSET Users
    BY PotTypes, CountType DEF TypeOK, RoundTypes, Pot, Entrants
  <2>2. w \in E
    BY <1>2 DEF WinnerPlayed, WonByPlaying
  <2>3. /\ \A u \in E : f[u] = IF u = w THEN pay - a ELSE -a
        /\ \A u \in Users \ E : f[u] = 0
    <3>1. E \subseteq Users
      BY <2>1
    <3> QED BY <1>0, <1>2, <3>1 DEF Books
  <2>4. pay + house[r] = Pot(r)
    <3>1. house[r] = Rake(r)
      BY <1>0, <1>2 DEF SettlementFits
    <3> QED BY <2>1, <3>1
  <2> HIDE DEF E, f, w, a, pay
  <2>5. SumFunctionOnSet(f, Users) = SumFunctionOnSet(f, E)
    BY <1>0, <2>1, <2>3, SumSkipsZeros
  <2>6. SumFunctionOnSet(f, E) = pay - a * Cardinality(E)
    BY <2>1, <2>2, <2>3, WonTotal
  <2> DEFINE n == Cardinality(E)
  <2>7. a * n \in Int
    BY <2>1
  <2>8. pay - a * n + house[r] = 0
    BY <1>0, <2>1, <2>4, <2>7
  <2> QED BY <1>0, <2>5, <2>6, <2>8 DEF SumFunction, f
<1> QED BY <1>1, <1>2 DEF Finished

\* A finished round's ledger rows and the rake of the house cancel out: the
\* round neither makes money nor loses any.
THEOREM RoundsBalance == Spec => []RoundSettlesToZero
<1>1. IInv => RoundSettlesToZero
  BY BooksBalance DEF IInv
<1> QED BY <1>1, Invariant, PTL

-----------------------------------------------------------------------------
(* Refinement. *)

\* One step of the rounds is one step of the escrow they promise, or none.
LEMMA EscrowStep ==
    ASSUME IInv, IInv', [Next]_vars
    PROVE  [Pacts!Next]_(Pacts!vars)
<1> DEFINE phase == [r \in Rounds |-> Phase(r)]
           members == [r \in Rounds |-> Entrants(r)]
<1>0. /\ TypeOK /\ StageFits /\ LedgerFollowsRound /\ SettledExactlyOnce
      /\ ledger' \in [Rounds -> [Users -> Int]] /\ house' \in [Rounds -> Int]
      /\ ledger \in [Rounds -> [Users -> Int]] /\ house \in [Rounds -> Int]
      /\ status \in [Rounds -> {"unborn", "open", "running", "settled", "aborted"}]
      /\ seat \in [Rounds -> [Users -> Seats]]
  BY DEF IInv, TypeOK, MoneyTypes, RoundTypes, SeatTypes
<1>1. CASE UNCHANGED <<status, terms, ledger, house>> /\ \A q \in Rounds : Entrants(q)' = Entrants(q)
  BY <1>1 DEF Pacts!vars, Phase
\* The escrow counts members as the rounds count seats.
<1>c. \A r \in Rounds : Pacts!Cardinality(members[r]) = Cardinality(Entrants(r))
  <2>1. \A S : Pacts!Cardinality(S) = Cardinality(S)
    BY Zenon DEF Pacts!Cardinality, Cardinality
  <2> QED BY <2>1
<1>2. ASSUME NEW r \in Rounds, NEW t \in Terms, EnsureOpenRound(r, t)
      PROVE  Pacts!Next
  <2>1. Pacts!Open(r, t)
    <3>1. phase[r] = "unborn" /\ phase' = [phase EXCEPT ![r] = "open"]
      BY <1>0, <1>2 DEF EnsureOpenRound, Phase
    <3>2. UNCHANGED <<members, ledger, house>> /\ terms' = [terms EXCEPT ![r] = t]
      BY <1>2 DEF EnsureOpenRound, Entrants, seatVars, moneyVars
    <3> QED BY <3>1, <3>2 DEF Pacts!Open
  <2> QED BY <2>1 DEF Pacts!Next
<1>3. ASSUME NEW r \in Rounds, NEW u \in Users, Join(r, u)
      PROVE  Pacts!Next
  <2>1. Pacts!Stake(r, u)
    <3>1. /\ phase[r] = "open" /\ u \notin members[r] /\ UNCHANGED <<phase, terms, house>>
          /\ Cardinality(Entrants(r)) < MaxPlayers
      BY <1>0, <1>3 DEF Join, Escrow, Phase, Entrants, roundVars, moneyVars
    <3>2. members' = [members EXCEPT ![r] = @ \cup {u}]
      BY <1>0, <1>3 DEF Join, Entrants
    <3>3. ledger' = [ledger EXCEPT ![r][u] = -terms[r].amount]
      <4>1. ledger[r][u] = 0 /\ Amount(r) \in Nat
        BY <1>0, <3>1, PotTypes DEF LedgerFollowsRound, Books, TypeOK, RoundTypes
      <4>2. CASE Amount(r) = 0 /\ UNCHANGED moneyVars
        BY <1>0, <4>1, <4>2 DEF moneyVars, Amount
      <4>3. CASE Escrow(r, u)
        <5>1. ledger[r][u] - Amount(r) = -Amount(r)
          BY <4>1
        <5> QED BY <4>3, <5>1 DEF Escrow, Amount
      <4> QED BY <1>3, <4>2, <4>3 DEF Join
    <3>4. Pacts!Cardinality(members[r]) < MaxPlayers
      BY <1>c, <3>1
    <3> QED BY <3>1, <3>2, <3>3, <3>4, Zenon DEF Pacts!Stake
  <2> QED BY <2>1 DEF Pacts!Next
\* A round in play that is aborted and refunded.
<1>4. ASSUME NEW r \in Rounds, InPlay(r), status' = [status EXCEPT ![r] = "aborted"],
             terms' = terms, RefundAll(r), \A q \in Rounds : Entrants(q)' = Entrants(q)
      PROVE  Pacts!Next
  <2>1. /\ \A u \in Users : ledger'[r][u] = 0
        /\ house'[r] = 0 /\ house[r] = 0
        /\ \A q \in Rounds : q # r => ledger'[q] = ledger[q] /\ house'[q] = house[q]
    BY <1>0, <1>4, RefundBook DEF SettledExactlyOnce, SettlementFits, InPlay
  <2>2. ledger' = [ledger EXCEPT ![r] = [u \in Users |-> 0]] /\ house' = house
    BY <1>0, <2>1
  <2>3. /\ phase[r] \in {"open", "held"} /\ phase' = [phase EXCEPT ![r] = "returned"]
        /\ UNCHANGED <<terms, members>>
    BY <1>0, <1>4 DEF InPlay, Phase
  <2>4. Pacts!Return(r)
    BY <2>2, <2>3 DEF Pacts!Return
  <2> QED BY <2>4 DEF Pacts!Next
<1>5. ASSUME NEW w \in Workers, NEW r \in Rounds, Advance(w, r)
      PROVE  [Pacts!Next]_(Pacts!vars)
  <2>1. CASE AbortShort(w, r)
    <3>1. \A q \in Rounds : Entrants(q)' = Entrants(q)
      BY <1>0, <2>1 DEF AbortShort, Entrants
    <3> QED BY <1>4, <2>1, <3>1 DEF AbortShort, InPlay
  <2>2. CASE Start(w, r)
    <3>1. /\ phase[r] = "open" /\ phase' = [phase EXCEPT ![r] = "held"]
          /\ Cardinality(Entrants(r)) >= MinPlayers
      BY <1>0, <2>2 DEF Start, Phase
    <3>2. UNCHANGED <<terms, members, ledger, house>>
      BY <2>2 DEF Start, Entrants, seatVars, moneyVars
    <3>3. Pacts!Hold(r)
      <4>1. Pacts!Cardinality(members[r]) >= MinPlayers
        BY <1>c, <3>1
      <4> QED BY <3>1, <3>2, <4>1, Zenon DEF Pacts!Hold
    <3> QED BY <3>3 DEF Pacts!Next
  <2>3. CASE ResolveNone(w, r)
    <3>1. \A q \in Rounds : Entrants(q)' = Entrants(q)
      BY <1>0, <2>3, EliminateSeats DEF ResolveNone
    <3> QED BY <1>4, <2>3, <3>1 DEF ResolveNone, MayResolve, InPlay
  <2>4. CASE ResolveWin(w, r)
    <3>1. PICK v \in Users : Remaining(r) = {v} /\ Eliminate(r, v) /\ PayOut(r, v)
      BY <2>4 DEF ResolveWin
    <3>2. /\ status[r] = "running" /\ status' = [status EXCEPT ![r] = "settled"]
          /\ terms' = terms
      BY <2>4 DEF ResolveWin, MayResolve
    <3>3. v \in Entrants(r)
      BY <3>1, RemainingAlive DEF Alive, Entrants
    <3>4. \A q \in Rounds : Entrants(q)' = Entrants(q)
      BY <1>0, <3>1, EliminateSeats
    <3>5. /\ phase[r] = "held" /\ phase' = [phase EXCEPT ![r] = "paid"]
          /\ UNCHANGED <<terms, members>>
      BY <1>0, <3>2, <3>4 DEF Phase
    <3>6. /\ \A u \in Users : ledger'[r][u] =
                IF u \notin Entrants(r) THEN 0
                ELSE IF u = v THEN Payout(r) - Amount(r) ELSE -Amount(r)
          /\ house'[r] = Rake(r)
          /\ \A q \in Rounds : q # r => ledger'[q] = ledger[q] /\ house'[q] = house[q]
      BY <1>0, <3>1, <3>2, <3>3, PayBook
    <3>7. \A u \in Users : ledger[r][u] = IF u \notin Entrants(r) THEN 0 ELSE -Amount(r)
      BY <1>0, <3>2 DEF LedgerFollowsRound, Books
    <3>8. ledger' = [ledger EXCEPT ![r][v] = Payout(r) - Amount(r)]
      BY <1>0, <3>3, <3>6, <3>7
    <3>9. house' = [house EXCEPT ![r] = Rake(r)]
      BY <1>0, <3>6
    <3>10. Pacts!Pot(r) = Pot(r)
      BY <1>c DEF Pacts!Pot, Pot, Amount
    <3>11. Pacts!Rake(r) = Rake(r)
      <4>1. \A p, b : Pacts!RakeOf(p, b) = RakeOf(p, b)
        BY Zenon DEF Pacts!RakeOf, RakeOf
      <4> QED BY <3>10, <4>1, Zenon DEF Pacts!Rake, Rake
    <3>12. Payout(r) - Amount(r) = (Pacts!Pot(r) - Pacts!Rake(r)) - terms[r].amount
      BY <3>10, <3>11, Zenon DEF Payout, Amount
    <3>13. Pacts!Pay(r, v)
      BY <3>3, <3>5, <3>8, <3>9, <3>11, <3>12, Zenon DEF Pacts!Pay
    <3> QED BY <3>1, <3>13 DEF Pacts!Next
  <2>5. CASE ResolveOn(w, r)
    <3>1. \A q \in Rounds : Entrants(q)' = Entrants(q)
      BY <1>0, <2>5, EliminateSeats DEF ResolveOn
    <3> QED BY <1>1, <2>5, <3>1 DEF ResolveOn, moneyVars
  <2>6. CASE AdvanceStale(w, r)
    BY <1>1, <2>6 DEF AdvanceStale, Entrants, roundVars, seatVars, moneyVars
  <2> QED BY <1>5, <2>1, <2>2, <2>3, <2>4, <2>5, <2>6 DEF Advance
<1> QED
  BY <1>1, <1>2, <1>3, <1>5 DEF Next, Credit, CommitRead, CommitInsert, CommitLost,
     SweepDue, AdvanceFails, Crash, WindowLapses, ClockRuns, vars, roundVars, seatVars, moneyVars, Entrants

\* The rounds keep the promise of StakeEscrow: whatever the sweeps, the commits
\* and the crashes do, the money of a round only ever takes its steps.
THEOREM RoundsImplementEscrow == Spec => EscrowIsImplemented
<1>1. Init => Pacts!Init
  <2> SUFFICES ASSUME Init PROVE Pacts!Init
    OBVIOUS
  <2>1. terms \in [Rounds -> Terms]
    BY InitTypes DEF TypeOK, RoundTypes
  <2>2. \A r \in Rounds : Phase(r) = "unborn" /\ Entrants(r) = {}
    BY DEF Init, Phase, Entrants
  <2> QED BY <2>1, <2>2 DEF Init, Pacts!Init
<1>2. IInv /\ IInv' /\ [Next]_vars => [Pacts!Next]_(Pacts!vars)
  BY EscrowStep
<1> QED BY <1>1, <1>2, Invariant, PTL DEF Spec, EscrowIsImplemented, Pacts!Spec
=============================================================================
