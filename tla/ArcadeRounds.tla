---------------------------- MODULE ArcadeRounds ----------------------------
(***************************************************************************)
(* The staked rounds of the Arcade: the lobby, the seats, the commits of a *)
(* tick, the sweep that resolves it and the money that moves with them     *)
(* (RoundRepository, StakeRepository, ArcadeWorker of src/src/arcade).     *)
(*                                                                         *)
(* A transaction that takes the row lock of its round first and holds it   *)
(* to its commit is one action: join, advance.  commit takes no lock until *)
(* its INSERT, so it is two: the reads, which see one snapshot, and the    *)
(* write.  A transaction that rolls back, and a process that dies inside   *)
(* one, changes no row.                                                    *)
(*                                                                         *)
(* Time is what the guards can tell: a join window and a tick deadline are *)
(* ahead, at hand or past.                                                 *)
(***************************************************************************)
EXTENDS Integers, FiniteSets, Functions, LastMan

CONSTANTS Users, Rounds, Workers,
          Terms,           \* the stake terms the game may have: [amount, rakeBps]
          DepositAmounts,  \* what a confirmed deposit may credit
          MinPlayers, MaxPlayers,
          MaxTick,         \* bound: tick MaxTick opens but is not played
          MaxDeposits,     \* bound: credits of one player
          Nobody           \* no winner, no settlement, no commit in flight

Ticks == 1..MaxTick

ASSUME ArcadeAssumption ==
    /\ IsFiniteSet(Users) /\ IsFiniteSet(Rounds)
    /\ \A t \in Terms : t.amount \in Nat /\ t.rakeBps \in Nat /\ t.rakeBps <= 10000
    /\ Terms # {}
    /\ DepositAmounts \subseteq Nat
    /\ MinPlayers \in Nat /\ MaxPlayers \in Nat
    /\ MaxTick \in Nat \ {0} /\ MaxDeposits \in Nat
    /\ Nobody \notin Users
    /\ Nobody \notin [pot : Nat, rake : Nat, paidOut : Nat]

VARIABLES
    status,     \* [Rounds -> "unborn" | "open" | "running" | "settled" | "aborted"]
    terms,      \* [Rounds -> Terms], copied from the game when the round opens
    window,     \* [Rounds -> "open" | "lapsing" | "closed"], the join window:
                \*   "lapsing" is past on the database's clock, not yet on the process's
    tick,       \* [Rounds -> 0..MaxTick]
    clock,      \* [Rounds -> "before" | "at" | "past"], now against the tick's deadline
    winner,     \* [Rounds -> Users \cup {Nobody}]
    seat,       \* [Rounds -> [Users -> "none" | "alive" | "eliminated" | "won" | "refunded"]]
    outAt,      \* [Rounds -> [Users -> Nat]], eliminated_tick, 0 when null
    moves,      \* [Rounds -> [Ticks -> [Users -> Choice \cup {NoMove}]]]
    available, escrowed,    \* [Users -> Int], arcade_balances
    ledger,     \* [Rounds -> [Users -> Int]], sum of a player's rows for a round
    house,      \* [Rounds -> Int], sum of the rake rows of a round
    deposits,   \* [Users -> Nat], sum of a player's deposit rows
    credits,    \* [Users -> 0..MaxDeposits], how many there were
    settlement, \* [Rounds -> [pot, rake, paidOut] or Nobody]
    commit,     \* [Users -> [round, tick, choice] or Nobody], a commit between read and write
    sweep       \* [Workers -> SUBSET Rounds], what is left of a sweep's batch

roundVars == <<status, terms, window, tick, clock, winner>>
seatVars  == <<seat, outAt>>
moneyVars == <<available, escrowed, ledger, house, deposits, credits, settlement>>
vars == <<roundVars, seatVars, moves, moneyVars, commit, sweep>>

-----------------------------------------------------------------------------
Entrants(r) == {u \in Users : seat[r][u] # "none"}
Alive(r)    == {u \in Users : seat[r][u] = "alive"}

Amount(r) == terms[r].amount
RakeOf(pot, bps) == (pot * bps) \div 10000
Pot(r)    == Amount(r) * Cardinality(Entrants(r))
Rake(r)   == RakeOf(Pot(r), terms[r].rakeBps)
Payout(r) == Pot(r) - Rake(r)

\* Mutants: a sweep that looks for one kind of round only.
DueLobby(r) == status[r] = "open" /\ window[r] # "open"
DueTick(r) == status[r] = "running" /\ clock[r] # "before"

Due(r) == \/ status[r] = "open" /\ window[r] # "open"
          \/ status[r] = "running" /\ clock[r] # "before"

Init ==
    /\ status = [r \in Rounds |-> "unborn"]
    /\ terms = [r \in Rounds |-> CHOOSE t \in Terms : TRUE]
    /\ window = [r \in Rounds |-> "open"]
    /\ tick = [r \in Rounds |-> 0]
    /\ clock = [r \in Rounds |-> "before"]
    /\ winner = [r \in Rounds |-> Nobody]
    /\ seat = [r \in Rounds |-> [u \in Users |-> "none"]]
    /\ outAt = [r \in Rounds |-> [u \in Users |-> 0]]
    /\ moves = [r \in Rounds |-> [t \in Ticks |-> [u \in Users |-> NoMove]]]
    /\ available = [u \in Users |-> 0]
    /\ escrowed = [u \in Users |-> 0]
    /\ ledger = [r \in Rounds |-> [u \in Users |-> 0]]
    /\ house = [r \in Rounds |-> 0]
    /\ deposits = [u \in Users |-> 0]
    /\ credits = [u \in Users |-> 0]
    /\ settlement = [r \in Rounds |-> Nobody]
    /\ commit = [u \in Users |-> Nobody]
    /\ sweep = [w \in Workers |-> {}]

-----------------------------------------------------------------------------
(* Money. *)

\* credit: a confirmed deposit reaches the game balance.
Credit(u, amount) ==
    /\ credits[u] < MaxDeposits
    /\ credits' = [credits EXCEPT ![u] = @ + 1]
    /\ available' = [available EXCEPT ![u] = @ + amount]
    /\ deposits' = [deposits EXCEPT ![u] = @ + amount]
    /\ UNCHANGED <<roundVars, seatVars, moves, escrowed, ledger, house, settlement,
                   commit, sweep>>

\* Mutant: a stake is taken whatever the balance.
EscrowOnCredit(r, u) ==
    /\ available' = [available EXCEPT ![u] = @ - Amount(r)]
    /\ escrowed' = [escrowed EXCEPT ![u] = @ + Amount(r)]
    /\ ledger' = [ledger EXCEPT ![r][u] = @ - Amount(r)]
    /\ UNCHANGED <<house, deposits, credits, settlement>>

\* escrow: the stake leaves the available balance, or the caller's whole
\* transaction fails.
Escrow(r, u) ==
    /\ available[u] >= Amount(r)
    /\ available' = [available EXCEPT ![u] = @ - Amount(r)]
    /\ escrowed' = [escrowed EXCEPT ![u] = @ + Amount(r)]
    /\ ledger' = [ledger EXCEPT ![r][u] = @ - Amount(r)]
    /\ UNCHANGED <<house, deposits, credits, settlement>>

\* Nothing to settle, or settled before: refundAll and payOut return early.
NothingToSettle(r) == Amount(r) = 0 \/ settlement[r] # Nobody

\* Mutant: a refund goes only to the seats that are still alive.
RefundTheAlive(r) ==
    \/ NothingToSettle(r) /\ UNCHANGED moneyVars
    \/ /\ ~NothingToSettle(r)
       /\ settlement' = [settlement EXCEPT ![r] = [pot |-> 0, rake |-> 0, paidOut |-> 0]]
       /\ escrowed' = [u \in Users |-> IF u \in Alive(r) THEN escrowed[u] - Amount(r)
                                                         ELSE escrowed[u]]
       /\ available' = [u \in Users |-> IF u \in Alive(r) THEN available[u] + Amount(r)
                                                          ELSE available[u]]
       /\ ledger' = [ledger EXCEPT ![r] =
                        [u \in Users |-> IF u \in Alive(r) THEN @[u] + Amount(r) ELSE @[u]]]
       /\ UNCHANGED <<house, deposits, credits>>

\* refundAll: every stake of the round goes back where it came from.
RefundAll(r) ==
    \/ NothingToSettle(r) /\ UNCHANGED moneyVars
    \/ /\ ~NothingToSettle(r)
       /\ settlement' = [settlement EXCEPT ![r] = [pot |-> 0, rake |-> 0, paidOut |-> 0]]
       /\ escrowed' = [u \in Users |-> IF u \in Entrants(r) THEN escrowed[u] - Amount(r)
                                                            ELSE escrowed[u]]
       /\ available' = [u \in Users |-> IF u \in Entrants(r) THEN available[u] + Amount(r)
                                                             ELSE available[u]]
       /\ ledger' = [ledger EXCEPT ![r] =
                        [u \in Users |-> IF u \in Entrants(r) THEN @[u] + Amount(r)
                                                              ELSE @[u]]]
       /\ UNCHANGED <<house, deposits, credits>>

\* Mutant: the winner is paid the pot and the house its rake on top.
PayOutWholePot(r, w) ==
    \/ NothingToSettle(r) /\ UNCHANGED moneyVars
    \/ /\ ~NothingToSettle(r)
       /\ settlement' = [settlement EXCEPT ![r] =
                            [pot |-> Pot(r), rake |-> Rake(r), paidOut |-> Pot(r)]]
       /\ escrowed' = [u \in Users |-> IF u \in Entrants(r) THEN escrowed[u] - Amount(r)
                                                            ELSE escrowed[u]]
       /\ available' = [available EXCEPT ![w] = @ + Pot(r)]
       /\ ledger' = [ledger EXCEPT ![r][w] = @ + Pot(r)]
       /\ house' = [house EXCEPT ![r] = @ + Rake(r)]
       /\ UNCHANGED <<deposits, credits>>

\* payOut: every stake leaves escrow and the pot, less rake, is the winner's.
PayOut(r, w) ==
    \/ NothingToSettle(r) /\ UNCHANGED moneyVars
    \/ /\ ~NothingToSettle(r)
       /\ settlement' = [settlement EXCEPT ![r] =
                            [pot |-> Pot(r), rake |-> Rake(r), paidOut |-> Payout(r)]]
       /\ escrowed' = [u \in Users |-> IF u \in Entrants(r) THEN escrowed[u] - Amount(r)
                                                            ELSE escrowed[u]]
       /\ available' = [available EXCEPT ![w] = @ + Payout(r)]
       /\ ledger' = [ledger EXCEPT ![r][w] = @ + Payout(r)]
       /\ house' = [house EXCEPT ![r] = @ + Rake(r)]
       /\ UNCHANGED <<deposits, credits>>

-----------------------------------------------------------------------------
(* The lobby. *)

\* ensureOpenRound: a new round only when none is accepting players.
EnsureOpenRound(r, t) ==
    /\ status[r] = "unborn"
    /\ ~\E q \in Rounds : status[q] = "open" /\ window[q] = "open"
    /\ status' = [status EXCEPT ![r] = "open"]
    /\ terms' = [terms EXCEPT ![r] = t]
    /\ UNCHANGED <<window, tick, clock, winner, seatVars, moves, moneyVars, commit, sweep>>

\* Mutant: joining twice charges twice.
JoinAgain(r, u) ==
    /\ status[r] = "open" /\ window[r] # "closed"
    /\ Cardinality(Entrants(r)) < MaxPlayers
    /\ seat' = [seat EXCEPT ![r][u] = "alive"]
    /\ \/ Amount(r) = 0 /\ UNCHANGED moneyVars
       \/ Amount(r) # 0 /\ Escrow(r, u)
    /\ UNCHANGED <<roundVars, outAt, moves, commit, sweep>>

\* join: a seat and its stake, under the round's lock.  The account gate and
\* the player's limits (assertMayJoin) may refuse any join: see ArcadeLimits.
Join(r, u) ==
    /\ status[r] = "open" /\ window[r] # "closed"
    /\ Cardinality(Entrants(r)) < MaxPlayers
    /\ seat[r][u] = "none"
    /\ seat' = [seat EXCEPT ![r][u] = "alive"]
    /\ \/ Amount(r) = 0 /\ UNCHANGED moneyVars
       \/ Amount(r) # 0 /\ Escrow(r, u)
    /\ UNCHANGED <<roundVars, outAt, moves, commit, sweep>>

-----------------------------------------------------------------------------
(* A player's commit. *)

\* Mutant: any seat may commit, an eliminated one too.
CommitReadSeated(r, u, c) ==
    /\ commit[u] = Nobody
    /\ status[r] = "running" /\ clock[r] # "past" /\ tick[r] < MaxTick
    /\ u \in Entrants(r)
    /\ commit' = [commit EXCEPT ![u] = [round |-> r, tick |-> tick[r], choice |-> c]]
    /\ UNCHANGED <<roundVars, seatVars, moves, moneyVars, sweep>>

\* commit, its two reads: one snapshot of the round and of the seat.  The
\* comparison is of milliseconds, so a commit at the deadline still passes.
CommitRead(r, u, c) ==
    /\ commit[u] = Nobody
    /\ status[r] = "running" /\ clock[r] # "past" /\ tick[r] < MaxTick
    /\ seat[r][u] = "alive"
    /\ commit' = [commit EXCEPT ![u] = [round |-> r, tick |-> tick[r], choice |-> c]]
    /\ UNCHANGED <<roundVars, seatVars, moves, moneyVars, sweep>>

\* commit, its INSERT: the key refuses a second move for the tick, nothing
\* looks at the round again.
CommitInsert(u) ==
    /\ commit[u] # Nobody
    /\ LET p == commit[u] IN
          moves' = IF moves[p.round][p.tick][u] = NoMove
                   THEN [moves EXCEPT ![p.round][p.tick][u] = p.choice]
                   ELSE moves
    /\ commit' = [commit EXCEPT ![u] = Nobody]
    /\ UNCHANGED <<roundVars, seatVars, moneyVars, sweep>>

\* The request dies between the two: its transaction rolls back.
CommitLost(u) ==
    /\ commit[u] # Nobody
    /\ commit' = [commit EXCEPT ![u] = Nobody]
    /\ UNCHANGED <<roundVars, seatVars, moves, moneyVars, sweep>>

-----------------------------------------------------------------------------
(* The sweep. *)

\* sweep: dueRounds is read without a lock; a worker starts a sweep only when
\* its last one has ended.
SweepDue(w) ==
    /\ sweep[w] = {}
    /\ \E r \in Rounds : Due(r)
    /\ sweep' = [sweep EXCEPT ![w] = {r \in Rounds : Due(r)}]
    /\ UNCHANGED <<roundVars, seatVars, moves, moneyVars, commit>>

Taken(w, r) == r \in sweep[w] /\ sweep' = [sweep EXCEPT ![w] = @ \ {r}]

\* startOrAbort with too few players: the round ends and every stake returns.
AbortShort(w, r) ==
    /\ Taken(w, r)
    /\ status[r] = "open" /\ Cardinality(Entrants(r)) < MinPlayers
    /\ status' = [status EXCEPT ![r] = "aborted"]
    /\ seat' = [seat EXCEPT ![r] =
                   [u \in Users |-> IF u \in Entrants(r) THEN "refunded" ELSE "none"]]
    /\ RefundAll(r)
    /\ UNCHANGED <<terms, window, tick, clock, winner, outAt, moves, commit>>

\* startOrAbort with enough.
Start(w, r) ==
    /\ Taken(w, r)
    /\ status[r] = "open" /\ Cardinality(Entrants(r)) >= MinPlayers
    /\ status' = [status EXCEPT ![r] = "running"]
    /\ tick' = [tick EXCEPT ![r] = 1]
    /\ clock' = [clock EXCEPT ![r] = "before"]
    /\ UNCHANGED <<terms, window, winner, seatVars, moves, moneyVars, commit>>

\* Mutant: the deadline is not looked at again under the lock.
MayResolveEarly(r) == status[r] = "running"

\* advance on a running round: the deadline is looked at again under the lock,
\* since another worker may have been here first.
MayResolve(r) == status[r] = "running" /\ clock[r] # "before"

Remaining(r) == Survivors(Alive(r), moves[r][tick[r]])

\* The eliminations of a tick, with the mark of its winner if it has one.
SeatAfter(r, u, w) ==
    IF u \in Alive(r) \ Remaining(r) THEN "eliminated"
    ELSE IF u = w THEN "won" ELSE seat[r][u]

Eliminate(r, w) ==
    /\ seat' = [seat EXCEPT ![r] = [u \in Users |-> SeatAfter(r, u, w)]]
    /\ outAt' = [outAt EXCEPT ![r] =
                    [u \in Users |-> IF u \in Alive(r) \ Remaining(r) THEN tick[r] ELSE @[u]]]

\* resolveCurrentTick when everybody went silent.
ResolveNone(w, r) ==
    /\ Taken(w, r)
    /\ MayResolve(r) /\ Remaining(r) = {}
    /\ Eliminate(r, Nobody)
    /\ status' = [status EXCEPT ![r] = "aborted"]
    /\ RefundAll(r)
    /\ UNCHANGED <<terms, window, tick, clock, winner, moves, commit>>

\* resolveCurrentTick when one player is left.
ResolveWin(w, r) ==
    /\ Taken(w, r)
    /\ MayResolve(r)
    /\ \E u \in Users :
          /\ Remaining(r) = {u}
          /\ Eliminate(r, u)
          /\ winner' = [winner EXCEPT ![r] = u]
          /\ PayOut(r, u)
    /\ status' = [status EXCEPT ![r] = "settled"]
    /\ UNCHANGED <<terms, window, tick, clock, moves, commit>>

\* resolveCurrentTick when several are: the next tick opens, whether or not
\* anybody was eliminated.
ResolveOn(w, r) ==
    /\ Taken(w, r)
    /\ MayResolve(r)
    /\ \E u, v \in Remaining(r) : u # v
    /\ Eliminate(r, Nobody)
    /\ tick' = [tick EXCEPT ![r] = @ + 1]
    /\ clock' = [clock EXCEPT ![r] = "before"]
    /\ UNCHANGED <<status, terms, window, winner, moves, moneyVars, commit>>

\* advance when somebody else already did the step.
AdvanceStale(w, r) ==
    /\ Taken(w, r)
    /\ status[r] # "open" /\ ~MayResolve(r)
    /\ UNCHANGED <<roundVars, seatVars, moves, moneyVars, commit>>

\* advance throws and rolls back: the sweep goes on with the rest.
AdvanceFails(w) ==
    /\ \E r \in sweep[w] : sweep' = [sweep EXCEPT ![w] = @ \ {r}]
    /\ UNCHANGED <<roundVars, seatVars, moves, moneyVars, commit>>

\* A worker's process dies with the rest of its batch.
Crash(w) ==
    /\ sweep[w] # {}
    /\ sweep' = [sweep EXCEPT ![w] = {}]
    /\ UNCHANGED <<roundVars, seatVars, moves, moneyVars, commit>>

-----------------------------------------------------------------------------
(* Time. *)

WindowLapses(r) ==
    /\ status[r] = "open" /\ window[r] # "closed"
    /\ window' = [window EXCEPT ![r] = IF @ = "open" THEN "lapsing" ELSE "closed"]
    /\ UNCHANGED <<status, terms, tick, clock, winner, seatVars, moves, moneyVars,
                   commit, sweep>>

ClockRuns(r) ==
    /\ status[r] = "running" /\ clock[r] # "past" /\ tick[r] < MaxTick
    /\ clock' = [clock EXCEPT ![r] = IF @ = "before" THEN "at" ELSE "past"]
    /\ UNCHANGED <<status, terms, window, tick, winner, seatVars, moves, moneyVars,
                   commit, sweep>>

-----------------------------------------------------------------------------
Advance(w, r) == \/ AbortShort(w, r) \/ Start(w, r)
                 \/ ResolveNone(w, r) \/ ResolveWin(w, r) \/ ResolveOn(w, r)
                 \/ AdvanceStale(w, r)

Next ==
    \/ \E u \in Users, a \in DepositAmounts : Credit(u, a)
    \/ \E r \in Rounds, t \in Terms : EnsureOpenRound(r, t)
    \/ \E r \in Rounds, u \in Users : Join(r, u)
    \/ \E r \in Rounds, u \in Users, c \in Choice : CommitRead(r, u, c)
    \/ \E u \in Users : CommitInsert(u) \/ CommitLost(u)
    \/ \E w \in Workers : SweepDue(w) \/ AdvanceFails(w) \/ Crash(w)
    \/ \E w \in Workers, r \in Rounds : Advance(w, r)
    \/ \E r \in Rounds : WindowLapses(r) \/ ClockRuns(r)

Spec == Init /\ [][Next]_vars

\* The timer keeps calling sweep, a sweep works through its batch, a worker is
\* neither killed nor failed by the database over and over before it gets
\* through a round, and time passes.
Fairness ==
    /\ \A w \in Workers : WF_vars(SweepDue(w))
    /\ \A w \in Workers, r \in Rounds : SF_vars(Advance(w, r))
    /\ \A r \in Rounds : WF_vars(WindowLapses(r)) /\ WF_vars(ClockRuns(r))

FairSpec == Spec /\ Fairness

-----------------------------------------------------------------------------
(* Properties. *)

Seats == {"none", "alive", "eliminated", "won", "refunded"}
Settlements == [pot : Nat, rake : Nat, paidOut : Nat]
Commits == [round : Rounds, tick : Ticks, choice : Choice]

RoundTypes ==
    /\ status \in [Rounds -> {"unborn", "open", "running", "settled", "aborted"}]
    /\ terms \in [Rounds -> Terms]
    /\ window \in [Rounds -> {"open", "lapsing", "closed"}]
    /\ tick \in [Rounds -> 0..MaxTick]
    /\ clock \in [Rounds -> {"before", "at", "past"}]
    /\ winner \in [Rounds -> Users \cup {Nobody}]

SeatTypes ==
    /\ seat \in [Rounds -> [Users -> Seats]]
    /\ outAt \in [Rounds -> [Users -> 0..MaxTick]]

MoneyTypes ==
    /\ available \in [Users -> Int] /\ escrowed \in [Users -> Int]
    /\ ledger \in [Rounds -> [Users -> Int]] /\ house \in [Rounds -> Int]
    /\ deposits \in [Users -> Nat] /\ credits \in [Users -> 0..MaxDeposits]
    /\ settlement \in [Rounds -> Settlements \cup {Nobody}]

\* Every column keeps to its domain (CHECK constraints of migrations 0016 and
\* 0017, and the shapes the two repositories read rows as).
TypeOK ==
    /\ RoundTypes
    /\ SeatTypes
    /\ moves \in [Rounds -> [Ticks -> [Users -> Choice \cup {NoMove}]]]
    /\ MoneyTypes
    /\ commit \in [Users -> Commits \cup {Nobody}]
    /\ sweep \in [Workers -> SUBSET Rounds]

InPlay(r) == status[r] \in {"open", "running"}
Finished(r) == status[r] \in {"settled", "aborted"}

\* What round r holds of player u's money.
Held(r, u) == IF InPlay(r) /\ u \in Entrants(r) THEN Amount(r) ELSE 0

\* A player's escrow is exactly the stakes of the rounds in play that the
\* player sits in, so no release of one can ever hit the CHECK on the column
\* and no stake is left behind in it (escrow, refundAll, payOut).
EscrowBacksRoundsInPlay ==
    \A u \in Users : escrowed[u] = SumFunction([r \in Rounds |-> Held(r, u)])

\* The balance a player can spend is what the append-only ledger says, and is
\* never negative (the balances are derived state kept in step with it).
AvailableFollowsLedger ==
    \A u \in Users :
        /\ available[u] = deposits[u] + SumFunction([r \in Rounds |-> ledger[r][u]])
        /\ available[u] >= 0

\* The ledger rows of a finished round sum to zero across its players and the
\* house (payOut's comment and migration 0017).
RoundSettlesToZero ==
    \A r \in Rounds : Finished(r) => SumFunction(ledger[r]) + house[r] = 0

\* What round r must have moved to and from player u: a stake while it is in
\* play, nothing once aborted, the pot less rake to the winner and a lost stake
\* for everybody else once settled.
Books(r, u) ==
    IF u \notin Entrants(r) \/ status[r] = "aborted" THEN 0
    ELSE IF status[r] = "settled" /\ u = winner[r] THEN Payout(r) - Amount(r)
    ELSE -Amount(r)

\* The ledger of every player follows from where each round stands: no stake is
\* charged twice, lost without a winner, refunded and paid out, or kept.
LedgerFollowsRound == \A r \in Rounds, u \in Users : ledger[r][u] = Books(r, u)

\* A staked round has a settlement row when it is finished, and the row of a
\* settled one accounts for the whole pot; the house has its rake and no more.
SettlementFits(r) ==
    /\ settlement[r] # Nobody <=> Finished(r) /\ Amount(r) # 0
    /\ settlement[r] # Nobody /\ status[r] = "settled" =>
          /\ settlement[r].pot = Pot(r)
          /\ settlement[r].rake = house[r]
          /\ settlement[r].paidOut + settlement[r].rake = settlement[r].pot
    /\ house[r] = IF status[r] = "settled" THEN Rake(r) ELSE 0

\* Every round is settled once, in the step that finishes it, and the house is
\* paid only out of the pot of a settled round (claimSettlement).
SettledExactlyOnce == \A r \in Rounds : SettlementFits(r)

Rests(r) ==
    /\ status'[r] = status[r] /\ winner'[r] = winner[r]
    /\ seat'[r] = seat[r] /\ outAt'[r] = outAt[r]
    /\ ledger'[r] = ledger[r] /\ house'[r] = house[r]
    /\ settlement'[r] = settlement[r]

\* Nothing about a finished round changes again, whatever a stale sweep, a
\* second worker or a late deposit does.
FinishedIsFinal == [][\A r \in Rounds : Finished(r) => Rests(r)]_vars

\* The last player of round r won it, and committed in the tick that decided it.
WonByPlaying(r) ==
    /\ winner[r] \in Entrants(r) /\ seat[r][winner[r]] = "won"
    /\ \A u \in Entrants(r) \ {winner[r]} : seat[r][u] = "eliminated"
    /\ moves[r][tick[r]][winner[r]] # NoMove

\* Every settled round has exactly one winner, who played: silence never wins
\* (resolveTick, step 1).
WinnerPlayed == \A r \in Rounds : status[r] = "settled" => WonByPlaying(r)

\* A player has no move in a tick after the one that eliminated them, nor in a
\* tick that has not opened, though commit reads the seat before it writes.
NoMovesFromTheEliminated ==
    \A r \in Rounds, t \in Ticks, u \in Users : moves[r][t][u] # NoMove =>
        /\ u \in Entrants(r) /\ t <= tick[r]
        /\ seat[r][u] = "eliminated" => t <= outAt[r][u]

\* A move, once made, is never changed (the key of arcade_moves).
MoveIsFinal ==
    [][\A r \in Rounds, t \in Ticks, u \in Users :
          moves[r][t][u] # NoMove => moves'[r][t][u] = moves[r][t][u]]_vars

ResolvedInTime(r) ==
    /\ tick'[r] # tick[r] => tick'[r] = tick[r] + 1
    /\ status[r] = "running" /\ (tick'[r] # tick[r] \/ seat'[r] # seat[r]) =>
           clock[r] # "before"

\* Nobody is eliminated, and no tick ends, before the deadline the players were
\* given; and a sweep resolves a tick once, whoever else is sweeping
\* (ArcadeWorker's comment).
TickResolvedOnceAndInTime == [][\A r \in Rounds : ResolvedInTime(r)]_vars

\* A tick whose deadline has passed is resolved.
DueTicksResolve ==
    \A r \in Rounds, t \in Ticks :
        (status[r] = "running" /\ tick[r] = t /\ clock[r] # "before")
            ~> (status[r] # "running" \/ tick[r] # t)

\* No lobby stays open for ever: the round starts or its stakes go back.
LobbiesClose ==
    \A r \in Rounds : (status[r] = "open") ~> (status[r] # "open")

-----------------------------------------------------------------------------
(* The inductive invariant. *)

\* Where a round stands bounds its tick, its clock, its seats and its winner.
StageFits ==
    \A r \in Rounds :
        /\ status[r] = "unborn" => Entrants(r) = {}
        /\ status[r] \in {"unborn", "open"} =>
              tick[r] = 0 /\ \A u \in Users : seat[r][u] \in {"none", "alive"}
        /\ status[r] \in {"running", "settled"} => tick[r] # 0
        /\ status[r] = "running" =>
              \A u \in Users : seat[r][u] \in {"none", "alive", "eliminated"}
        /\ clock[r] # "before" => tick[r] < MaxTick

\* A commit in flight was let in by a seat that was alive in its tick.
CommitsFit ==
    \A u \in Users : commit[u] # Nobody =>
        LET p == commit[u] IN
            /\ u \in Entrants(p.round) /\ p.tick <= tick[p.round]
            /\ seat[p.round][u] = "eliminated" => p.tick <= outAt[p.round][u]

\* The invariant the proofs are by.
IInv ==
    /\ TypeOK /\ StageFits /\ CommitsFit /\ NoMovesFromTheEliminated
    /\ LedgerFollowsRound /\ SettledExactlyOnce /\ WinnerPlayed

-----------------------------------------------------------------------------
(* The rounds implement the escrow they promise. *)

Phase(r) == CASE status[r] = "unborn"  -> "unborn"
              [] status[r] = "open"    -> "open"
              [] status[r] = "running" -> "held"
              [] status[r] = "settled" -> "paid"
              [] status[r] = "aborted" -> "returned"

Pacts == INSTANCE StakeEscrow WITH
            phase <- [r \in Rounds |-> Phase(r)], pact <- terms,
            members <- [r \in Rounds |-> Entrants(r)], net <- ledger, house <- house,
            MinMembers <- MinPlayers, MaxMembers <- MaxPlayers

EscrowIsImplemented == Pacts!Spec

-----------------------------------------------------------------------------
(* What verification() publishes. *)

\* The players alive in each tick, replayed from the published moves.
Replay(r) ==
    LET alive[t \in 1..tick[r]] ==
            IF t = 1 THEN Entrants(r) ELSE Survivors(alive[t - 1], moves[r][t - 1])
    IN  Survivors(alive[tick[r]], moves[r][tick[r]])

\* "moves are released once the round is over and resolveTick is a pure function
\* anyone can replay them through": the replay names the declared winner, and
\* nobody for a round that ended in silence.
ReplayNamesTheWinner ==
    \A r \in Rounds :
        /\ status[r] = "settled" => Replay(r) = {winner[r]}
        /\ status[r] = "aborted" /\ tick[r] > 0 => Replay(r) = {}
=============================================================================
