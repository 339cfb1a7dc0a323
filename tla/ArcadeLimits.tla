---------------------------- MODULE ArcadeLimits ----------------------------
(***************************************************************************)
(* The limits a player sets himself, and the joins they are checked in:    *)
(* ArcadeLimits and RoundRepository.join, under src/src/arcade.            *)
(*                                                                         *)
(* The transactions are REPEATABLE READ.  Counting the players of the      *)
(* round is the first plain read of a join and opens its snapshot; all its *)
(* later plain reads are answered from there.  The row of the limits is    *)
(* read FOR UPDATE, so as it is, and stays locked until the join ends: the *)
(* rest of the join is one action.  One player, within one day.            *)
(***************************************************************************)
EXTENDS Integers, FiniteSets, Functions

CONSTANTS Games,       \* the rounds the player may join
          Saves,       \* calls of save
          Stake,       \* [Games -> Nat], zero for a free round
          Prizes,      \* what a settled round may pay the player
          EntryLimits, LossLimits,
          Horizon,     \* bound on the clock and on the end of an exclusion
          NoLimit, Out

ASSUME LimitsAssumption ==
    /\ IsFiniteSet(Games) /\ Stake \in [Games -> Nat] /\ Prizes \subseteq Nat
    /\ EntryLimits \subseteq Nat /\ LossLimits \subseteq Nat /\ Horizon \in Nat
    /\ Out \notin Int /\ Out \notin [Games -> Int \cup {Out}]
    /\ NoLimit \notin Nat

VARIABLES
    today,     \* the clock of self-exclusions
    limits,    \* the row of arcade_limits; all NoLimit and zero when there is none
    position,  \* [Games -> Int \cup {Out}]: the ledger's sum for a round that was
               \*   entered, Out for one that was not
    joining,   \* [Games -> snapshot of position, or Out]: joins under way
    saving     \* [Saves -> [read, input] or Out]: saves under way

limitsVars == <<today, limits, position, joining, saving>>

Inputs == [entry : EntryLimits \cup {NoLimit}, loss : LossLimits \cup {NoLimit},
           until : 0..Horizon]

LimitsInit ==
    /\ today = 0
    /\ limits = [entry |-> NoLimit, loss |-> NoLimit, until |-> 0]
    /\ position = [g \in Games |-> Out]
    /\ joining = [g \in Games |-> Out]
    /\ saving = [s \in Saves |-> Out]

-----------------------------------------------------------------------------
(* Saving limits. *)

\* Mutant: what is asked for replaces the exclusion that stands.
NewerOf(current, next) == next

\* laterOf
LaterOf(current, next) == IF next > current THEN next ELSE current

\* save, up to the row it merges with
SaveReads(s, input) ==
    /\ saving[s] = Out
    /\ saving' = [saving EXCEPT ![s] = [read |-> limits.until, input |-> input]]
    /\ UNCHANGED <<today, limits, position, joining>>

\* save: the upsert
SaveWrites(s) ==
    /\ saving[s] # Out
    /\ limits' = [saving[s].input EXCEPT !.until = LaterOf(saving[s].read, @)]
    /\ saving' = [saving EXCEPT ![s] = Out]
    /\ UNCHANGED <<today, position, joining>>

-----------------------------------------------------------------------------
(* Joining a round. *)

Entered(seen) == {g \in Games : seen[g] # Out}
Net(seen) == SumFunctionOnSet(seen, Entered(seen))
Lost(seen) == IF Net(seen) < 0 THEN -Net(seen) ELSE 0

\* join, up to the count of the round's players
JoinOpens(g) ==
    /\ position[g] = Out /\ joining[g] = Out
    /\ joining' = [joining EXCEPT ![g] = position]
    /\ UNCHANGED <<today, limits, position, saving>>

NotExcluded == limits.until <= today

EntriesAllow(seen) == limits.entry # NoLimit => Cardinality(Entered(seen)) < limits.entry

LossAllows(g, seen) ==
    limits.loss # NoLimit /\ Stake[g] > 0 => Lost(seen) + Stake[g] <= limits.loss

\* Mutant: the stake about to be taken is not counted.
MayJoinOnceMore(g, seen) ==
    NotExcluded /\ EntriesAllow(seen)
    /\ (limits.loss # NoLimit /\ Stake[g] > 0 => Lost(seen) <= limits.loss)

\* assertMayJoin, past the gate of the account
MayJoin(g, seen) == NotExcluded /\ EntriesAllow(seen) /\ LossAllows(g, seen)

\* join: the seat and its stake
JoinSeats(g) ==
    /\ joining[g] # Out /\ MayJoin(g, joining[g])
    /\ position' = [position EXCEPT ![g] = -Stake[g]]
    /\ joining' = [joining EXCEPT ![g] = Out]
    /\ UNCHANGED <<today, limits, saving>>

\* join: refused, by a limit, the gate of the account or the balance
JoinRefused(g) ==
    /\ joining[g] # Out
    /\ joining' = [joining EXCEPT ![g] = Out]
    /\ UNCHANGED <<today, limits, position, saving>>

\* A payout or refund of StakeRepository
RoundPays(g, prize) ==
    /\ position[g] = -Stake[g] /\ Stake[g] > 0
    /\ position' = [position EXCEPT ![g] = @ + prize]
    /\ UNCHANGED <<today, limits, joining, saving>>

DayPasses ==
    /\ today < Horizon
    /\ today' = today + 1
    /\ UNCHANGED <<limits, position, joining, saving>>

LimitsNext ==
    \/ DayPasses
    \/ \E s \in Saves : SaveWrites(s) \/ \E input \in Inputs : SaveReads(s, input)
    \/ \E g \in Games : \/ JoinOpens(g) \/ JoinSeats(g) \/ JoinRefused(g)
                        \/ \E prize \in Prizes : RoundPays(g, prize)

LimitsSpec == LimitsInit /\ [][LimitsNext]_limitsVars

-----------------------------------------------------------------------------
(* Properties. *)

\* The limits, positions, joins and saves are well formed.
LimitsTypeOK ==
    /\ today \in 0..Horizon /\ limits \in Inputs
    /\ \A g \in Games : position[g] = Out \/ position[g] \in Int
    /\ \A g \in Games : joining[g] # Out => DOMAIN joining[g] = Games /\ joining[g][g] = Out
    /\ \A s \in Saves : saving[s] # Out => saving[s].read \in 0..Horizon

TakesSeat(g) == position[g] = Out /\ position'[g] # Out

\* What changed between the snapshot of a join and now.
Since(g) == {h \in Games : joining[g][h] # position[h]}

\* No seat is taken during an exclusion, also one saved while the join was under
\* way, and a limit is passed only by a join that overlapped another event of
\* the ledger: joins one after the other keep every limit (assertMayJoin).
OnlyOverlapPassesALimit ==
    [][\A g \in Games : TakesSeat(g) =>
         /\ limits.until <= today
         /\ Since(g) = {} =>
              /\ limits.entry # NoLimit => Cardinality(Entered(position')) <= limits.entry
              /\ limits.loss # NoLimit /\ Stake[g] > 0 => Lost(position') <= limits.loss]_limitsVars

\* An exclusion is cut short only by a save that read the row before another
\* save extended it: saves one after the other only extend it (save, laterOf).
OnlyOverlapShortensAnExclusion ==
    [][limits'.until < limits.until =>
         \E s \in Saves : saving[s] # Out /\ saving'[s] = Out /\ saving[s].read < limits.until]_limitsVars

\* RoundRepository.ts:186: "checked inside this transaction so two joins at once
\* cannot both pass a limit only one of them fits."
JoinsCannotRaceALimit ==
    [][\A g \in Games : TakesSeat(g) /\ limits.entry # NoLimit =>
         Cardinality(Entered(position')) <= limits.entry]_limitsVars
=============================================================================
