---------------------------- MODULE StakeEscrow ----------------------------
(***************************************************************************)
(* What the Arcade promises about the money of a round, whatever game is   *)
(* played in it: a stake is put up once per member while the round is open *)
(* and has room; it is held if there are members enough; and the pot       *)
(* leaves in exactly one of two ways, all of it back to the members that   *)
(* put it up, or to one member less the house's rake.                      *)
(*                                                                         *)
(* net[r][u] is what round r has moved to (positive) or from (negative)    *)
(* member u, and house[r] what it has moved to the house.                  *)
(***************************************************************************)
EXTENDS Integers, FiniteSets

CONSTANTS Users, Rounds, Terms, MinMembers, MaxMembers

VARIABLES phase,      \* "unborn", "open", "held", "paid", "returned"
          pact,       \* the terms the round opened with
          members,    \* who has put up a stake
          net, house

vars == <<phase, pact, members, net, house>>

RakeOf(pot, bps) == (pot * bps) \div 10000

Pot(r) == pact[r].amount * Cardinality(members[r])
Rake(r) == RakeOf(Pot(r), pact[r].rakeBps)

Init ==
    /\ phase = [r \in Rounds |-> "unborn"]
    /\ pact \in [Rounds -> Terms]
    /\ members = [r \in Rounds |-> {}]
    /\ net = [r \in Rounds |-> [u \in Users |-> 0]]
    /\ house = [r \in Rounds |-> 0]

Open(r, t) ==
    /\ phase[r] = "unborn"
    /\ phase' = [phase EXCEPT ![r] = "open"]
    /\ pact' = [pact EXCEPT ![r] = t]
    /\ UNCHANGED <<members, net, house>>

Stake(r, u) ==
    /\ phase[r] = "open" /\ u \notin members[r]
    /\ Cardinality(members[r]) < MaxMembers
    /\ members' = [members EXCEPT ![r] = @ \cup {u}]
    /\ net' = [net EXCEPT ![r][u] = -pact[r].amount]
    /\ UNCHANGED <<phase, pact, house>>

Hold(r) ==
    /\ phase[r] = "open" /\ Cardinality(members[r]) >= MinMembers
    /\ phase' = [phase EXCEPT ![r] = "held"]
    /\ UNCHANGED <<pact, members, net, house>>

Return(r) ==
    /\ phase[r] \in {"open", "held"}
    /\ phase' = [phase EXCEPT ![r] = "returned"]
    /\ net' = [net EXCEPT ![r] = [u \in Users |-> 0]]
    /\ UNCHANGED <<pact, members, house>>

Pay(r, w) ==
    /\ phase[r] = "held" /\ w \in members[r]
    /\ phase' = [phase EXCEPT ![r] = "paid"]
    /\ net' = [net EXCEPT ![r][w] = (Pot(r) - Rake(r)) - pact[r].amount]
    /\ house' = [house EXCEPT ![r] = Rake(r)]
    /\ UNCHANGED <<pact, members>>

Next ==
    \E r \in Rounds :
        \/ \E t \in Terms : Open(r, t)
        \/ \E u \in Users : Stake(r, u) \/ Pay(r, u)
        \/ Hold(r)
        \/ Return(r)

Spec == Init /\ [][Next]_vars
=============================================================================
