--------------------------- MODULE MCArcadeRounds ---------------------------
(* Instances of ArcadeRounds for TLC. *)
EXTENDS ArcadeRounds, TLC

FreeTerms == {[amount |-> 0, rakeBps |-> 0]}
StakedTerms == {[amount |-> 3, rakeBps |-> 2500]}
MixedTerms == {[amount |-> 3, rakeBps |-> 2500], [amount |-> 0, rakeBps |-> 0]}
NoDeposits == {}
OneDeposit == {4}

\* Players, rounds and workers are interchangeable.
Symmetry == Permutations(Users) \cup Permutations(Rounds) \cup Permutations(Workers)
=============================================================================
