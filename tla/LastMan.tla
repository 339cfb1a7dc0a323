------------------------------ MODULE LastMan ------------------------------
(***************************************************************************)
(* The rules of one tick of Last Man (src/src/arcade/lastMan.ts), as pure  *)
(* operators.  The list of moves of the tick is a function from players to *)
(* a choice or NoMove: the key (round_id, tick, user_id) of arcade_moves   *)
(* leaves at most one move per player, so the Map the code builds and this *)
(* function carry the same information.                                    *)
(***************************************************************************)
EXTENDS Naturals, FiniteSets

Choice == {0, 1}

CONSTANT NoMove                     \* the player has not committed this tick

ASSUME NoMoveAssumption == NoMove \notin Choice

\* The players alive that committed, and those of them that picked c.
Committed(alive, move) == {u \in alive : move[u] \in Choice}
\* Mutant: silence counts as a choice of 0.
PickedByDefault(alive, move, c) ==
    {u \in alive : move[u] = c \/ (c = 0 /\ move[u] = NoMove)}
Picked(alive, move, c) == {u \in alive : move[u] = c}

\* A tie, a unanimous tick or an empty one has no minority.
HasMinority(alive, move) ==
    LET zero == Cardinality(Picked(alive, move, 0))
        one  == Cardinality(Picked(alive, move, 1))
    IN  zero # one /\ zero # 0 /\ one # 0

MinorityChoice(alive, move) ==
    IF Cardinality(Picked(alive, move, 0)) < Cardinality(Picked(alive, move, 1))
    THEN 0 ELSE 1

\* resolveTick: the silent are out; among the others the minority stays, and
\* everybody stays when there is none.
Survivors(alive, move) ==
    IF HasMinority(alive, move)
    THEN Picked(alive, move, MinorityChoice(alive, move))
    ELSE Committed(alive, move)

Eliminated(alive, move) == alive \ Survivors(alive, move)
=============================================================================
