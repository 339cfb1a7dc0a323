----------------------- MODULE MCTransactionLifecycle -----------------------
(* Instances of TransactionLifecycle for TLC. *)
EXTENDS TransactionLifecycle, TLC

CONSTANTS i1, i2, h1, h2

OneHash == i1 :> h1
SameHash == i1 :> h1 @@ i2 :> h1

Evm == i1 :> "evm"
TwoEvm == i1 :> "evm" @@ i2 :> "evm"

Symmetry == Permutations(Requests) \cup Permutations(Workers)
=============================================================================
