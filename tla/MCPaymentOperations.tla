------------------------ MODULE MCPaymentOperations ------------------------
(* Instances of PaymentOperations for TLC. *)
EXTENDS PaymentOperations, TLC

CONSTANTS k1, k2, k3, q1, q2

\* One payment and its quote.
OneQuote == k1 :> q1
Payout == q1 :> "offramp"

\* Two requests' worth of keys for one quote, and a third for another.
SharedQuote == k1 :> q1 @@ k2 :> q1 @@ k3 :> q2
Purchases == q1 :> "onramp" @@ q2 :> "onramp"

OddWords == {"AWAITING_DEPOSIT", "UNLISTED", "REVERSED"}
RaceWords == {"AWAITING_DEPOSIT", "PROCESSING", "EXPIRED"}
CeilingWords == {"AWAITING_DEPOSIT", "EXPIRED"}

Symmetry == Permutations(Requests) \cup Permutations(Workers)

\* So are, in SharedQuote, the keys of one quote.
StartSymmetry == Permutations(Requests) \cup Permutations({k1, k2})
=============================================================================
