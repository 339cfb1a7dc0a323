------------------------ MODULE ArcadeServices_proofs ------------------------
(***************************************************************************)
(* Theorems about the components of the arcade beside its rounds: deposits *)
(* with the ownership of wallets (ArcadeDeposits, WalletOwnership), a      *)
(* player's limits (ArcadeLimits) and chess matches (ChessMatches), for    *)
(* every value of their constants under their assumptions.                 *)
(***************************************************************************)
EXTENDS ArcadeDeposits, ArcadeLimits, ChessMatches, SumTheorems

-----------------------------------------------------------------------------
(* Who owns an address. *)

OwnershipShapes ==
    /\ challenge \in [Challenges -> ChallengeRows \cup {Nobody}]
    /\ owner \in [Addresses -> Users \cup {Nobody}]
    /\ answered \in [Users \X RegistrationKeys -> Answers \cup {Nobody}]
    /\ proofs \in [Challenges -> SUBSET (Users \X RegistrationKeys)]

\* Only a challenge that was consumed has proved anything.
ProofsConsume ==
    \A c \in Challenges : proofs[c] # {} => challenge[c] # Nobody /\ challenge[c].consumed

OwnershipInv == OwnershipShapes /\ ProofsConsume /\ OwnersHaveProved

LEMMA OwnershipStarts == OwnershipInit => OwnershipInv
  BY DEF OwnershipInit, OwnershipInv, OwnershipShapes, ProofsConsume, OwnersHaveProved

\* A challenge that is new, expires, or is failed is none that has proved anything.
LEMMA ChallengeKeeps ==
    ASSUME OwnershipInv, NEW c \in Challenges, NEW row \in ChallengeRows,
           proofs[c] = {}, challenge' = [challenge EXCEPT ![c] = row],
           UNCHANGED <<owner, answered, proofs>>
    PROVE  OwnershipInv'
<1>1. \A d \in Challenges : proofs[d] # {} => challenge'[d] = challenge[d]
  BY DEF OwnershipInv, OwnershipShapes
<1>2. OwnershipShapes' /\ ProofsConsume'
  BY <1>1 DEF OwnershipInv, OwnershipShapes, ProofsConsume
<1>3. ASSUME NEW b \in Addresses, owner[b] # Nobody
      PROVE  /\ b \in Signs[owner[b]]
             /\ \E d \in Challenges :
                   /\ \E l \in RegistrationKeys : proofs[d] = {<<owner[b], l>>}
                   /\ challenge'[d].address = b /\ challenge'[d].user = owner[b]
  <2>1. PICK d \in Challenges :
           /\ \E l \in RegistrationKeys : proofs[d] = {<<owner[b], l>>}
           /\ challenge[d].address = b /\ challenge[d].user = owner[b]
    BY <1>3 DEF OwnershipInv, OwnersHaveProved
  <2>2. proofs[d] # {}
    BY <2>1
  <2> QED BY <1>1, <1>3, <2>1, <2>2 DEF OwnershipInv, OwnersHaveProved
<1>4. OwnersHaveProved'
  BY <1>3 DEF OwnershipInv, OwnersHaveProved
<1> QED BY <1>2, <1>4 DEF OwnershipInv

\* A registration consumes a challenge that had proved nothing, and gives the address
\* to nobody but its owner.
LEMMA RegisterKeeps ==
    ASSUME OwnershipInv, NEW c \in Challenges, NEW u \in Users,
           NEW a \in Addresses, NEW k \in RegistrationKeys, Register(u, c, a, k)
    PROVE  OwnershipInv'
<1> DEFINE row == [challenge[c] EXCEPT !.consumed = TRUE]
           answer == [challenge |-> c, address |-> a]
<1>1. /\ challenge[c] \in ChallengeRows /\ ~challenge[c].consumed /\ proofs[c] = {}
      /\ challenge[c].user = u /\ challenge[c].address = a
      /\ a \in Signs[u] /\ owner[a] \in {u, Nobody}
  BY DEF Register, MayProve, Usable, FreeFor, Verifies, OwnershipInv, OwnershipShapes, ProofsConsume
<1>2. /\ row \in ChallengeRows /\ row # Nobody /\ row.consumed
      /\ row.user = u /\ row.address = a
  <2>1. row \in ChallengeRows
    BY <1>1 DEF ChallengeRows
  <2> QED BY <1>1, <2>1, DepositsAssumption, OwnershipAssumption DEF ChallengeRows
<1>3. answer \in Answers /\ answer # Nobody /\ answer.address = a
  <2>1. answer \in Answers
    BY DEF Answers
  <2> QED BY <2>1, DepositsAssumption, OwnershipAssumption
<1>4. /\ challenge' = [challenge EXCEPT ![c] = row]
      /\ owner' = [owner EXCEPT ![a] = u]
      /\ answered' = [answered EXCEPT ![<<u, k>>] = answer]
      /\ proofs' = [proofs EXCEPT ![c] = {<<u, k>>}]
  BY <1>1 DEF Register, OwnershipInv, OwnershipShapes
<1> HIDE DEF row, answer
<1>5. OwnershipShapes' /\ ProofsConsume'
  BY <1>2, <1>3, <1>4 DEF OwnershipInv, OwnershipShapes, ProofsConsume
<1>6. \A d \in Challenges : \A p, q \in proofs'[d] : p = q
  BY <1>4 DEF OwnershipInv, OwnershipShapes, OwnersHaveProved
<1>7. ASSUME NEW b \in Addresses, owner'[b] # Nobody
      PROVE  /\ b \in Signs[owner'[b]]
             /\ \E d \in Challenges :
                   /\ \E l \in RegistrationKeys : proofs'[d] = {<<owner'[b], l>>}
                   /\ challenge'[d].address = b /\ challenge'[d].user = owner'[b]
  <2>1. CASE b = a
    BY <1>1, <1>2, <1>4, <2>1 DEF OwnershipInv, OwnershipShapes
  <2>2. CASE b # a
    <3>1. owner'[b] = owner[b]
      BY <1>4, <2>2 DEF OwnershipInv, OwnershipShapes
    <3>2. PICK d \in Challenges :
             /\ \E l \in RegistrationKeys : proofs[d] = {<<owner[b], l>>}
             /\ challenge[d].address = b /\ challenge[d].user = owner[b]
      BY <1>7, <3>1 DEF OwnershipInv, OwnersHaveProved
    <3>3. d # c /\ proofs'[d] = proofs[d] /\ challenge'[d] = challenge[d]
      BY <1>1, <1>4, <3>2 DEF OwnershipInv, OwnershipShapes
    <3> QED BY <1>7, <3>1, <3>2, <3>3 DEF OwnershipInv, OwnersHaveProved
  <2> QED BY <2>1, <2>2
<1>8. ASSUME NEW v \in Users, NEW l \in RegistrationKeys, answered'[<<v, l>>] # Nobody
      PROVE  owner'[answered'[<<v, l>>].address] = v
  <2>1. CASE <<v, l>> = <<u, k>>
    BY <1>3, <1>4, <2>1 DEF OwnershipInv, OwnershipShapes
  <2>2. CASE <<v, l>> # <<u, k>>
    <3>1. answered'[<<v, l>>] = answered[<<v, l>>]
      BY <1>4, <2>2 DEF OwnershipInv, OwnershipShapes
    <3>2. answered[<<v, l>>] \in Answers /\ owner[answered[<<v, l>>].address] = v
      BY <1>8, <3>1 DEF OwnershipInv, OwnershipShapes, OwnersHaveProved
    <3>3. answered[<<v, l>>].address \in Addresses
      BY <3>2 DEF Answers
    <3> QED BY <1>1, <1>4, <3>1, <3>2, <3>3, DepositsAssumption, OwnershipAssumption
            DEF OwnershipInv, OwnershipShapes
  <2> QED BY <2>1, <2>2
<1> QED BY <1>5, <1>6, <1>7, <1>8 DEF OwnershipInv, OwnersHaveProved

LEMMA OwnershipKeeps ==
    ASSUME OwnershipInv, OwnershipNext
    PROVE  OwnershipInv' /\ \A a \in Addresses : owner[a] # Nobody => owner'[a] = owner[a]
<1>1. ASSUME NEW c \in Challenges, NEW u \in Users, NEW a \in Addresses, Challenge(c, u, a)
      PROVE  OwnershipInv' /\ UNCHANGED owner
  <2>1. [user |-> u, address |-> a, expired |-> FALSE, consumed |-> FALSE, failures |-> 0]
           \in ChallengeRows
    BY DEF ChallengeRows
  <2>2. proofs[c] = {}
    BY <1>1 DEF Challenge, OwnershipInv, ProofsConsume
  <2> QED BY <1>1, <2>1, <2>2, ChallengeKeeps DEF Challenge
<1>2. ASSUME NEW c \in Challenges, ChallengeExpires(c)
      PROVE  OwnershipInv' /\ UNCHANGED owner
  <2>1. challenge[c] \in ChallengeRows /\ proofs[c] = {}
    BY <1>2 DEF ChallengeExpires, OwnershipInv, OwnershipShapes, ProofsConsume
  <2>2. [challenge[c] EXCEPT !.expired = TRUE] \in ChallengeRows
    BY <2>1 DEF ChallengeRows
  <2> QED BY <1>2, <2>1, <2>2, ChallengeKeeps DEF ChallengeExpires
<1>3. ASSUME NEW c \in Challenges, NEW u \in Users, NEW a \in Addresses, NEW k \in RegistrationKeys,
             ProofFails(u, c, a, k)
      PROVE  OwnershipInv' /\ UNCHANGED owner
  <2>1. challenge[c] \in ChallengeRows /\ proofs[c] = {}
    BY <1>3 DEF ProofFails, MayProve, Usable, OwnershipInv, OwnershipShapes, ProofsConsume
  <2>2. [challenge[c] EXCEPT !.failures = challenge[c].failures + 1] \in ChallengeRows
    BY <2>1 DEF ChallengeRows
  <2> QED BY <1>3, <2>1, <2>2, ChallengeKeeps DEF ProofFails
<1>4. ASSUME NEW c \in Challenges, NEW u \in Users, NEW a \in Addresses, NEW k \in RegistrationKeys,
             Register(u, c, a, k)
      PROVE  OwnershipInv' /\ \A b \in Addresses : owner[b] # Nobody => owner'[b] = owner[b]
  <2>1. \A b \in Addresses : owner[b] # Nobody => owner'[b] = owner[b]
    BY <1>4 DEF Register, FreeFor, OwnershipInv, OwnershipShapes
  <2> QED BY <1>4, <2>1, RegisterKeeps
<1> QED BY <1>1, <1>2, <1>3, <1>4 DEF OwnershipNext

-----------------------------------------------------------------------------
(* What is credited. *)

Deposited == [status : {"none", "credited", "unattributed"}, user : Users \cup {Nobody}]

\* A scan found transfers of players among the transactions after its cursor.
DepositShapes ==
    /\ landed \in Seq(Addresses \cup {"other"}) /\ Len(landed) <= MaxTransfers
    /\ cursor \in 0..Len(landed)
    /\ deposit \in [1..MaxTransfers -> Deposited]
    /\ credited \in [Users -> Int]
    /\ scan = [w \in Watchers |-> scan[w]]
    /\ \A w \in Watchers : scan[w] # NoScan =>
          /\ scan[w].until \in 0..Len(landed) /\ scan[w].newest \in 0..Len(landed)
          /\ scan[w].found \subseteq {i \in 1..Len(landed) : landed[i] \in Addresses}
          /\ {"step", "until", "newest", "found"} \subseteq DOMAIN scan[w]

\* A credit went to the owner of the sender.
CreditsAreOwned ==
    \A i \in 1..MaxTransfers : deposit[i].status # "none" =>
        /\ i <= Len(landed) /\ landed[i] \in Addresses
        /\ deposit[i].status = "credited" =>
              deposit[i].user # Nobody /\ owner[landed[i]] = deposit[i].user

NetAmount == Gross - FeeOf(Gross)

CreditsAddUp == \A u \in Users : credited[u] = Cardinality(CreditedTo(u)) * NetAmount

Given(i) == i \in DOMAIN landed /\ landed[i] \in Addresses /\ i \notin unseen

\* Up to where it looks, what a scan was given is recorded or is still to be recorded
\* by it; and before it is answered it looks no farther than its cursor.
ScansMissNothing ==
    \A w \in Watchers : scan[w] # NoScan =>
        /\ \A i \in 1..scan[w].newest : Given(i) => i \in scan[w].found \/ deposit[i].status # "none"
        /\ scan[w].step = "list" => scan[w].found = {} /\ scan[w].newest = scan[w].until

CursorMissesNothing == \A i \in 1..cursor : Given(i) => deposit[i].status # "none"

CreditsInv ==
    DepositShapes /\ CreditsAreOwned /\ CreditsAddUp /\ ScansMissNothing /\ CursorMissesNothing

DepositsInv == OwnershipInv /\ CreditsInv

\* A set of positions that is not empty has a largest.
LEMMA MaxIsIn ==
    ASSUME NEW n \in Nat, NEW S \in SUBSET (1..n), S # {}
    PROVE  Max(S) \in S
<1> DEFINE T == {n - x : x \in S}
<1>1. T \subseteq Nat /\ T # {}
  <2>1. \A x \in S : n - x \in Nat
    OBVIOUS
  <2>2. PICK x \in S : TRUE
    OBVIOUS
  <2>3. n - x \in T
    BY <2>2
  <2> QED BY <2>1, <2>3
<1>2. PICK y \in T : \A z \in T : ~(<<z, y>> \in OpToRel(<, Nat))
  BY <1>1, WFMin, NatLessThanWellFounded
<1>3. \A z \in T : ~(z < y)
  BY <1>1, <1>2 DEF OpToRel
<1>4. PICK x \in S : y = n - x
  OBVIOUS
<1>5. ASSUME NEW z \in S
      PROVE  x >= z
  <2>1. n - z \in T
    BY <1>5
  <2>2. ~(n - z < n - x)
    BY <1>3, <1>4, <2>1
  <2>3. x \in Int /\ z \in Int
    BY <1>4, <1>5
  <2> HIDE DEF T
  <2> QED BY <2>2, <2>3
<1> QED BY <1>4, <1>5 DEF Max

\* One more of the same.
LEMMA OneMore ==
    ASSUME NEW n \in Nat, NEW k \in Int
    PROVE  (n + 1) * k = n * k + k
  OBVIOUS

LEMMA DepositsStart == DepositsInit => DepositsInv
<1> SUFFICES ASSUME DepositsInit PROVE DepositsInv
  OBVIOUS
<1>1. OwnershipInv
  BY OwnershipStarts DEF DepositsInit
<1>2. DepositShapes /\ CreditsAreOwned /\ ScansMissNothing /\ CursorMissesNothing
  BY DepositsAssumption DEF DepositsInit, DepositShapes, Deposited, CreditsAreOwned, ScansMissNothing,
         CursorMissesNothing
<1>3. CreditsAddUp
  <2>1. \A u \in Users : CreditedTo(u) = {} /\ credited[u] = 0
    BY DEF DepositsInit, CreditedTo
  <2>2. NetAmount \in Int
    BY DepositsAssumption DEF NetAmount, FeeOf
  <2>3. Cardinality({}) * NetAmount = 0
    BY <2>2, FS_EmptySet
  <2> QED BY <2>1, <2>3 DEF CreditsAddUp
<1> QED BY <1>1, <1>2, <1>3 DEF DepositsInv, CreditsInv

-----------------------------------------------------------------------------
(* Every step keeps it. *)

\* An account registers: who owns an address stays its owner.
LEMMA OwnershipStepKeeps ==
    ASSUME DepositsInv, OwnershipNext, UNCHANGED depositVars
    PROVE  DepositsInv'
<1>1. OwnershipInv' /\ \A a \in Addresses : owner[a] # Nobody => owner'[a] = owner[a]
  BY OwnershipKeeps DEF DepositsInv
<1>2. UNCHANGED <<landed, cursor, deposit, credited, scan, unseen>>
  BY DEF depositVars
<1>3. DepositShapes' /\ ScansMissNothing' /\ CursorMissesNothing'
  BY <1>2 DEF DepositsInv, CreditsInv, DepositShapes, ScansMissNothing, CursorMissesNothing, Given
<1>4. CreditsAreOwned'
  BY <1>1, <1>2 DEF DepositsInv, CreditsInv, CreditsAreOwned
<1>5. CreditsAddUp'
  BY <1>2 DEF DepositsInv, CreditsInv, CreditsAddUp, CreditedTo
<1> QED BY <1>1, <1>3, <1>4, <1>5 DEF DepositsInv, CreditsInv

\* A transaction lands: it is beyond what any scan or the cursor has reached.
LEMMA LandsKeeps ==
    ASSUME DepositsInv, NEW sender \in Addresses \cup {"other"}, Lands(sender),
           UNCHANGED ownershipVars
    PROVE  DepositsInv'
<1>1. /\ landed' \in Seq(Addresses \cup {"other"}) /\ Len(landed') = Len(landed) + 1
      /\ Len(landed) \in Nat /\ \A i \in 1..Len(landed) : landed'[i] = landed[i]
      /\ Len(landed') <= MaxTransfers
  BY DepositsAssumption DEF Lands, DepositsInv, CreditsInv, DepositShapes
<1>2. UNCHANGED <<cursor, deposit, credited, scan, unseen, owner>>
  BY DEF Lands, ownershipVars
<1>3. DepositShapes'
  <2>1. cursor' \in 0..Len(landed')
    BY <1>1, <1>2 DEF DepositsInv, CreditsInv, DepositShapes
  <2>2. ASSUME NEW w \in Watchers, scan[w] # NoScan
        PROVE  /\ scan[w].until \in 0..Len(landed') /\ scan[w].newest \in 0..Len(landed')
               /\ scan[w].found \subseteq {i \in 1..Len(landed') : landed'[i] \in Addresses}
               /\ {"step", "until", "newest", "found"} \subseteq DOMAIN scan[w]
    <3>1. /\ scan[w].until \in 0..Len(landed) /\ scan[w].newest \in 0..Len(landed)
          /\ {"step", "until", "newest", "found"} \subseteq DOMAIN scan[w]
      BY <2>2 DEF DepositsInv, CreditsInv, DepositShapes
    <3>2. \A i \in scan[w].found : i \in 1..Len(landed) /\ landed[i] \in Addresses
      BY <2>2 DEF DepositsInv, CreditsInv, DepositShapes
    <3>3. \A i \in scan[w].found : i \in 1..Len(landed') /\ landed'[i] \in Addresses
      BY <1>1, <3>2
    <3> QED BY <1>1, <3>1, <3>3
  <2> QED BY <1>1, <1>2, <2>1, <2>2 DEF DepositsInv, CreditsInv, DepositShapes
<1>4. CreditsAreOwned'
  BY <1>1, <1>2, DepositsAssumption DEF DepositsInv, CreditsInv, CreditsAreOwned
<1>5. CreditsAddUp'
  BY <1>2 DEF DepositsInv, CreditsInv, CreditsAddUp, CreditedTo
<1>6. \A i \in 1..Len(landed) : Given(i)' <=> Given(i)
  BY <1>1, <1>2 DEF Given, DepositsInv, CreditsInv, DepositShapes
<1>7. ScansMissNothing' /\ CursorMissesNothing'
  BY <1>1, <1>2, <1>6 DEF DepositsInv, CreditsInv, DepositShapes, ScansMissNothing, CursorMissesNothing
<1>8. OwnershipInv'
  BY DEF DepositsInv, OwnershipInv, ownershipVars, OwnershipShapes, ProofsConsume, OwnersHaveProved
<1> QED BY <1>3, <1>4, <1>5, <1>7, <1>8 DEF DepositsInv, CreditsInv

\* A step of one scan that leaves the rows, the cursor and what has landed.
LEMMA ScanKeeps ==
    ASSUME DepositsInv, NEW w \in Watchers, UNCHANGED ownershipVars, unseen \subseteq unseen',
           UNCHANGED <<landed, deposit, credited>>, cursor' \in 0..Len(landed),
           \A i \in 1..cursor' : Given(i)' => deposit[i].status # "none",
           NEW row, scan' = [scan EXCEPT ![w] = row],
           row # NoScan =>
              /\ row.until \in 0..Len(landed) /\ row.newest \in 0..Len(landed)
              /\ row.found \subseteq {i \in 1..Len(landed) : landed[i] \in Addresses}
              /\ {"step", "until", "newest", "found"} \subseteq DOMAIN row
              /\ \A i \in 1..row.newest : Given(i)' => i \in row.found \/ deposit[i].status # "none"
              /\ row.step = "list" => row.found = {} /\ row.newest = row.until
    PROVE  DepositsInv'
<1>1. \A i : Given(i)' => Given(i)
  BY DEF Given
<1>2. \A v \in Watchers : scan'[v] = row \/ scan'[v] = scan[v]
  BY DEF DepositsInv, CreditsInv, DepositShapes
<1>3. DepositShapes'
  BY <1>2 DEF DepositsInv, CreditsInv, DepositShapes
<1>4. ScansMissNothing'
  BY <1>1, <1>2 DEF DepositsInv, CreditsInv, ScansMissNothing
<1>5. CursorMissesNothing'
  BY DEF CursorMissesNothing
<1>6. CreditsAddUp'
  BY DEF DepositsInv, CreditsInv, CreditsAddUp, CreditedTo
<1>7. CreditsAreOwned'
  BY DEF DepositsInv, CreditsInv, CreditsAreOwned, ownershipVars
<1>8. OwnershipInv'
  BY DEF DepositsInv, OwnershipInv, ownershipVars, OwnershipShapes, ProofsConsume, OwnersHaveProved
<1> QED BY <1>3, <1>4, <1>5, <1>6, <1>7, <1>8 DEF DepositsInv, CreditsInv

LEMMA ScanStartsKeeps ==
    ASSUME DepositsInv, NEW w \in Watchers, ScanStarts(w), UNCHANGED ownershipVars
    PROVE  DepositsInv'
<1> DEFINE row == [step |-> "list", until |-> cursor, newest |-> cursor, found |-> {}]
<1>1. /\ row.until = cursor /\ row.newest = cursor /\ row.found = {} /\ cursor \in 0..Len(landed)
      /\ {"step", "until", "newest", "found"} \subseteq DOMAIN row
  BY DEF DepositsInv, CreditsInv, DepositShapes
<1>2. /\ scan' = [scan EXCEPT ![w] = row]
      /\ UNCHANGED <<landed, cursor, deposit, credited, unseen>>
  BY DEF ScanStarts
<1>3. \A i \in 1..cursor : Given(i)' => deposit[i].status # "none"
  BY <1>2 DEF DepositsInv, CreditsInv, CursorMissesNothing, Given
<1> HIDE DEF row
<1> QED BY <1>1, <1>2, <1>3, ScanKeeps

\* The row of a scan that was answered
LEMMA ScanListsRow ==
    ASSUME DepositsInv, NEW w \in Watchers, ScanLists(w)
    PROVE  LET old == scan[w]
               until == old.until
               listed == Listed(until)
               newest == IF listed = {} THEN old.newest ELSE Len(landed)
           IN  /\ old # NoScan /\ old.step = "list" /\ Len(landed) \in Nat
               /\ old.until \in 0..Len(landed) /\ old.newest = old.until
               /\ landed \in Seq(Addresses \cup {"other"})
               /\ UNCHANGED <<landed, cursor, deposit, credited>>
               /\ \E absent, row :
                     /\ absent \in SUBSET listed
                     /\ unseen' = unseen \cup absent \cup ((until + 1 .. Len(landed)) \ listed)
                     /\ row.step = "record" /\ row.newest = newest
                     /\ row.found = {i \in listed \ absent : IsTransfer(i)}
                     /\ row.until = until /\ {"step", "until", "newest", "found"} \subseteq DOMAIN row
                     /\ scan' = [scan EXCEPT ![w] = row]
<1> DEFINE old == scan[w]
<1>1. /\ old # NoScan /\ old.step = "list" /\ Len(landed) \in Nat
      /\ old.until \in 0..Len(landed) /\ old.newest = old.until
      /\ {"step", "until", "newest", "found"} \subseteq DOMAIN old
      /\ UNCHANGED <<landed, cursor, deposit, credited>>
      /\ landed \in Seq(Addresses \cup {"other"})
  <2>1. old # NoScan /\ old.step = "list" /\ UNCHANGED <<landed, cursor, deposit, credited>>
    BY DEF ScanLists, ScanAt
  <2>2. landed \in Seq(Addresses \cup {"other"}) /\ Len(landed) \in Nat
    BY DEF DepositsInv, CreditsInv, DepositShapes
  <2>3. old.until \in 0..Len(landed) /\ {"step", "until", "newest", "found"} \subseteq DOMAIN old
    BY <2>1 DEF DepositsInv, CreditsInv, DepositShapes
  <2>4. old.newest = old.until
    BY <2>1 DEF DepositsInv, CreditsInv, ScansMissNothing
  <2> QED BY <2>1, <2>2, <2>3, <2>4
<1> DEFINE until == old.until
           listed == Listed(until)
           newest == IF listed = {} THEN old.newest ELSE Len(landed)
<1>2. PICK absent \in SUBSET listed :
         /\ scan' = [scan EXCEPT ![w].step = "record",
                        ![w].newest = IF listed = {} THEN @ ELSE Len(landed),
                        ![w].found = {i \in listed \ absent : IsTransfer(i)}]
         /\ unseen' = unseen \cup absent \cup ((until + 1 .. Len(landed)) \ listed)
  BY DEF ScanLists
<1> DEFINE found == {i \in listed \ absent : IsTransfer(i)}
<1>3. PICK row :
         /\ row.step = "record" /\ row.newest = newest /\ row.found = found
         /\ row.until = until /\ {"step", "until", "newest", "found"} \subseteq DOMAIN row
         /\ scan' = [scan EXCEPT ![w] = row]
  <2> HIDE DEF found, listed
  <2>1. PICK row : row = scan'[w]
    OBVIOUS
  <2>2. scan = [v \in Watchers |-> scan[v]]
    BY DEF DepositsInv, CreditsInv, DepositShapes
  <2>3. scan' = [scan EXCEPT ![w] = row]
    BY <1>2, <2>1, <2>2
  <2>4. row = [old EXCEPT !.step = "record", !.newest = newest, !.found = found]
    BY <1>2, <2>1, <2>2 DEF found
  <2>5. /\ row.step = "record" /\ row.newest = newest /\ row.found = found
        /\ row.until = until /\ {"step", "until", "newest", "found"} \subseteq DOMAIN row
    <3> HIDE DEF newest
    <3> QED BY <1>1, <2>4
  <2> QED BY <2>3, <2>5
<1>4. \E b, r :
         /\ b \in SUBSET listed
         /\ unseen' = unseen \cup b \cup ((until + 1 .. Len(landed)) \ listed)
         /\ r.step = "record" /\ r.newest = newest
         /\ r.found = {i \in listed \ b : IsTransfer(i)}
         /\ r.until = until /\ {"step", "until", "newest", "found"} \subseteq DOMAIN r
         /\ scan' = [scan EXCEPT ![w] = r]
  <2> HIDE DEF listed, newest, until
  <2> QED BY <1>2, <1>3
<1> QED BY <1>1, <1>4

\* What is listed is found, or was no transfer of a player, or was not given.
LEMMA ScanListsKeeps ==
    ASSUME DepositsInv, NEW w \in Watchers, ScanLists(w), UNCHANGED ownershipVars
    PROVE  DepositsInv'
<1> DEFINE old == scan[w]
<1> DEFINE until == old.until
           listed == Listed(until)
           newest == IF listed = {} THEN old.newest ELSE Len(landed)
<1>1. /\ old # NoScan /\ old.step = "list" /\ Len(landed) \in Nat
      /\ old.until \in 0..Len(landed) /\ old.newest = old.until
      /\ UNCHANGED <<landed, cursor, deposit, credited>>
      /\ landed \in Seq(Addresses \cup {"other"})
  BY ScanListsRow
<1>2. PICK absent, row :
         /\ absent \in SUBSET listed
         /\ unseen' = unseen \cup absent \cup ((until + 1 .. Len(landed)) \ listed)
         /\ row.step = "record" /\ row.newest = newest
         /\ row.found = {i \in listed \ absent : IsTransfer(i)}
         /\ row.until = until /\ {"step", "until", "newest", "found"} \subseteq DOMAIN row
         /\ scan' = [scan EXCEPT ![w] = row]
  BY ScanListsRow
<1> DEFINE found == {i \in listed \ absent : IsTransfer(i)}
<1>3. /\ row.step = "record" /\ row.newest = newest /\ row.found = found
      /\ row.until = until /\ {"step", "until", "newest", "found"} \subseteq DOMAIN row
      /\ scan' = [scan EXCEPT ![w] = row]
  BY <1>2
<1>4. listed \subseteq until + 1 .. Len(landed) /\ until \in 0..Len(landed)
  BY <1>1 DEF Listed
<1>5. found \subseteq {i \in 1..Len(landed) : landed[i] \in Addresses}
  <2>1. ASSUME NEW i \in found
        PROVE  i \in 1..Len(landed) /\ landed[i] \in Addresses
    <3>1. i \in 1..Len(landed) /\ landed[i] # "other"
      <4> HIDE DEF until, listed
      <4> QED BY <1>1, <1>4, <2>1 DEF IsTransfer
    <3> QED BY <1>1, <3>1
  <2> QED BY <2>1
<1>6. newest \in 0..Len(landed)
  BY <1>1, <1>4
<1>7. \A i \in 1..cursor : Given(i)' => deposit[i].status # "none"
  BY <1>1, <1>2 DEF DepositsInv, CreditsInv, CursorMissesNothing, Given
<1>8. ASSUME NEW i \in 1..newest, Given(i)'
      PROVE  i \in found \/ deposit[i].status # "none"
  <2>1. Given(i) /\ i \notin absent /\ i \notin (until + 1 .. Len(landed)) \ listed
    BY <1>1, <1>2, <1>8 DEF Given
  <2>2. CASE i <= until
    <3>1. i \in 1..old.newest /\ old.found = {}
      <4>1. old.found = {}
        BY <1>1 DEF DepositsInv, CreditsInv, ScansMissNothing
      <4>2. i \in Nat /\ i >= 1
        BY <1>1, <1>6, <1>8
      <4> QED BY <1>1, <2>2, <4>1, <4>2
    <3> QED BY <1>1, <2>1, <3>1 DEF DepositsInv, CreditsInv, ScansMissNothing
  <2>3. CASE ~(i <= until)
    <3>1. i \in until + 1 .. Len(landed)
      BY <1>1, <1>6, <1>8, <2>3
    <3>2. i \in listed \ absent
      BY <2>1, <3>1
    <3> QED BY <2>1, <3>2, DepositsAssumption DEF Given, IsTransfer
  <2> QED BY <2>2, <2>3
<1>9. unseen \subseteq unseen'
  BY <1>2
<1>10. cursor' \in 0..Len(landed) /\ \A i \in 1..cursor' : Given(i)' => deposit[i].status # "none"
  BY <1>1, <1>7 DEF DepositsInv, CreditsInv, DepositShapes
<1> HIDE DEF newest, found, old, until, listed
<1> QED BY <1>1, <1>3, <1>4, <1>5, <1>6, <1>8, <1>9, <1>10, ScanKeeps

\* The cursor is set when all that was found is recorded.
LEMMA ScanEndsKeeps ==
    ASSUME DepositsInv, NEW w \in Watchers, ScanEnds(w), UNCHANGED ownershipVars
    PROVE  DepositsInv'
<1>1. /\ scan' = [scan EXCEPT ![w] = NoScan] /\ cursor' = scan[w].newest
      /\ UNCHANGED <<landed, deposit, credited, unseen>>
      /\ scan[w] # NoScan /\ scan[w].found = {} /\ cursor' \in 0..Len(landed)
  BY DEF ScanEnds, ScanAt, AllRecorded, DepositsInv, CreditsInv, DepositShapes
<1>2. \A i \in 1..cursor' : Given(i)' => deposit[i].status # "none"
  BY <1>1 DEF DepositsInv, CreditsInv, ScansMissNothing, Given
<1> QED BY <1>1, <1>2, ScanKeeps

LEMMA ScanFailsKeeps ==
    ASSUME DepositsInv, NEW w \in Watchers, ScanFails(w), UNCHANGED ownershipVars
    PROVE  DepositsInv'
<1>1. /\ scan' = [scan EXCEPT ![w] = NoScan] /\ cursor' \in 0..Len(landed)
      /\ UNCHANGED <<landed, cursor, deposit, credited, unseen>>
  BY DEF ScanFails, DepositsInv, CreditsInv, DepositShapes
<1>2. \A i \in 1..cursor' : Given(i)' => deposit[i].status # "none"
  BY <1>1 DEF DepositsInv, CreditsInv, CursorMissesNothing, Given
<1> QED BY <1>1, <1>2, ScanKeeps

\* A transfer that is recorded is credited to the owner of its sender, if he has one,
\* and to nobody else; one that was recorded already is left.
LEMMA RecordKeeps ==
    ASSUME DepositsInv, NEW w \in Watchers, Record(w), UNCHANGED ownershipVars
    PROVE  DepositsInv'
<1>1. PICK i \in 1..MaxTransfers, u \in Users \cup {Nobody} :
         /\ i = Max(scan[w].found) /\ i \in scan[w].found /\ u = owner[landed[i]]
         /\ i <= Len(landed) /\ landed[i] \in Addresses
  <2>1. /\ scan[w] # NoScan /\ scan[w].found # {} /\ Len(landed) \in Nat /\ Len(landed) <= MaxTransfers
        /\ scan[w].found \subseteq {i \in 1..Len(landed) : landed[i] \in Addresses}
    BY DEF Record, ScanAt, DepositsInv, CreditsInv, DepositShapes
  <2>2. Max(scan[w].found) \in scan[w].found
    BY <2>1, MaxIsIn
  <2>3. PICK i : i = Max(scan[w].found)
    OBVIOUS
  <2>4. i \in 1..MaxTransfers /\ i <= Len(landed) /\ landed[i] \in Addresses
    BY <2>1, <2>2, <2>3, DepositsAssumption
  <2>5. owner[landed[i]] \in Users \cup {Nobody}
    BY <2>4 DEF DepositsInv, OwnershipInv, OwnershipShapes
  <2> QED BY <2>2, <2>3, <2>4, <2>5
<1>2. /\ UNCHANGED <<landed, cursor, unseen>>
      /\ scan' = [scan EXCEPT ![w].found = scan[w].found \ {i}]
  BY <1>1 DEF Record
<1>3. PICK row :
         /\ scan' = [scan EXCEPT ![w] = row]
         /\ row.until = scan[w].until /\ row.newest = scan[w].newest /\ row.step = "record"
         /\ row.found = scan[w].found \ {i}
         /\ {"step", "until", "newest", "found"} \subseteq DOMAIN row
  <2>1. PICK row : row = [scan[w] EXCEPT !.found = scan[w].found \ {i}]
    OBVIOUS
  <2>2. scan[w].step = "record" /\ {"step", "until", "newest", "found"} \subseteq DOMAIN scan[w]
    BY DEF Record, ScanAt, DepositsInv, CreditsInv, DepositShapes
  <2> QED BY <1>2, <2>1, <2>2
<1>4. scan[w] # NoScan /\ scan[w].until \in 0..Len(landed) /\ scan[w].newest \in 0..Len(landed)
      /\ scan[w].found \subseteq {j \in 1..Len(landed) : landed[j] \in Addresses}
  BY DEF Record, ScanAt, DepositsInv, CreditsInv, DepositShapes
<1>5. \A j : Given(j)' <=> Given(j)
  BY <1>2 DEF Given
<1>6. \A j \in 1..scan[w].newest : Given(j) => j \in scan[w].found \/ deposit[j].status # "none"
  BY <1>4 DEF DepositsInv, CreditsInv, ScansMissNothing
<1>7. CASE ~NotRecorded(i)
  <2>1. UNCHANGED <<deposit, credited>> /\ deposit[i].status # "none"
    BY <1>1, <1>7 DEF Record, NotRecorded
  <2>2. \A j \in 1..row.newest : Given(j)' => j \in row.found \/ deposit[j].status # "none"
    BY <1>3, <1>5, <1>6, <2>1
  <2>3. cursor' \in 0..Len(landed) /\ \A j \in 1..cursor' : Given(j)' => deposit[j].status # "none"
    BY <1>2, <1>5 DEF DepositsInv, CreditsInv, DepositShapes, CursorMissesNothing
  <2>4. row.found \subseteq {j \in 1..Len(landed) : landed[j] \in Addresses}
    BY <1>3, <1>4
  <2> QED BY <1>2, <1>3, <1>4, <2>1, <2>2, <2>3, <2>4, ScanKeeps
<1>8. CASE NotRecorded(i)
  <2> DEFINE new == [status |-> IF u = Nobody THEN "unattributed" ELSE "credited", user |-> u]
  <2>1. /\ deposit' = [deposit EXCEPT ![i] = new]
        /\ credited' = IF u = Nobody THEN credited
                       ELSE [credited EXCEPT ![u] = credited[u] + Gross - FeeOf(Gross)]
        /\ deposit[i].status = "none"
    BY <1>1, <1>8 DEF Record, NotRecorded
  <2>2. new \in Deposited /\ new.status # "none" /\ new.user = u
        /\ (new.status = "credited" <=> u # Nobody)
    BY <1>1 DEF Deposited
  <2> HIDE DEF new
  <2>3. /\ deposit' \in [1..MaxTransfers -> Deposited] /\ deposit'[i] = new
        /\ \A j \in 1..MaxTransfers : j # i => deposit'[j] = deposit[j]
    BY <1>1, <2>1, <2>2 DEF DepositsInv, CreditsInv, DepositShapes
  <2>4. NetAmount \in Int /\ credited \in [Users -> Int]
    BY DepositsAssumption DEF NetAmount, FeeOf, DepositsInv, CreditsInv, DepositShapes
  <2>5. credited' = IF u = Nobody THEN credited ELSE [credited EXCEPT ![u] = credited[u] + NetAmount]
    BY <2>1, <2>4, DepositsAssumption DEF NetAmount, FeeOf
  <2>6. DepositShapes'
    <3>1. credited' \in [Users -> Int]
      BY <2>4, <2>5
    <3>2. scan' = [v \in Watchers |-> scan'[v]] /\ \A v \in Watchers : scan'[v] = row \/ scan'[v] = scan[v]
      BY <1>3 DEF DepositsInv, CreditsInv, DepositShapes
    <3>3. row.found \subseteq {j \in 1..Len(landed) : landed[j] \in Addresses}
      BY <1>3, <1>4
    <3>4. landed' = landed /\ cursor' = cursor
      BY <1>2
    <3> QED BY <1>3, <1>4, <2>3, <3>1, <3>2, <3>3, <3>4 DEF DepositsInv, CreditsInv, DepositShapes
  <2>7. CreditsAreOwned'
    <3>1. landed' = landed /\ owner' = owner
      BY <1>2 DEF ownershipVars
    <3> QED BY <1>1, <2>2, <2>3, <3>1 DEF DepositsInv, CreditsInv, CreditsAreOwned
  <2>8. \A j \in 1..MaxTransfers : deposit[j].status # "none" => deposit'[j].status # "none"
    BY <2>1, <2>3
  <2>9. ScansMissNothing'
    <3>1. \A v \in Watchers : scan'[v] = scan[v] \/ (scan'[v] = row /\ v = w)
      BY <1>3 DEF DepositsInv, CreditsInv, DepositShapes
    <3>2. \A v \in Watchers : scan[v] # NoScan => scan[v].newest \in 0..MaxTransfers
      BY DepositsAssumption DEF DepositsInv, CreditsInv, DepositShapes
    <3>3. ASSUME NEW j \in 1..row.newest, Given(j)
          PROVE  j \in row.found \/ deposit'[j].status # "none"
      <4>1. j \in 1..scan[w].newest /\ j \in 1..MaxTransfers
        <5>1. scan[w].newest \in 0..MaxTransfers /\ MaxTransfers \in Nat
          BY <1>4, <3>2, DepositsAssumption
        <5>2. j \in 1..scan[w].newest
          BY <1>3, <3>3
        <5> QED BY <5>1, <5>2
      <4>2. CASE j = i
        BY <2>2, <2>3, <4>2
      <4>3. CASE j # i
        BY <1>3, <1>6, <2>8, <3>3, <4>1, <4>3
      <4> QED BY <4>2, <4>3
    <3>4. ASSUME NEW v \in Watchers, scan'[v] # NoScan
          PROVE  /\ \A j \in 1..scan'[v].newest :
                       Given(j) => j \in scan'[v].found \/ deposit'[j].status # "none"
                 /\ scan'[v].step = "list" => scan'[v].found = {} /\ scan'[v].newest = scan'[v].until
      <4>1. CASE scan'[v] = row
        BY <1>3, <3>3, <4>1
      <4>2. CASE scan'[v] = scan[v]
        <5>1. \A j \in 1..scan[v].newest : j \in 1..MaxTransfers
          BY <3>2, <3>4, <4>2, DepositsAssumption
        <5> QED BY <2>8, <3>4, <4>2, <5>1 DEF DepositsInv, CreditsInv, ScansMissNothing
      <4> QED BY <3>1, <4>1, <4>2
    <3> QED BY <1>5, <3>4 DEF ScansMissNothing
  <2>10. CursorMissesNothing'
    <3>1. \A j \in 1..cursor : j \in 1..MaxTransfers
      BY DepositsAssumption DEF DepositsInv, CreditsInv, DepositShapes
    <3>2. cursor' = cursor
      BY <1>2
    <3> QED BY <1>5, <2>8, <3>1, <3>2 DEF DepositsInv, CreditsInv, CursorMissesNothing
  <2>11. CreditsAddUp'
    <3>1. ASSUME NEW v \in Users
          PROVE  credited'[v] = Cardinality(CreditedTo(v)') * NetAmount
      <4>1. /\ CreditedTo(v) \in SUBSET (1..MaxTransfers) /\ i \notin CreditedTo(v)
            /\ credited[v] = Cardinality(CreditedTo(v)) * NetAmount
        BY <2>1 DEF CreditedTo, DepositsInv, CreditsInv, CreditsAddUp
      <4>2. IsFiniteSet(CreditedTo(v)) /\ Cardinality(CreditedTo(v)) \in Nat
        <5>1. IsFiniteSet(1..MaxTransfers)
          BY FS_Interval, DepositsAssumption
        <5>2. IsFiniteSet(CreditedTo(v))
          BY <4>1, <5>1, FS_Subset
        <5> QED BY <5>2, FS_CardinalityType
      <4>3. CASE u = v
        <5>1. u # Nobody
          BY <4>3, DepositsAssumption, OwnershipAssumption
        <5>2. CreditedTo(v)' = CreditedTo(v) \cup {i}
          BY <2>3, <4>3, <5>1 DEF CreditedTo, new
        <5>3. Cardinality(CreditedTo(v)') = Cardinality(CreditedTo(v)) + 1
          BY <4>1, <4>2, <5>2, FS_AddElement
        <5>4. credited'[v] = credited[v] + NetAmount
          BY <2>4, <2>5, <4>3, <5>1
        <5> QED BY <2>4, <4>1, <4>2, <5>3, <5>4, OneMore
      <4>4. CASE u # v
        <5>1. CreditedTo(v)' = CreditedTo(v)
          BY <2>1, <2>2, <2>3, <4>4 DEF CreditedTo
        <5>2. credited'[v] = credited[v]
          BY <2>4, <2>5, <4>4
        <5> QED BY <4>1, <5>1, <5>2
      <4> QED BY <4>3, <4>4
    <3> QED BY <3>1 DEF CreditsAddUp, NetAmount, FeeOf
  <2>12. OwnershipInv'
    BY DEF DepositsInv, OwnershipInv, ownershipVars, OwnershipShapes, ProofsConsume, OwnersHaveProved
  <2> QED BY <2>6, <2>7, <2>9, <2>10, <2>11, <2>12 DEF DepositsInv, CreditsInv
<1> QED BY <1>7, <1>8

LEMMA DepositsStepKeeps ==
    ASSUME DepositsInv, [DepositsNext]_moneyInVars
    PROVE  DepositsInv'
<1>1. CASE UNCHANGED moneyInVars
  <2>1. UNCHANGED <<challenge, owner, answered, proofs, landed, cursor, deposit, credited, scan, unseen>>
    BY <1>1 DEF moneyInVars, ownershipVars, depositVars
  <2>2. OwnershipInv'
    BY <2>1 DEF DepositsInv, OwnershipInv, OwnershipShapes, ProofsConsume, OwnersHaveProved
  <2>3. DepositShapes' /\ CreditsAreOwned' /\ ScansMissNothing' /\ CursorMissesNothing'
    BY <2>1 DEF DepositsInv, CreditsInv, DepositShapes, CreditsAreOwned, ScansMissNothing,
                CursorMissesNothing, Given
  <2>4. CreditsAddUp'
    BY <2>1 DEF DepositsInv, CreditsInv, CreditsAddUp, CreditedTo
  <2> QED BY <2>2, <2>3, <2>4 DEF DepositsInv, CreditsInv
<1> QED
  BY <1>1, OwnershipStepKeeps, LandsKeeps, ScanStartsKeeps, ScanListsKeeps, RecordKeeps,
     ScanEndsKeeps, ScanFailsKeeps DEF DepositsNext, WatcherStep

-----------------------------------------------------------------------------
(* The theorems. *)

\* DepositsInv holds in every behaviour.
THEOREM DepositsInvariant == DepositsSpec => []DepositsInv
  BY DepositsStart, DepositsStepKeeps, PTL DEF DepositsSpec

\* What DepositsTypeOK says beyond the invariant: a challenge survives no more failed
\* proofs than it may, and a scan looks between its cursor and its newest transaction.
ScanFits(s) == s.until <= s.newest /\ s.found \subseteq s.until + 1 .. s.newest

CountsAndScansFit ==
    /\ \A c \in Challenges : challenge[c] # Nobody => challenge[c].failures <= MaxFailedProofs
    /\ \A w \in Watchers : scan[w] # NoScan => ScanFits(scan[w])

LEMMA FailuresFit ==
    ASSUME DepositsInv, CountsAndScansFit, OwnershipNext, NEW d \in Challenges, challenge'[d] # Nobody
    PROVE  challenge'[d].failures <= MaxFailedProofs
<1>1. \A c \in Challenges : challenge[c] # Nobody =>
         challenge[c] \in ChallengeRows /\ challenge[c].failures \in Nat
               /\ challenge[c].failures <= MaxFailedProofs
  BY DEF DepositsInv, OwnershipInv, OwnershipShapes, ChallengeRows, CountsAndScansFit
<1>2. DOMAIN challenge = Challenges /\ MaxFailedProofs \in Nat
  BY OwnershipAssumption DEF DepositsInv, OwnershipInv, OwnershipShapes
<1>3. ASSUME NEW c \in Challenges, NEW u \in Users, NEW a \in Addresses, Challenge(c, u, a)
      PROVE  challenge'[d].failures <= MaxFailedProofs
  BY <1>1, <1>2, <1>3 DEF Challenge
<1>4. ASSUME NEW c \in Challenges, ChallengeExpires(c)
      PROVE  challenge'[d].failures <= MaxFailedProofs
  BY <1>1, <1>2, <1>4 DEF ChallengeExpires, ChallengeRows
<1>5. ASSUME NEW c \in Challenges, NEW u \in Users, NEW a \in Addresses, NEW k \in RegistrationKeys,
             ProofFails(u, c, a, k)
      PROVE  challenge'[d].failures <= MaxFailedProofs
  <2>1. /\ challenge[c] \in ChallengeRows /\ challenge[c].failures \in Nat
        /\ challenge[c].failures < MaxFailedProofs
        /\ challenge' = [challenge EXCEPT ![c].failures = challenge[c].failures + 1]
    BY <1>1, <1>5 DEF ProofFails, MayProve, Usable
  <2>2. CASE d = c
    <3>1. challenge'[d].failures = challenge[c].failures + 1
      BY <1>2, <2>1, <2>2 DEF ChallengeRows
    <3> QED BY <1>2, <2>1, <3>1
  <2>3. CASE d # c
    BY <1>1, <1>2, <2>1, <2>3
  <2> QED BY <2>2, <2>3
<1>6. ASSUME NEW c \in Challenges, NEW u \in Users, NEW a \in Addresses, NEW k \in RegistrationKeys,
             Register(u, c, a, k)
      PROVE  challenge'[d].failures <= MaxFailedProofs
  <2>1. challenge[c] \in ChallengeRows /\ challenge' = [challenge EXCEPT ![c].consumed = TRUE]
    BY <1>1, <1>6 DEF Register, MayProve
  <2>2. CASE d = c
    <3>1. challenge'[d] = [challenge[c] EXCEPT !.consumed = TRUE]
      BY <1>2, <2>1, <2>2
    <3>2. challenge'[d].failures = challenge[c].failures
      BY <2>1, <3>1 DEF ChallengeRows
    <3>3. challenge[c].failures <= MaxFailedProofs
      BY <1>1, <1>6 DEF Register, MayProve
    <3> QED BY <3>2, <3>3
  <2>3. CASE d # c
    <3>1. challenge'[d] = challenge[d]
      BY <1>2, <2>1, <2>3
    <3> QED BY <1>1, <3>1
  <2> QED BY <2>2, <2>3
<1> QED BY <1>3, <1>4, <1>5, <1>6 DEF OwnershipNext

\* A scan that was answered looks from its cursor to the newest transaction there is.
LEMMA ScanListsFits ==
    ASSUME DepositsInv, CountsAndScansFit, NEW w \in Watchers, ScanLists(w)
    PROVE  \E row : ScanFits(row) /\ scan' = [scan EXCEPT ![w] = row]
<1> DEFINE until == scan[w].until
           listed == Listed(until)
           newest == IF listed = {} THEN scan[w].newest ELSE Len(landed)
<1>1. /\ Len(landed) \in Nat /\ until \in 0..Len(landed) /\ scan[w].newest = until
  BY ScanListsRow
<1>2. PICK absent, row :
         /\ absent \in SUBSET listed
         /\ unseen' = unseen \cup absent \cup ((until + 1 .. Len(landed)) \ listed)
         /\ row.step = "record" /\ row.newest = newest
         /\ row.found = {i \in listed \ absent : IsTransfer(i)}
         /\ row.until = until /\ {"step", "until", "newest", "found"} \subseteq DOMAIN row
         /\ scan' = [scan EXCEPT ![w] = row]
  BY ScanListsRow
<1>3. row.found \subseteq listed /\ listed \subseteq until + 1 .. Len(landed)
  BY <1>2 DEF Listed
<1>4. until <= newest /\ row.found \subseteq until + 1 .. newest
  BY <1>1, <1>3
<1>5. ScanFits(row)
  <2> HIDE DEF newest, until
  <2> QED BY <1>2, <1>4 DEF ScanFits
<1> QED BY <1>2, <1>5

LEMMA ScansFit ==
    ASSUME DepositsInv, CountsAndScansFit, NEW w \in Watchers, WatcherStep(w) \/ ScanFails(w)
    PROVE  \A v \in Watchers : scan'[v] # NoScan => ScanFits(scan'[v])
<1>1. /\ scan = [v \in Watchers |-> scan[v]] /\ cursor \in Nat /\ Len(landed) \in Nat
      /\ \A v \in Watchers : scan[v] # NoScan =>
            /\ ScanFits(scan[v]) /\ scan[v].until \in 0..Len(landed)
            /\ scan[v].newest \in 0..Len(landed)
            /\ {"step", "until", "newest", "found"} \subseteq DOMAIN scan[v]
  BY DEF DepositsInv, CreditsInv, DepositShapes, CountsAndScansFit
<1>2. \A s : scan' = [scan EXCEPT ![w] = s] =>
         scan'[w] = s /\ \A v \in Watchers \ {w} : scan'[v] = scan[v]
  BY <1>1
<1>3. CASE ScanStarts(w)
  <2>1. ScanFits([step |-> "list", until |-> cursor, newest |-> cursor, found |-> {}])
    BY <1>1 DEF ScanFits
  <2> QED BY <1>1, <1>2, <1>3, <2>1 DEF ScanStarts
<1>4. CASE ScanLists(w)
  <2>1. PICK row : ScanFits(row) /\ scan' = [scan EXCEPT ![w] = row]
    BY <1>4, ScanListsFits
  <2> QED BY <1>1, <1>2, <2>1
<1>5. CASE Record(w)
  <2> DEFINE i == Max(scan[w].found)
             s == [scan[w] EXCEPT !.found = scan[w].found \ {i}]
  <2>1. scan[w] # NoScan /\ scan' = [scan EXCEPT ![w] = s]
    BY <1>5 DEF Record, ScanAt
  <2>2. s.until = scan[w].until /\ s.newest = scan[w].newest /\ s.found \subseteq scan[w].found
    BY <1>1, <2>1
  <2> HIDE DEF s
  <2>3. ScanFits(s)
    BY <1>1, <2>1, <2>2 DEF ScanFits
  <2> QED BY <1>1, <1>2, <2>1, <2>3
<1>6. CASE ScanEnds(w) \/ ScanFails(w)
  BY <1>1, <1>2, <1>6 DEF ScanEnds, ScanFails
<1> QED BY <1>3, <1>4, <1>5, <1>6 DEF WatcherStep

\* Type correctness of ownership and deposits
THEOREM DepositsTypes == DepositsSpec => []DepositsTypeOK
<1>1. DepositsInit => CountsAndScansFit
  BY OwnershipAssumption DEF DepositsInit, OwnershipInit, CountsAndScansFit
<1>2. DepositsInv /\ CountsAndScansFit /\ [DepositsNext]_moneyInVars => CountsAndScansFit'
  <2> SUFFICES ASSUME DepositsInv, CountsAndScansFit, [DepositsNext]_moneyInVars
               PROVE  CountsAndScansFit'
    OBVIOUS
  <2>1. CASE OwnershipNext /\ UNCHANGED depositVars
    BY <2>1, FailuresFit DEF CountsAndScansFit, depositVars
  <2>2. CASE UNCHANGED ownershipVars /\ \E sender \in Addresses \cup {"other"} : Lands(sender)
    BY <2>2 DEF CountsAndScansFit, ownershipVars, Lands
  <2>3. CASE UNCHANGED ownershipVars /\ \E w \in Watchers : WatcherStep(w) \/ ScanFails(w)
    BY <2>3, ScansFit DEF CountsAndScansFit, ownershipVars
  <2>4. CASE UNCHANGED moneyInVars
    BY <2>4 DEF CountsAndScansFit, moneyInVars, ownershipVars, depositVars
  <2> QED BY <2>1, <2>2, <2>3, <2>4 DEF DepositsNext
<1>3. DepositsInv /\ CountsAndScansFit => DepositsTypeOK
  <2> SUFFICES ASSUME DepositsInv, CountsAndScansFit PROVE DepositsTypeOK
    OBVIOUS
  <2>1. OwnershipTypeOK
    BY OwnershipAssumption
       DEF DepositsInv, OwnershipInv, OwnershipShapes, ChallengeRows, CountsAndScansFit, OwnershipTypeOK
  <2>2. /\ cursor \in 0..Len(landed)
        /\ \A i \in 1..MaxTransfers : deposit[i].status \in {"none", "credited", "unattributed"}
    BY DEF DepositsInv, CreditsInv, DepositShapes, Deposited
  <2>3. \A w \in Watchers : scan[w] # NoScan => scan[w].newest <= Len(landed)
    BY DEF DepositsInv, CreditsInv, DepositShapes
  <2> QED BY <2>1, <2>2, <2>3 DEF CountsAndScansFit, ScanFits, DepositsTypeOK
<1>4. DepositsSpec => []CountsAndScansFit
  BY <1>1, <1>2, DepositsInvariant, PTL DEF DepositsSpec
<1> QED BY <1>3, <1>4, DepositsInvariant, PTL

\* Each transfer is credited once, to the owner of its sender.
THEOREM CreditedOnceHolds == DepositsSpec => []CreditedOnceToTheSender
<1>1. ASSUME DepositsInv PROVE CreditedOnceToTheSender
  <2>1. \A u \in Users : credited[u] = Cardinality(CreditedTo(u)) * (Gross - FeeOf(Gross))
    BY <1>1 DEF DepositsInv, CreditsInv, CreditsAddUp, NetAmount
  <2>2. ASSUME NEW u \in Users, NEW i \in CreditedTo(u)
        PROVE  owner[landed[i]] = u
    <3>1. i \in 1..MaxTransfers /\ deposit[i] = [status |-> "credited", user |-> u]
      BY <2>2 DEF CreditedTo
    <3>2. deposit[i].status = "credited" /\ deposit[i].user = u
      BY <3>1
    <3> QED BY <1>1, <3>1, <3>2 DEF DepositsInv, CreditsInv, CreditsAreOwned
  <2> QED BY <2>1, <2>2 DEF CreditedOnceToTheSender
<1> QED BY <1>1, DepositsInvariant, PTL

\* The cursor passes no transfer that the scans were given and did not record.
THEOREM CursorHolds == DepositsSpec => []CursorPassesOnlyWhatWasSeen
<1>1. DepositsInv => CursorPassesOnlyWhatWasSeen
  BY DEF DepositsInv, CreditsInv, DepositShapes, CursorMissesNothing, Given, CursorPassesOnlyWhatWasSeen
<1> QED BY <1>1, DepositsInvariant, PTL

\* An owner has signed for his address, and keeps it.
THEOREM OwnersHaveProvedHolds == DepositsSpec => []OwnersHaveProved
<1>1. DepositsInv => OwnersHaveProved
  BY DEF DepositsInv, OwnershipInv
<1> QED BY <1>1, DepositsInvariant, PTL

-----------------------------------------------------------------------------
(* Limits and joins. *)

Positions == [Games -> Int \cup {Out}]
SaveRows == [read : 0..Horizon, input : Inputs]

LimitsShapes ==
    /\ today \in 0..Horizon /\ limits \in Inputs
    /\ position \in Positions
    /\ DOMAIN joining = Games /\ DOMAIN saving = Saves
    /\ \A s \in Saves : saving[s] # Out => saving[s] \in SaveRows

\* A join is of a round that had not been entered when it began.
JoinsBeginOutside ==
    \A g \in Games : joining[g] # Out => joining[g] \in Positions /\ joining[g][g] = Out

LimitsInv == LimitsShapes /\ JoinsBeginOutside

LEMMA LimitsStart == LimitsInit => LimitsInv
  BY LimitsAssumption
     DEF LimitsInit, LimitsInv, LimitsShapes, JoinsBeginOutside, Positions, Inputs

LEMMA SaveReadsKeeps ==
    ASSUME LimitsInv, NEW s \in Saves, NEW input \in Inputs, SaveReads(s, input)
    PROVE  LimitsInv'
<1>1. [read |-> limits.until, input |-> input] \in SaveRows
  BY DEF LimitsInv, LimitsShapes, Inputs, SaveRows
<1> QED BY <1>1 DEF SaveReads, LimitsInv, LimitsShapes, JoinsBeginOutside

\* A save keeps the later of the exclusion it read and the one it was asked for.
LEMMA SavedUntil ==
    ASSUME LimitsInv, NEW s \in Saves, SaveWrites(s)
    PROVE  /\ limits' \in Inputs /\ limits'.until >= saving[s].read
           /\ saving[s] # Out /\ saving'[s] = Out
<1>1. saving[s] # Out /\ saving[s] \in SaveRows
  BY DEF SaveWrites, LimitsInv, LimitsShapes
<1>2. /\ saving[s].read \in 0..Horizon /\ saving[s].input \in Inputs
      /\ saving[s].input.until \in 0..Horizon
  BY <1>1 DEF SaveRows, Inputs
<1>3. LaterOf(saving[s].read, saving[s].input.until) \in 0..Horizon
      /\ LaterOf(saving[s].read, saving[s].input.until) >= saving[s].read
  BY <1>2, LimitsAssumption DEF LaterOf
<1>4. limits' = [saving[s].input EXCEPT !.until = LaterOf(saving[s].read, saving[s].input.until)]
  BY <1>2 DEF SaveWrites, Inputs
<1>5. limits' \in Inputs /\ limits'.until = LaterOf(saving[s].read, saving[s].input.until)
  BY <1>2, <1>3, <1>4 DEF Inputs
<1> QED BY <1>1, <1>3, <1>5 DEF SaveWrites, LimitsInv, LimitsShapes

LEMMA SaveWritesKeeps ==
    ASSUME LimitsInv, NEW s \in Saves, SaveWrites(s)
    PROVE  LimitsInv'
  BY SavedUntil DEF SaveWrites, LimitsInv, LimitsShapes, JoinsBeginOutside

LEMMA JoinsKeep ==
    ASSUME LimitsInv, NEW g \in Games, JoinOpens(g) \/ JoinSeats(g) \/ JoinRefused(g)
    PROVE  LimitsInv'
<1>1. CASE JoinOpens(g)
  BY <1>1 DEF JoinOpens, LimitsInv, LimitsShapes, JoinsBeginOutside
<1>2. CASE JoinSeats(g)
  <2>1. -Stake[g] \in Int
    BY LimitsAssumption
  <2>2. position' \in Positions
    BY <1>2, <2>1 DEF JoinSeats, LimitsInv, LimitsShapes, Positions
  <2> QED BY <1>2, <2>2 DEF JoinSeats, LimitsInv, LimitsShapes, JoinsBeginOutside
<1>3. CASE JoinRefused(g)
  BY <1>3 DEF JoinRefused, LimitsInv, LimitsShapes, JoinsBeginOutside
<1> QED BY <1>1, <1>2, <1>3

\* A round pays a player who entered it.
LEMMA PaysTheEntered ==
    ASSUME LimitsInv, NEW g \in Games, NEW prize \in Prizes, RoundPays(g, prize)
    PROVE  /\ position' \in Positions
           /\ \A h \in Games : position[h] = Out => position'[h] = Out
<1>1. position[g] \in Int /\ position[g] # Out /\ prize \in Int
  BY LimitsAssumption DEF RoundPays
<1>2. position' = [position EXCEPT ![g] = position[g] + prize] /\ position[g] + prize \in Int
  BY <1>1 DEF RoundPays
<1> QED BY <1>1, <1>2 DEF LimitsInv, LimitsShapes, Positions

LEMMA LimitsStepKeeps == ASSUME LimitsInv, [LimitsNext]_limitsVars PROVE LimitsInv'
<1>1. CASE DayPasses
  BY <1>1, LimitsAssumption DEF DayPasses, LimitsInv, LimitsShapes, JoinsBeginOutside
<1>2. CASE \E s \in Saves : SaveWrites(s) \/ \E input \in Inputs : SaveReads(s, input)
  BY <1>2, SaveWritesKeeps, SaveReadsKeeps
<1>3. CASE \E g \in Games : JoinOpens(g) \/ JoinSeats(g) \/ JoinRefused(g)
  BY <1>3, JoinsKeep
<1>4. ASSUME NEW g \in Games, NEW prize \in Prizes, RoundPays(g, prize)
      PROVE  LimitsInv'
  BY <1>4, PaysTheEntered DEF RoundPays, LimitsInv, LimitsShapes, JoinsBeginOutside
<1>5. CASE UNCHANGED limitsVars
  BY <1>5 DEF limitsVars, LimitsInv, LimitsShapes, JoinsBeginOutside
<1> QED BY <1>1, <1>2, <1>3, <1>4, <1>5 DEF LimitsNext

\* What the joins and saves under way rest on
THEOREM LimitsInvariant == LimitsSpec => []LimitsInv
<1>1. LimitsInit => LimitsInv
  BY LimitsStart
<1>2. LimitsInv /\ [LimitsNext]_limitsVars => LimitsInv'
  BY LimitsStepKeeps
<1> QED BY <1>1, <1>2, PTL DEF LimitsSpec

\* The limits, positions, joins and saves are well formed.
THEOREM LimitsTypes == LimitsSpec => []LimitsTypeOK
<1>1. LimitsInv => LimitsTypeOK
  BY DEF LimitsInv, LimitsShapes, JoinsBeginOutside, Positions, SaveRows, LimitsTypeOK
<1> QED BY <1>1, LimitsInvariant, PTL

\* Saves that follow one another only extend an exclusion (save, laterOf).
THEOREM ExclusionsLast == LimitsSpec => OnlyOverlapShortensAnExclusion
<1> DEFINE Shortens == limits'.until < limits.until =>
              \E s \in Saves : saving[s] # Out /\ saving'[s] = Out /\ saving[s].read < limits.until
<1>1. LimitsInv /\ LimitsNext => Shortens
  <2> SUFFICES ASSUME LimitsInv, LimitsNext, limits'.until < limits.until
               PROVE  \E s \in Saves : /\ saving[s] # Out /\ saving'[s] = Out
                                       /\ saving[s].read < limits.until
    OBVIOUS
  <2>1. limits \in Inputs /\ limits.until \in Int /\ limits' # limits
    BY DEF LimitsInv, LimitsShapes, Inputs
  <2>2. PICK s \in Saves : SaveWrites(s)
    BY <2>1 DEF LimitsNext, DayPasses, SaveReads, JoinOpens, JoinSeats, JoinRefused, RoundPays
  <2>3. limits'.until >= saving[s].read /\ saving[s] # Out /\ saving'[s] = Out /\ limits' \in Inputs
    BY <2>2, SavedUntil
  <2>4. saving[s].read \in Int /\ limits'.until \in Int
    BY <2>3 DEF LimitsInv, LimitsShapes, SaveRows, Inputs
  <2>5. saving[s].read < limits.until
    BY <2>1, <2>3, <2>4
  <2> QED BY <2>3, <2>5
<1>2. LimitsInv /\ UNCHANGED limitsVars => Shortens
  BY DEF limitsVars, LimitsInv, LimitsShapes, Inputs
<1>3. LimitsInv /\ [LimitsNext]_limitsVars => [Shortens]_limitsVars
  BY <1>1
<1> QED BY <1>3, LimitsInvariant, PTL DEF LimitsSpec, OnlyOverlapShortensAnExclusion

-----------------------------------------------------------------------------
(* What a seat adds. *)

LEMMA SeatAdds ==
    ASSUME LimitsInv, NEW g \in Games, JoinSeats(g), position[g] = Out
    PROVE  /\ Cardinality(Entered(position)) \in Nat
           /\ Cardinality(Entered(position')) = Cardinality(Entered(position)) + 1
           /\ Net(position) \in Int
           /\ Net(position') = Net(position) - Stake[g]
<1> DEFINE S == Entered(position)
           T == Entered(position')
<1>1. /\ IsFiniteSet(Games) /\ Stake[g] \in Nat /\ position \in Positions
      /\ Out \notin Int
  BY LimitsAssumption DEF LimitsInv, LimitsShapes
<1>2. /\ position'[g] = -Stake[g] /\ position'[g] \in Int
      /\ \A h \in Games \ {g} : position'[h] = position[h]
  BY <1>1 DEF JoinSeats, Positions
<1>3. S \in SUBSET Games /\ g \notin S /\ T = S \cup {g}
  BY <1>1, <1>2 DEF Entered
<1>4. \A h \in S : position'[h] = position[h] /\ position[h] \in Int
  BY <1>1, <1>2, <1>3 DEF Entered, Positions
<1>5. Net(position) = SumFunctionOnSet(position, S) /\ Net(position') = SumFunctionOnSet(position', T)
  BY DEF Net
<1> HIDE DEF S, T
<1>6. IsFiniteSet(S)
  BY <1>1, <1>3, FS_Subset
<1>7. Cardinality(S) \in Nat /\ Cardinality(T) = Cardinality(S) + 1
  BY <1>3, <1>6, FS_CardinalityType, FS_AddElement
<1>8. SumFunctionOnSet(position, S) \in Int
  BY <1>4, <1>6, SumType
<1>9. SumFunctionOnSet(position', S) = SumFunctionOnSet(position, S)
  BY <1>4, <1>6, SumSame
<1>10. \A h \in S \cup {g} : position'[h] \in Int
  BY <1>2, <1>4
<1>11. SumFunctionOnSet(position', S \cup {g}) = position'[g] + SumFunctionOnSet(position', S)
  BY <1>3, <1>6, <1>10, SumGains
<1>12. Net(position') = Net(position) - Stake[g]
  BY <1>1, <1>2, <1>3, <1>5, <1>8, <1>9, <1>11
<1> QED BY <1>5, <1>7, <1>8, <1>12 DEF S, T

\* A seat is taken outside every exclusion, and joins that do not overlap another event
\* of the ledger keep every limit (assertMayJoin, checked on the snapshot of the join).
THEOREM LimitsHoldWithoutOverlap == LimitsSpec => OnlyOverlapPassesALimit
<1> DEFINE Checked(g) ==
              /\ limits.until <= today
              /\ Since(g) = {} =>
                   /\ limits.entry # NoLimit => Cardinality(Entered(position')) <= limits.entry
                   /\ limits.loss # NoLimit /\ Stake[g] > 0 => Lost(position') <= limits.loss
<1>1. ASSUME LimitsInv, LimitsNext, NEW g \in Games, TakesSeat(g) PROVE Checked(g)
  <2>1. position[g] = Out /\ position'[g] # Out /\ position' # position
    BY <1>1 DEF TakesSeat
  <2>2. PICK h \in Games : JoinSeats(h)
    BY <1>1, <2>1, PaysTheEntered
       DEF LimitsNext, DayPasses, SaveReads, SaveWrites, JoinOpens, JoinRefused
  <2>3. h = g
    BY <1>1, <2>1, <2>2 DEF JoinSeats, LimitsInv, LimitsShapes, Positions
  <2>4. JoinSeats(g) /\ joining[g] # Out /\ MayJoin(g, joining[g])
    BY <2>2, <2>3 DEF JoinSeats
  <2>5. limits.until <= today
    BY <2>4 DEF MayJoin, NotExcluded
  <2>6. ASSUME Since(g) = {}
        PROVE  /\ limits.entry # NoLimit => Cardinality(Entered(position')) <= limits.entry
               /\ limits.loss # NoLimit /\ Stake[g] > 0 => Lost(position') <= limits.loss
    <3>1. joining[g] = position
      BY <1>1, <2>4, <2>6 DEF Since, LimitsInv, LimitsShapes, JoinsBeginOutside, Positions
    <3>2. EntriesAllow(position) /\ LossAllows(g, position)
      BY <2>4, <3>1 DEF MayJoin
    <3>3. /\ Cardinality(Entered(position)) \in Nat
          /\ Cardinality(Entered(position')) = Cardinality(Entered(position)) + 1
          /\ Net(position) \in Int /\ Net(position') = Net(position) - Stake[g]
      BY <1>1, <2>1, <2>4, SeatAdds
    <3>4. /\ limits.entry # NoLimit => limits.entry \in Nat
          /\ limits.loss # NoLimit => limits.loss \in Nat
          /\ Stake[g] \in Nat
      BY <1>1, LimitsAssumption DEF LimitsInv, LimitsShapes, Inputs
    <3>5. limits.entry # NoLimit => Cardinality(Entered(position')) <= limits.entry
      BY <3>2, <3>3, <3>4 DEF EntriesAllow
    <3>6. limits.loss # NoLimit /\ Stake[g] > 0 => Lost(position') <= limits.loss
      BY <3>2, <3>3, <3>4 DEF LossAllows, Lost
    <3> QED BY <3>5, <3>6
  <2> QED BY <2>5, <2>6
<1> HIDE DEF Checked
<1>2. LimitsInv /\ [LimitsNext]_limitsVars => [\A g \in Games : TakesSeat(g) => Checked(g)]_limitsVars
  BY <1>1
<1> USE DEF Checked
<1> QED BY <1>2, LimitsInvariant, PTL DEF LimitsSpec, OnlyOverlapPassesALimit

-----------------------------------------------------------------------------
(* The record of a chess match. *)

Kinds == {"move", "draw", "resign", "flag"}
Events == [kind : Kinds, by : Colours, spent : Nat, shown : Nat]
Views == [version : Nat \cup {-1}, ply : Nat]
Terminations == {"none", "checkmate", "drawn", "timeout", "resignation", "agreement"}

MatchRows == [status : {"none"} \cup Open \cup Closed, black : Players \cup {NoGuest},
         version : Nat, ply : Nat, canMate : SUBSET Colours, ms : [Colours -> Nat],
         offer : Colours \cup {"none"}, result : Results, termination : Terminations]

\* The model's operators on the record, of any record
MovesIn(log, n) == {i \in 1..n - 1 : log[i].kind = "move"}
MovesOf(log, c) == {i \in DOMAIN log : log[i].kind = "move" /\ log[i].by = c}
Spent(log) == [i \in DOMAIN log |-> log[i].spent]
TimeIn(log, c) == SumFunctionOnSet(Spent(log), MovesOf(log, c))

\* The record ends in exactly k requests for a draw by c.
AsksForDraw(log, i, c) == log[i].kind = "draw" /\ log[i].by = c
EndsAsking(log, c, k) ==
    /\ k <= Len(log) /\ \A i \in Len(log) - k + 1 .. Len(log) : AsksForDraw(log, i, c)
    /\ k < Len(log) => ~AsksForDraw(log, Len(log) - k, c)

LEMMA Appended ==
    ASSUME NEW log \in Seq(Events), NEW e \in Events
    PROVE  /\ Append(log, e) \in Seq(Events) /\ Len(Append(log, e)) = Len(log) + 1
           /\ Len(log) \in Nat /\ DOMAIN log = 1..Len(log)
           /\ DOMAIN Append(log, e) = DOMAIN log \cup {Len(log) + 1}
           /\ Len(log) + 1 \notin DOMAIN log
           /\ \A i \in DOMAIN log : Append(log, e)[i] = log[i] /\ log[i] \in Events
           /\ Append(log, e)[Len(log) + 1] = e
  OBVIOUS

LEMMA MovesAppended ==
    ASSUME NEW log \in Seq(Events), NEW e \in Events
    PROVE  /\ \A n \in 1..Len(log) + 1 :
                 /\ MovesIn(Append(log, e), n) = MovesIn(log, n)
                 /\ IsFiniteSet(MovesIn(log, n))
           /\ Cardinality(MovesIn(Append(log, e), Len(log) + 2)) =
                 Cardinality(MovesIn(log, Len(log) + 1)) + (IF e.kind = "move" THEN 1 ELSE 0)
<1> DEFINE n == Len(log)
<1>1. \A k \in 1..n + 1 : MovesIn(Append(log, e), k) = MovesIn(log, k)
  BY Appended DEF MovesIn
<1>2. ASSUME NEW k \in 1..n + 1 PROVE IsFiniteSet(MovesIn(log, k))
  <2>1. IsFiniteSet(1..k - 1)
    BY FS_Interval, Appended
  <2>2. MovesIn(log, k) \in SUBSET (1..k - 1)
    BY DEF MovesIn
  <2> QED BY <2>1, <2>2, FS_Subset
<1>3. MovesIn(Append(log, e), n + 2) =
         MovesIn(log, n + 1) \cup (IF e.kind = "move" THEN {n + 1} ELSE {})
  BY Appended DEF MovesIn
<1>4. n + 1 \notin MovesIn(log, n + 1) /\ n \in Nat
  BY Appended DEF MovesIn
<1>5. IsFiniteSet(MovesIn(log, n + 1))
  BY <1>2, <1>4
<1>6. Cardinality(MovesIn(log, n + 1) \cup {n + 1}) = Cardinality(MovesIn(log, n + 1)) + 1
  BY <1>4, <1>5, FS_AddElement
<1>7. Cardinality(MovesIn(log, n + 1)) \in Nat
  BY <1>5, FS_CardinalityType
<1> HIDE DEF n
<1>8. Cardinality(MovesIn(Append(log, e), n + 2)) =
         Cardinality(MovesIn(log, n + 1)) + (IF e.kind = "move" THEN 1 ELSE 0)
  <2>1. CASE e.kind = "move"
    BY <2>1, <1>3, <1>6
  <2>2. CASE e.kind # "move"
    <3>1. MovesIn(Append(log, e), n + 2) = MovesIn(log, n + 1)
      BY <2>2, <1>3
    <3> QED BY <2>2, <3>1, <1>7
  <2> QED BY <2>1, <2>2
<1> QED BY <1>1, <1>2, <1>8 DEF n

LEMMA TimeAppended ==
    ASSUME NEW log \in Seq(Events), NEW e \in Events, NEW c \in Colours
    PROVE  /\ TimeIn(log, c) \in Int
           /\ TimeIn(Append(log, e), c) =
                 TimeIn(log, c) + (IF e.kind = "move" /\ e.by = c THEN e.spent ELSE 0)
<1> DEFINE n == Len(log)
           f == Spent(log)
           g == Spent(Append(log, e))
           S == MovesOf(log, c)
           T == MovesOf(Append(log, e), c)
<1>1. n \in Nat /\ S \in SUBSET (1..n) /\ n + 1 \notin S
  BY Appended DEF MovesOf
<1>2. IsFiniteSet(S)
  <2> HIDE DEF S, n
  <2>1. IsFiniteSet(1..n)
    BY <1>1, FS_Interval
  <2> QED BY <1>1, <2>1, FS_Subset
<1>3. \A i \in S : f[i] = g[i] /\ f[i] \in Int /\ g[i] \in Int
  <2>1. \A i \in DOMAIN log : /\ i \in DOMAIN Append(log, e)
                               /\ Append(log, e)[i] = log[i] /\ log[i] \in Events
    BY Appended
  <2>2. \A i \in DOMAIN log : log[i].spent \in Nat
    BY <2>1 DEF Events
  <2>3. \A i \in DOMAIN log : f[i] = log[i].spent /\ g[i] = log[i].spent
    BY <2>1 DEF Spent
  <2> QED BY <2>2, <2>3 DEF MovesOf
<1>4. T = S \cup (IF e.kind = "move" /\ e.by = c THEN {n + 1} ELSE {})
  BY Appended DEF MovesOf
<1>5. g[n + 1] = e.spent /\ e.spent \in Int
  BY Appended DEF Spent, Events
<1>6. TimeIn(log, c) = SumFunctionOnSet(f, S) /\ TimeIn(Append(log, e), c) = SumFunctionOnSet(g, T)
  BY DEF TimeIn
<1> HIDE DEF n, f, g, S, T
<1>7. SumFunctionOnSet(f, S) \in Int
  BY <1>2, <1>3, SumType
<1>8. SumFunctionOnSet(g, S) = SumFunctionOnSet(f, S)
  BY <1>2, <1>3, SumSame
<1>9. SumFunctionOnSet(g, S \cup {n + 1}) = g[n + 1] + SumFunctionOnSet(g, S)
  <2>1. \A x \in S \cup {n + 1} : g[x] \in Int
    BY <1>3, <1>5
  <2> QED BY <1>1, <1>2, <2>1, SumGains
<1>10. CASE e.kind = "move" /\ e.by = c
  <2>1. T = S \cup {n + 1}
    BY <1>4, <1>10
  <2> QED BY <2>1, <1>5, <1>6, <1>7, <1>8, <1>9, <1>10
<1>11. CASE ~(e.kind = "move" /\ e.by = c)
  <2>1. T = S
    BY <1>4, <1>11
  <2> QED BY <2>1, <1>6, <1>7, <1>8, <1>11
<1> QED BY <1>10, <1>11

LEMMA AskingAppended ==
    ASSUME NEW log \in Seq(Events), NEW e \in Events, NEW c \in Colours, NEW k \in Nat,
           EndsAsking(log, c, k)
    PROVE  IF e.kind = "draw" /\ e.by = c THEN EndsAsking(Append(log, e), c, k + 1)
           ELSE EndsAsking(Append(log, e), c, 0)
<1> DEFINE n == Len(log)
           more == Append(log, e)
<1>1. n \in Nat /\ Len(more) = n + 1 /\ more[n + 1] = e /\ \A i \in 1..n : more[i] = log[i]
  BY Appended
<1>2. /\ k <= n /\ \A i \in n - k + 1 .. n : AsksForDraw(log, i, c)
      /\ k < n => ~AsksForDraw(log, n - k, c)
  BY DEF EndsAsking
<1> HIDE DEF n, more
<1>3. CASE e.kind = "draw" /\ e.by = c
  <2>1. k + 1 <= n + 1
    BY <1>1, <1>2
  <2>2. ASSUME NEW i \in (n + 1) - (k + 1) + 1 .. n + 1 PROVE AsksForDraw(more, i, c)
    <3>1. CASE i = n + 1
      BY <3>1, <1>1, <1>3 DEF AsksForDraw
    <3>2. CASE i # n + 1
      <4>1. i \in Int /\ n - k + 1 <= i /\ i <= n /\ k <= n /\ n \in Nat /\ k \in Nat
        BY <1>1, <1>2, <3>2
      <4>2. i \in n - k + 1 .. n /\ i \in 1..n
        BY <4>1
      <4> QED BY <4>2, <1>1, <1>2 DEF AsksForDraw
    <3> QED BY <3>1, <3>2
  <2>3. ASSUME k + 1 < n + 1 PROVE ~AsksForDraw(more, (n + 1) - (k + 1), c)
    <3>1. k < n /\ n - k \in 1..n /\ (n + 1) - (k + 1) = n - k
      BY <1>1, <2>3
    <3> QED BY <3>1, <1>1, <1>2 DEF AsksForDraw
  <2>4. EndsAsking(more, c, k + 1)
    BY <1>1, <2>1, <2>2, <2>3 DEF EndsAsking
  <2> QED BY <1>3, <2>4 DEF more
<1>4. CASE ~(e.kind = "draw" /\ e.by = c)
  <2>1. ~AsksForDraw(more, n + 1, c)
    BY <1>1, <1>4 DEF AsksForDraw
  <2>2. EndsAsking(more, c, 0)
    BY <1>1, <2>1 DEF EndsAsking
  <2> QED BY <1>4, <2>2 DEF more
<1> QED BY <1>3, <1>4

-----------------------------------------------------------------------------
(* The invariant. *)

ChessShapes ==
    match \in MatchRows /\ waited \in Nat /\ chessLog \in Seq(Events) /\ board \in [Tabs -> Views]

\* The match is as long as its record, and has as many plies as it has moves.
RowFitsRecord ==
    /\ match.version = Len(chessLog) /\ match.ply <= match.version
    /\ match.ply = Cardinality(MovesIn(chessLog, match.version + 1))
    /\ match.version <= MaxVersion + 1
    /\ match.status # "complete" => match.version <= MaxVersion

\* Nothing waits beyond the deadline it waits for.
WaitsEnd ==
    /\ waited <= InviteTtl \/ waited <= Budget
    /\ match.status \in {"none", "waiting"} => waited <= InviteTtl
    /\ match.status = "active" => waited <= match.ms[Turn(match)]

\* A tab shows an earlier version, or the position there is.
TabsLag ==
    \A t \in Tabs :
        /\ board[t].version <= match.version
        /\ board[t].version = match.version => board[t].ply = match.ply

\* While the match is not over, it has an offer of a draw by the colour whose
\* requests end the record in an odd number.
OfferIsOdd ==
    match.status # "complete" =>
        /\ match.termination = "none"
        /\ \A c \in Colours : \E k \in 0..Len(chessLog) :
              /\ EndsAsking(chessLog, c, k)
              /\ k % 2 = IF match.offer = c THEN 1 ELSE 0

ChessInv ==
    /\ ChessShapes /\ RowFitsRecord /\ WaitsEnd /\ TabsLag /\ OfferIsOdd
    /\ \A c \in Colours : match.ms[c] <= Budget
    /\ MovesFitTheBoard /\ ClocksAccountForEveryTurn /\ DrawNeedsBoth

LEMMA MoveFits ==
    ASSUME NEW i \in DOMAIN chessLog
    PROVE  MovesBefore(i) = MovesIn(chessLog, i)
  BY DEF MovesBefore, IsMove, MovesIn

LEMMA TimesFit ==
    /\ \A c : TimeSpent(c) = TimeIn(chessLog, c)
    /\ \A c : TimeSpent(c)' = TimeIn(chessLog', c)
  BY DEF TimeSpent, MovesBy, IsMove, TimeIn, Spent, MovesOf

LEMMA ChessStarts == ChessInit => ChessInv
<1> SUFFICES ASSUME ChessInit PROVE ChessInv
  OBVIOUS
<1> USE ChessAssumption
<1>1. /\ match \in MatchRows /\ match.version = 0 /\ match.ply = 0 /\ match.status = "none"
      /\ match.offer = "none" /\ match.termination = "none"
      /\ \A c \in Colours : match.ms[c] = Budget
  BY DEF ChessInit, MatchRows, Open, Closed, Results, Colours, Terminations
<1>2. chessLog = <<>> /\ waited = 0 /\ board = [t \in Tabs |-> Unseen]
  BY DEF ChessInit
<1>3. Len(chessLog) = 0 /\ DOMAIN chessLog = {} /\ chessLog \in Seq(Events)
  BY <1>2
<1>4. ChessShapes
  BY <1>1, <1>2, <1>3 DEF ChessShapes, Views, Unseen
<1>5. RowFitsRecord
  <2>1. MovesIn(chessLog, 1) = {}
    BY DEF MovesIn
  <2>2. MovesIn(chessLog, match.version + 1) = {}
    BY <1>1, <2>1
  <2>3. Cardinality(MovesIn(chessLog, match.version + 1)) = 0
    BY <2>2, FS_EmptySet
  <2> QED BY <1>1, <1>3, <2>3 DEF RowFitsRecord
<1>6. WaitsEnd /\ TabsLag
  BY <1>1, <1>2 DEF WaitsEnd, TabsLag, Unseen
<1>7. OfferIsOdd
  <2>1. \A c \in Colours : EndsAsking(chessLog, c, 0)
    BY <1>3 DEF EndsAsking
  <2>2. \A c \in Colours : match.offer # c
    BY <1>1 DEF Colours
  <2> QED BY <1>1, <1>3, <2>1, <2>2 DEF OfferIsOdd
<1>8. MovesFitTheBoard /\ DrawNeedsBoth
  BY <1>1, <1>3 DEF MovesFitTheBoard, DrawNeedsBoth
<1>9. ASSUME NEW c \in Colours PROVE TimeSpent(c) = 0
  <2>1. MovesOf(chessLog, c) = {}
    BY <1>3 DEF MovesOf
  <2> QED BY <2>1, TimesFit, SumEmpty DEF TimeIn
<1>10. ClocksAccountForEveryTurn
  BY <1>1, <1>9 DEF ClocksAccountForEveryTurn
<1> QED BY <1>1, <1>4, <1>5, <1>6, <1>7, <1>8, <1>10 DEF ChessInv

-----------------------------------------------------------------------------
(* What the steps have in common. *)

\* A tab keeps its view, or gets the new one.
SomeTabsSee ==
    /\ board' \in [Tabs -> Views]
    /\ \A t \in Tabs : board'[t] = board[t] \/ board'[t] = [version |-> match'.version, ply |-> match'.ply]

\* Nothing happens on the board.
Stays ==
    /\ match' \in MatchRows /\ match'.version = match.version /\ match'.ply = match.ply
    /\ match'.ms = match.ms /\ match'.offer = match.offer
    /\ match'.termination = match.termination
    /\ match'.status = "complete" => match.status = "complete"
    /\ match.status = "complete" => match'.status = "complete" /\ waited' = waited
    /\ chessLog' = chessLog /\ SomeTabsSee /\ waited' \in Nat

LEMMA StaysKeeps ==
    ASSUME ChessInv, Stays, WaitsEnd'
    PROVE  ChessInv'
<1>1. ChessShapes'
  BY DEF ChessInv, ChessShapes, Stays, SomeTabsSee
<1>2. RowFitsRecord'
  BY DEF ChessInv, RowFitsRecord, Stays
<1>3. TabsLag'
  <2>1. match.version \in Nat /\ match'.version = match.version /\ match'.ply = match.ply
    BY DEF ChessInv, ChessShapes, Stays, MatchRows
  <2>2. \A t \in Tabs :
           \/ board'[t] = board[t]
           \/ board'[t].version = match.version /\ board'[t].ply = match.ply
    BY DEF Stays, SomeTabsSee
  <2> QED BY <2>1, <2>2 DEF ChessInv, TabsLag
<1>4. OfferIsOdd'
  BY DEF ChessInv, OfferIsOdd, Stays
<1>5. \A c \in Colours : match'.ms[c] <= Budget
  BY DEF ChessInv, Stays
<1>6. MovesFitTheBoard'
  BY DEF ChessInv, MovesFitTheBoard, IsMove, MovesBefore, Stays
<1>7. ClocksAccountForEveryTurn'
  <2>1. \A c \in Colours : TimeSpent(c)' = TimeSpent(c)
    BY TimesFit DEF Stays
  <2>2. match'.termination = "timeout" => waited' = waited
    BY DEF ChessInv, OfferIsOdd, Stays
  <2> QED BY <2>1, <2>2 DEF ChessInv, ClocksAccountForEveryTurn, Stays, Turn
<1>8. DrawNeedsBoth'
  BY DEF ChessInv, DrawNeedsBoth, AskedInARow, Stays
<1> QED BY <1>1, <1>2, <1>3, <1>4, <1>5, <1>6, <1>7, <1>8 DEF ChessInv

\* An event is added to the record of a match being played.
Grows(e) ==
    /\ match.status = "active" /\ e \in Events /\ chessLog' = Append(chessLog, e)
    /\ match' \in MatchRows /\ match'.version = match.version + 1
    /\ match'.ply = match.ply + (IF e.kind = "move" THEN 1 ELSE 0)
    /\ match'.status # "complete" => match.version < MaxVersion
    /\ e.kind = "move" => e.shown = match.ply /\ e.by = Turn(match)
    /\ SomeTabsSee /\ waited' \in Nat

LEMMA GrowsKeeps ==
    ASSUME ChessInv, NEW e, Grows(e)
    PROVE  ChessShapes' /\ RowFitsRecord' /\ TabsLag' /\ MovesFitTheBoard'
<1> DEFINE n == Len(chessLog)
<1>1. /\ chessLog \in Seq(Events) /\ e \in Events /\ chessLog' = Append(chessLog, e)
      /\ n \in Nat /\ match.version = n /\ match.ply \in Nat /\ match.ply <= n
      /\ match.ply = Cardinality(MovesIn(chessLog, n + 1))
  BY DEF ChessInv, ChessShapes, RowFitsRecord, Grows, MatchRows
<1>2. /\ Len(chessLog') = n + 1 /\ chessLog' \in Seq(Events)
      /\ DOMAIN chessLog = 1..n /\ DOMAIN chessLog' = 1..n + 1
      /\ \A i \in 1..n : chessLog'[i] = chessLog[i]
      /\ chessLog'[n + 1] = e
  BY <1>1, Appended
<1>3. /\ \A i \in 1..n + 1 : MovesIn(chessLog', i) = MovesIn(chessLog, i)
      /\ Cardinality(MovesIn(chessLog', n + 2)) =
            Cardinality(MovesIn(chessLog, n + 1)) + (IF e.kind = "move" THEN 1 ELSE 0)
  BY <1>1, MovesAppended
<1>4. ChessShapes'
  BY <1>2 DEF ChessShapes, Grows, SomeTabsSee
<1>5. RowFitsRecord'
  <2>1. match'.version = n + 1 /\ match'.version + 1 = n + 2
    BY <1>1 DEF Grows
  <2>2. match'.ply = match.ply + (IF e.kind = "move" THEN 1 ELSE 0)
    BY DEF Grows
  <2>3. match'.ply = Cardinality(MovesIn(chessLog', n + 2)) /\ match'.ply <= n + 1
    BY <1>1, <1>3, <2>2
  <2>4. match.version <= MaxVersion
    BY DEF Grows, ChessInv, RowFitsRecord
  <2>5. match'.version <= MaxVersion + 1 /\ (match'.status # "complete" => match'.version <= MaxVersion)
    BY <1>1, <2>1, <2>4, ChessAssumption DEF Grows
  <2> QED BY <1>2, <2>1, <2>3, <2>5 DEF RowFitsRecord
<1>6. TabsLag'
  <2>1. match'.version = match.version + 1 /\ match.version \in Nat
    BY <1>1 DEF Grows
  <2>2. \A t \in Tabs :
           \/ board'[t] = board[t]
           \/ board'[t].version = match'.version /\ board'[t].ply = match'.ply
    BY DEF Grows, SomeTabsSee
  <2>3. \A t \in Tabs : board[t].version \in Int
    BY DEF ChessInv, ChessShapes, Views
  <2> QED BY <2>1, <2>2, <2>3 DEF ChessInv, TabsLag
<1>7. MovesFitTheBoard'
  <2>1. SUFFICES ASSUME NEW i \in 1..n + 1, chessLog'[i].kind = "move"
                 PROVE  /\ chessLog'[i].shown = Cardinality(MovesIn(chessLog', i))
                        /\ chessLog'[i].by = IF chessLog'[i].shown % 2 = 0 THEN "w" ELSE "b"
    BY <1>2 DEF MovesFitTheBoard, IsMove, MovesBefore, MovesIn
  <2>2. CASE i = n + 1
    BY <1>1, <1>2, <1>3, <2>1, <2>2 DEF Grows, Turn
  <2>3. CASE i # n + 1
    <3>1. i \in 1..n /\ i \in DOMAIN chessLog
      BY <1>2, <2>3
    <3>2. chessLog'[i] = chessLog[i] /\ MovesBefore(i) = MovesIn(chessLog', i)
      BY <1>2, <1>3, <3>1, MoveFits
    <3> QED BY <2>1, <3>1, <3>2 DEF ChessInv, MovesFitTheBoard, IsMove
  <2> QED BY <2>2, <2>3
<1> QED BY <1>4, <1>5, <1>6, <1>7

\* The clocks of a match that an event other than a move is added to
LEMMA ClocksRun ==
    ASSUME ChessInv, NEW e, Grows(e), e.kind # "move", waited' = waited, match.status = "active",
           \/ match'.ms = match.ms /\ match'.termination # "timeout"
           \/ /\ match'.ms = [match.ms EXCEPT ![Turn(match)] = 0]
              /\ match'.termination = "timeout" /\ FlagFell(match)
    PROVE  ClocksAccountForEveryTurn' /\ \A c \in Colours : match'.ms[c] <= Budget
<1>1. \A c \in Colours : TimeSpent(c)' = TimeSpent(c) /\ TimeSpent(c) \in Int
  BY TimesFit, TimeAppended DEF Grows, ChessInv, ChessShapes
<1>2. Turn(match') = Turn(match) /\ Turn(match) \in Colours
  BY DEF Grows, Turn, ChessInv, ChessShapes, MatchRows, Colours
<1>3. match.ms \in [Colours -> Nat] /\ match.termination # "timeout" /\ Budget \in Nat
  BY ChessAssumption DEF ChessInv, ChessShapes, MatchRows, OfferIsOdd
<1>4. \A c \in Colours : match.ms[c] = Budget - TimeSpent(c) /\ match.ms[c] > 0
  BY <1>3 DEF ChessInv, ClocksAccountForEveryTurn
<1>5. \A c \in Colours : match.ms[c] <= Budget
  BY DEF ChessInv
<1>6. CASE match'.ms = match.ms /\ match'.termination # "timeout"
  <2>1. ClocksAccountForEveryTurn'
    BY <1>1, <1>4, <1>6 DEF ClocksAccountForEveryTurn
  <2> QED BY <1>5, <1>6, <2>1
<1>7. CASE /\ match'.ms = [match.ms EXCEPT ![Turn(match)] = 0]
           /\ match'.termination = "timeout" /\ FlagFell(match)
  <2>1. waited >= match.ms[Turn(match)] /\ waited' = waited /\ waited \in Nat
    BY <1>7 DEF FlagFell, ChessInv, ChessShapes
  <2>2. \A c \in Colours : match'.ms[c] = IF c = Turn(match) THEN 0 ELSE match.ms[c]
    BY <1>3, <1>7
  <2>3. \A c \in Colours : c = Turn(match) => match'.ms[c] = 0 /\ TimeSpent(c)' + waited' >= Budget
    BY <1>1, <1>3, <1>4, <2>1, <2>2
  <2>4. \A c \in Colours : c # Turn(match) => match'.ms[c] = Budget - TimeSpent(c)' /\ match'.ms[c] > 0
    BY <1>1, <1>4, <2>2
  <2>5. ClocksAccountForEveryTurn'
    BY <1>2, <1>7, <2>3, <2>4 DEF ClocksAccountForEveryTurn
  <2> QED BY <1>3, <1>5, <2>2, <2>5
<1> QED BY <1>6, <1>7

\* A flag falls, a player resigns, or a draw is agreed.
Ends(e) ==
    /\ Grows(e) /\ e.kind # "move" /\ match'.status = "complete" /\ waited' = waited
    /\ \/ match'.ms = match.ms /\ match'.termination # "timeout"
       \/ /\ match'.ms = [match.ms EXCEPT ![Turn(match)] = 0]
          /\ match'.termination = "timeout" /\ FlagFell(match)
    /\ match'.termination = "agreement" => match.offer = Other(e.by)

LEMMA EndsKeeps ==
    ASSUME ChessInv, NEW e, Ends(e)
    PROVE  ChessInv'
<1>1. Grows(e) /\ match.status = "active"
  BY DEF Ends, Grows
<1>2. ChessShapes' /\ RowFitsRecord' /\ TabsLag' /\ MovesFitTheBoard'
  BY <1>1, GrowsKeeps
<1>3. ClocksAccountForEveryTurn' /\ \A c \in Colours : match'.ms[c] <= Budget
  BY <1>1, ClocksRun DEF Ends
<1>4. OfferIsOdd' /\ WaitsEnd'
  BY DEF Ends, OfferIsOdd, WaitsEnd, ChessInv
<1>5. ASSUME match'.termination = "agreement"
      PROVE  \E k \in 1..MaxVersion :
                k % 2 = 1 /\ AskedInARow(Other(chessLog[Len(chessLog)].by), k)'
  <2> DEFINE n == Len(chessLog)
             c == Other(e.by)
  <2>1. /\ chessLog \in Seq(Events) /\ e \in Events /\ chessLog' = Append(chessLog, e)
        /\ n <= MaxVersion /\ n \in Nat
    BY <1>1 DEF ChessInv, ChessShapes, RowFitsRecord, Grows
  <2>2. /\ Len(chessLog') = n + 1 /\ \A i \in 1..n : chessLog'[i] = chessLog[i]
        /\ chessLog'[n + 1] = e
    BY <2>1, Appended
  <2>3. c \in Colours /\ match.offer = c
    BY <1>5, <2>1 DEF Ends, Events, Other, Colours
  <2>4. PICK k \in 0..n : EndsAsking(chessLog, c, k) /\ k % 2 = 1
    BY <1>1, <2>3 DEF ChessInv, OfferIsOdd
  <2>5. k \in 1..MaxVersion
    <3>1. k # 0
      BY <2>4
    <3> QED BY <2>1, <2>4, <3>1, ChessAssumption
  <2>6. /\ k <= n /\ \A i \in n - k + 1 .. n : AsksForDraw(chessLog, i, c)
        /\ k < n => ~AsksForDraw(chessLog, n - k, c)
    BY <2>4 DEF EndsAsking
  <2>7. Other(chessLog[Len(chessLog)].by)' = c
    BY <2>2
  <2> HIDE DEF n, c
  <2>8. \A i \in (n + 1) - k .. (n + 1) - 1 : chessLog'[i].kind = "draw" /\ chessLog'[i].by = c
    BY <2>1, <2>2, <2>5, <2>6 DEF AsksForDraw
  <2>9. k + 1 < n + 1 => ~(chessLog'[(n + 1) - k - 1].kind = "draw" /\ chessLog'[(n + 1) - k - 1].by = c)
    <3>1. (n + 1) - k - 1 = n - k
      BY <2>1, <2>5
    <3>2. k < n => n - k \in 1..n
      BY <2>1, <2>5
    <3> QED BY <2>1, <2>2, <2>5, <2>6, <3>1, <3>2 DEF AsksForDraw
  <2>10. AskedInARow(Other(chessLog[Len(chessLog)].by), k)'
    <3>1. k < n + 1
      BY <2>1, <2>5, <2>6
    <3> QED BY <2>2, <2>7, <2>8, <2>9, <3>1 DEF AskedInARow
  <2> QED BY <2>4, <2>5, <2>10
<1>6. DrawNeedsBoth'
  BY <1>5 DEF DrawNeedsBoth
<1> QED BY <1>2, <1>3, <1>4, <1>6 DEF ChessInv

\* A player asks for a draw, or takes his request back.
AsksDraw(e) ==
    /\ Grows(e) /\ e.kind = "draw" /\ match.offer # Other(e.by)
    /\ match'.status = "active" /\ match'.ms = match.ms /\ match'.termination = match.termination
    /\ match'.offer = IF match.offer = e.by THEN "none" ELSE e.by
    /\ waited' = waited

LEMMA DrawAskedKeeps ==
    ASSUME ChessInv, NEW e, AsksDraw(e)
    PROVE  ChessInv'
<1>1. /\ Grows(e) /\ match.status = "active" /\ e.kind # "move" /\ match.termination = "none"
      /\ match'.termination = "none"
  BY DEF AsksDraw, Grows, ChessInv, OfferIsOdd
<1>2. ChessShapes' /\ RowFitsRecord' /\ TabsLag' /\ MovesFitTheBoard'
  BY <1>1, GrowsKeeps
<1>3. ClocksAccountForEveryTurn' /\ \A c \in Colours : match'.ms[c] <= Budget
  BY <1>1, ClocksRun DEF AsksDraw
<1>4. WaitsEnd'
  <2>1. Turn(match') = Turn(match)
    BY <1>1 DEF Grows, Turn, ChessInv, ChessShapes, MatchRows
  <2> QED BY <1>1, <2>1 DEF AsksDraw, WaitsEnd, ChessInv
<1>5. /\ chessLog \in Seq(Events) /\ e \in Events /\ chessLog' = Append(chessLog, e)
      /\ e.by \in Colours /\ Len(chessLog') = Len(chessLog) + 1 /\ Len(chessLog) \in Nat
  BY <1>1, Appended DEF ChessInv, ChessShapes, Grows, Events
<1>6. ASSUME NEW c \in Colours
      PROVE  \E k \in 0..Len(chessLog') :
                /\ EndsAsking(chessLog', c, k)
                /\ k % 2 = IF match'.offer = c THEN 1 ELSE 0
  <2>1. PICK k \in 0..Len(chessLog) :
           EndsAsking(chessLog, c, k) /\ k % 2 = IF match.offer = c THEN 1 ELSE 0
    BY <1>1 DEF ChessInv, OfferIsOdd
  <2>2. CASE e.by = c
    <3>1. EndsAsking(chessLog', c, k + 1)
      BY <1>5, <2>1, <2>2, AskingAppended DEF AsksDraw
    <3>2. (k + 1) % 2 = IF match.offer = c THEN 0 ELSE 1
      BY <2>1
    <3>3. match'.offer = IF match.offer = c THEN "none" ELSE c
      BY <2>2 DEF AsksDraw
    <3>4. (k + 1) % 2 = IF match'.offer = c THEN 1 ELSE 0
      BY <3>2, <3>3 DEF Colours
    <3>5. k + 1 \in 0..Len(chessLog')
      BY <1>5
    <3> QED BY <3>1, <3>4, <3>5
  <2>3. CASE e.by # c
    <3>1. EndsAsking(chessLog', c, 0)
      BY <1>5, <2>1, <2>3, AskingAppended
    <3>2. match'.offer # c
      BY <2>3 DEF AsksDraw, Colours
    <3>3. 0 % 2 = 0 /\ 0 \in 0..Len(chessLog')
      BY <1>5
    <3> QED BY <3>1, <3>2, <3>3
  <2> QED BY <2>2, <2>3
<1>7. OfferIsOdd'
  BY <1>1, <1>6 DEF OfferIsOdd
<1>8. DrawNeedsBoth'
  BY <1>1 DEF DrawNeedsBoth
<1> QED BY <1>2, <1>3, <1>4, <1>7, <1>8 DEF ChessInv

\* A player moves.
Plays(e) ==
    /\ Grows(e) /\ e.kind = "move" /\ e.spent = waited /\ ~FlagFell(match)
    /\ match'.ms = [match.ms EXCEPT ![Turn(match)] = TimeLeft(match)]
    /\ match'.offer = "none" /\ waited' = 0
    /\ \/ match'.status = "active" /\ match'.termination = "none"
       \/ match'.status = "complete" /\ match'.termination \in {"checkmate", "drawn"}

LEMMA PlaysKeeps ==
    ASSUME ChessInv, NEW e, Plays(e)
    PROVE  ChessInv'
<1>1. /\ Grows(e) /\ match.status = "active" /\ match.termination = "none"
      /\ match'.termination # "timeout" /\ match'.termination # "agreement"
  BY DEF Plays, Grows, ChessInv, OfferIsOdd
<1>2. ChessShapes' /\ RowFitsRecord' /\ TabsLag' /\ MovesFitTheBoard'
  BY <1>1, GrowsKeeps
<1>3. /\ chessLog \in Seq(Events) /\ e \in Events /\ chessLog' = Append(chessLog, e)
      /\ Len(chessLog') = Len(chessLog) + 1 /\ Len(chessLog) \in Nat
      /\ waited \in Nat /\ match.ms \in [Colours -> Nat] /\ Budget \in Nat
      /\ Turn(match) \in Colours /\ e.by = Turn(match)
  BY <1>1, Appended, ChessAssumption
     DEF ChessInv, ChessShapes, Grows, Plays, MatchRows, Turn, Colours
<1>4. waited < match.ms[Turn(match)]
  BY <1>1, <1>3 DEF Plays, FlagFell
<1>5. \A c \in Colours : match'.ms[c] =
         IF c = e.by THEN match.ms[c] - waited ELSE match.ms[c]
  BY <1>3 DEF Plays, TimeLeft
<1>6. \A c \in Colours : /\ TimeSpent(c) \in Int
                         /\ TimeSpent(c)' = TimeSpent(c) + (IF e.by = c THEN waited ELSE 0)
  BY <1>3, TimesFit, TimeAppended DEF Plays
<1>7. \A c \in Colours : /\ match.ms[c] = Budget - TimeSpent(c) /\ match.ms[c] > 0
                         /\ match.ms[c] <= Budget /\ match.ms[c] \in Nat
  BY <1>1, <1>3 DEF ChessInv, ClocksAccountForEveryTurn
<1>8. ASSUME NEW c \in Colours
      PROVE  /\ match'.ms[c] = Budget - TimeSpent(c)' /\ match'.ms[c] > 0
             /\ match'.ms[c] <= Budget
  <2>1. CASE c = e.by
    <3>1. match'.ms[c] = match.ms[c] - waited /\ TimeSpent(c)' = TimeSpent(c) + waited
      BY <1>5, <1>6, <2>1
    <3>2. waited < match.ms[c]
      BY <1>3, <1>4, <2>1
    <3> QED BY <1>3, <1>6, <1>7, <3>1, <3>2
  <2>2. CASE c # e.by
    <3>1. match'.ms[c] = match.ms[c] /\ TimeSpent(c)' = TimeSpent(c)
      BY <1>5, <1>6, <2>2
    <3> QED BY <1>7, <3>1
  <2> QED BY <2>1, <2>2
<1>9. ClocksAccountForEveryTurn'
  BY <1>1, <1>8 DEF ClocksAccountForEveryTurn
<1>10. WaitsEnd'
  <2>1. match'.status \in {"active", "complete"} /\ waited' = 0 /\ match' \in MatchRows
    BY DEF Plays, Grows
  <2>2. Turn(match') \in Colours /\ match'.ms \in [Colours -> Nat]
    BY <2>1 DEF MatchRows, Turn, Colours
  <2>3. match'.ms[Turn(match')] \in Nat
    BY <2>2
  <2> QED BY <1>3, <2>1, <2>3 DEF WaitsEnd
<1>11. OfferIsOdd'
  <2>1. ASSUME NEW c \in Colours PROVE EndsAsking(chessLog', c, 0)
    <3>1. \E k \in Nat : EndsAsking(chessLog, c, k)
      BY <1>1, <1>3 DEF ChessInv, OfferIsOdd
    <3> QED BY <1>3, <3>1, AskingAppended DEF Plays
  <2>2. 0 % 2 = 0 /\ 0 \in 0..Len(chessLog')
    BY <1>3
  <2>3. \A c \in Colours : match'.offer # c
    BY DEF Plays, Colours
  <2>4. match'.status # "complete" => match'.termination = "none"
    BY DEF Plays
  <2> QED BY <2>1, <2>2, <2>3, <2>4 DEF OfferIsOdd
<1>12. DrawNeedsBoth'
  BY <1>1 DEF DrawNeedsBoth
<1> QED BY <1>2, <1>8, <1>9, <1>10, <1>11, <1>12 DEF ChessInv

-----------------------------------------------------------------------------
(* The actions. *)

LEMMA ShowsSees ==
    ASSUME NEW t \in Tabs, ChessInv, match' \in MatchRows, Shows(t, match')
    PROVE  SomeTabsSee
<1>1. [version |-> match'.version, ply |-> match'.ply] \in Views
  BY DEF MatchRows, Views
<1> QED BY <1>1 DEF Shows, SomeTabsSee, ChessInv, ChessShapes

LEMMA SameBoardSees == ASSUME ChessInv, board' = board PROVE SomeTabsSee
  BY DEF SomeTabsSee, ChessInv, ChessShapes

\* The row of a match that is completed
LEMMA CompletedRow ==
    ASSUME ChessInv, NEW r \in Results, NEW end \in Terminations
    PROVE  LET new == Completed(match, r, end) IN
               /\ new \in MatchRows /\ new.status = "complete" /\ new.version = match.version + 1
               /\ new.ply = match.ply /\ new.ms = match.ms /\ new.termination = end
<1> DEFINE new == Completed(match, r, end)
<1>1. /\ match \in MatchRows /\ match.version \in Nat
  BY DEF ChessInv, ChessShapes, MatchRows
<1>2. new = [match EXCEPT !.status = "complete", !.result = r, !.termination = end,
                          !.version = match.version + 1, !.offer = "none"]
  BY DEF Completed
<1> HIDE DEF new
<1>3. /\ new.status = "complete" /\ new.version = match.version + 1
      /\ new.ply = match.ply /\ new.ms = match.ms /\ new.termination = end
  BY <1>1, <1>2 DEF MatchRows
<1>4. new \in MatchRows
  <2>1. /\ "complete" \in {"none"} \cup Open \cup Closed /\ match.version + 1 \in Nat
        /\ "none" \in Colours \cup {"none"}
    BY <1>1 DEF Closed
  <2> QED BY <1>1, <1>2, <2>1 DEF MatchRows
<1> QED BY <1>3, <1>4 DEF new

LEMMA TimedOutRow ==
    ASSUME ChessInv
    PROVE  LET new == TimedOut(match) IN
               /\ new \in MatchRows /\ new.status = "complete" /\ new.version = match.version + 1
               /\ new.ply = match.ply /\ new.ms = [match.ms EXCEPT ![Turn(match)] = 0]
               /\ new.termination = "timeout"
<1> DEFINE r == FlagOutcome(match)
           new == Completed(match, r, "timeout")
<1>1. r \in Results /\ "timeout" \in Terminations /\ Turn(match) \in Colours
  BY DEF FlagOutcome, Other, Results, Colours, Terminations, Turn
<1>2. /\ new \in MatchRows /\ new.status = "complete" /\ new.version = match.version + 1
      /\ new.ply = match.ply /\ new.ms = match.ms /\ new.termination = "timeout"
  BY <1>1, CompletedRow
<1>3. TimedOut(match) = [new EXCEPT !.ms[Turn(match)] = 0]
  BY DEF TimedOut
<1> HIDE DEF new
<1> QED BY <1>1, <1>2, <1>3 DEF MatchRows

\* A flag falls, found by a player or by the sweep.
LEMMA FlagEnds ==
    ASSUME ChessInv, FlagFell(match), match' = TimedOut(match), SomeTabsSee, waited' = waited,
           Records([kind |-> "flag", by |-> Turn(match), spent |-> waited, shown |-> match.ply])
    PROVE  ChessInv'
<1> DEFINE e == [kind |-> "flag", by |-> Turn(match), spent |-> waited, shown |-> match.ply]
<1>1. e \in Events /\ e.kind = "flag"
  BY DEF ChessInv, ChessShapes, Events, Kinds, Turn, Colours, MatchRows
<1>2. chessLog' = Append(chessLog, e)
  BY DEF Records
<1> HIDE DEF e
<1>3. match.status = "active" /\ match.ply \in Nat /\ waited \in Nat
  BY DEF FlagFell, ChessInv, ChessShapes, MatchRows
<1>4. Ends(e)
  BY <1>1, <1>2, <1>3, TimedOutRow DEF Ends, Grows
<1> QED BY <1>4, EndsKeeps

LEMMA FindsFlagFallenKeeps ==
    ASSUME ChessInv, NEW t \in Tabs, FindsFlagFallen(t)
    PROVE  ChessInv'
<1>1. match' \in MatchRows
  BY TimedOutRow DEF FindsFlagFallen
<1>2. SomeTabsSee
  BY <1>1, ShowsSees DEF FindsFlagFallen
<1> QED BY <1>2, FlagEnds DEF FindsFlagFallen

\* The row of an invitation that is created, accepted, declined, cancelled or lapses
SameMatch ==
    /\ match' \in MatchRows /\ match'.version = match.version /\ match'.ply = match.ply
    /\ match'.ms = match.ms /\ match'.offer = match.offer
    /\ match'.termination = match.termination

LEMMA StatusRow ==
    ASSUME ChessInv, NEW st \in {"none"} \cup Open \cup Closed,
           match' = [match EXCEPT !.status = st]
    PROVE  SameMatch /\ match'.status = st
  BY DEF ChessInv, ChessShapes, SameMatch, MatchRows

LEMMA CreateInviteKeeps == ASSUME ChessInv, CreateInvite PROVE ChessInv'
<1>1. match.status = "none" /\ waited' = 0 /\ chessLog' = chessLog
  BY DEF CreateInvite
<1>2. SameMatch /\ match'.status = "waiting"
  BY StatusRow DEF CreateInvite, Open
<1>3. SomeTabsSee
  BY SameBoardSees DEF CreateInvite
<1>4. Stays
  BY <1>1, <1>2, <1>3 DEF Stays, SameMatch
<1>5. WaitsEnd'
  BY <1>1, <1>2, ChessAssumption DEF WaitsEnd
<1> QED BY <1>4, <1>5, StaysKeeps

LEMMA ClosesKeeps ==
    ASSUME ChessInv, match.status = "waiting", NEW st \in Closed, st # "complete",
           match' = [match EXCEPT !.status = st], chessLog' = chessLog, SomeTabsSee,
           waited' = waited
    PROVE  ChessInv'
<1>1. SameMatch /\ match'.status = st
  BY StatusRow
<1>2. Stays
  BY <1>1 DEF Stays, SameMatch, ChessInv, ChessShapes
<1>3. st \notin {"none", "waiting", "active"}
  BY DEF Closed
<1>4. WaitsEnd'
  BY <1>1, <1>3 DEF WaitsEnd, ChessInv
<1> QED BY <1>2, <1>4, StaysKeeps

LEMMA AcceptKeeps == ASSUME ChessInv, NEW p \in Players, Accept(p) PROVE ChessInv'
<1>1. /\ match.status = "waiting" /\ match \in MatchRows /\ SomeTabsSee /\ chessLog' = chessLog
  BY SameBoardSees DEF Accept, ChessInv, ChessShapes
<1>2. CASE Lapsed(match)
  <2>1. match' = [match EXCEPT !.status = "expired"] /\ waited' = waited /\ "expired" \in Closed
    BY <1>2 DEF Accept, Settled, Closed
  <2> QED BY <1>1, <2>1, ClosesKeeps
<1>3. CASE ~Lapsed(match)
  <2>1. match' = [match EXCEPT !.status = "active", !.black = p] /\ waited' = 0
    BY <1>3 DEF Accept
  <2>2. SameMatch /\ match'.status = "active"
    BY <1>1, <2>1 DEF SameMatch, MatchRows, Open
  <2>3. Stays /\ match' \in MatchRows
    BY <1>1, <2>1, <2>2 DEF Stays, SameMatch
  <2>4. match'.ms[Turn(match')] \in Nat
    <3>1. Turn(match') \in Colours /\ match'.ms \in [Colours -> Nat]
      BY <2>3 DEF MatchRows, Turn, Colours
    <3> QED BY <3>1
  <2>5. WaitsEnd'
    BY <2>1, <2>2, <2>4, ChessAssumption DEF WaitsEnd
  <2> QED BY <2>3, <2>5, StaysKeeps
<1> QED BY <1>2, <1>3

LEMMA DeclineKeeps == ASSUME ChessInv, NEW p \in Players, Decline(p) PROVE ChessInv'
<1>1. PICK st \in {"expired", "declined"} : match' = [match EXCEPT !.status = st]
  BY DEF Decline
<1>2. SomeTabsSee
  BY SameBoardSees DEF Decline
<1> QED BY <1>1, <1>2, ClosesKeeps DEF Decline, Closed

LEMMA CancelKeeps == ASSUME ChessInv, Cancel PROVE ChessInv'
<1>1. SomeTabsSee
  BY SameBoardSees DEF Cancel
<1> QED BY <1>1, ClosesKeeps DEF Cancel, StillWaiting, Closed

LEMMA LapsesKeeps ==
    ASSUME ChessInv, Lapsed(match), match' = Settled(match), chessLog' = chessLog, SomeTabsSee,
           waited' = waited
    PROVE  ChessInv'
  BY ClosesKeeps DEF Lapsed, Settled, Closed

LEMMA LooksKeeps ==
    ASSUME ChessInv, match' = match, chessLog' = chessLog, SomeTabsSee, waited' = waited
    PROVE  ChessInv'
<1>1. Stays
  BY DEF Stays, ChessInv, ChessShapes
<1>2. WaitsEnd'
  BY DEF WaitsEnd, ChessInv
<1> QED BY <1>1, <1>2, StaysKeeps

LEMMA ViewKeeps == ASSUME ChessInv, NEW t \in Tabs, View(t) PROVE ChessInv'
<1>1. CASE FindsFlagFallen(t)
  BY <1>1, FindsFlagFallenKeeps
<1>2. CASE /\ ~FlagFell(match)
           /\ match' = Settled(match) /\ Shows(t, match')
           /\ UNCHANGED <<waited, chessLog>>
  <2>1. CASE Lapsed(match)
    <3>1. match' = [match EXCEPT !.status = "expired"] /\ match \in MatchRows
      BY <1>2, <2>1 DEF Settled, ChessInv, ChessShapes
    <3>2. match' \in MatchRows
      BY <3>1 DEF MatchRows, Closed
    <3> QED BY <1>2, <2>1, <3>2, ShowsSees, LapsesKeeps
  <2>2. CASE ~Lapsed(match)
    <3>1. match' = match /\ match' \in MatchRows
      BY <1>2, <2>2 DEF Settled, ChessInv, ChessShapes
    <3> QED BY <1>2, <3>1, ShowsSees, LooksKeeps
  <2> QED BY <2>1, <2>2
<1> QED BY <1>1, <1>2 DEF View

LEMMA SweepKeeps == ASSUME ChessInv, Sweep PROVE ChessInv'
<1>1. SomeTabsSee /\ match' = Settled(match) /\ match' # match /\ waited' = waited
  BY SameBoardSees DEF Sweep, Swept
<1>2. CASE Lapsed(match)
  <2>1. ~FlagFell(match)
    BY <1>2 DEF Lapsed, FlagFell
  <2> QED BY <1>1, <1>2, <2>1, LapsesKeeps DEF Sweep
<1>3. CASE ~Lapsed(match)
  <2>1. FlagFell(match) /\ match' = TimedOut(match)
    BY <1>1, <1>3 DEF Settled
  <2> QED BY <1>1, <2>1, FlagEnds DEF Sweep
<1> QED BY <1>2, <1>3

LEMMA ClockTicksKeeps == ASSUME ChessInv, ClockTicks PROVE ChessInv'
<1>1. SomeTabsSee
  BY SameBoardSees DEF ClockTicks
<1>2. /\ match' = match /\ match.status \in {"waiting", "active"} /\ waited' = waited + 1
      /\ waited \in Nat /\ match \in MatchRows
  BY DEF ClockTicks, Open, ChessInv, ChessShapes
<1>3. Stays
  BY <1>1, <1>2 DEF Stays, ClockTicks
<1>4. CASE match.status = "waiting"
  <2>1. waited < InviteTtl
    BY <1>2, <1>4, ChessAssumption DEF ClockTicks, Lapsed
  <2>2. WaitsEnd'
    BY <1>2, <1>4, <2>1, ChessAssumption DEF WaitsEnd
  <2> QED BY <1>3, <2>2, StaysKeeps
<1>5. CASE match.status = "active"
  <2>1. Turn(match) \in Colours /\ match.ms \in [Colours -> Nat]
    BY <1>2 DEF MatchRows, Turn, Colours
  <2>2. match.ms[Turn(match)] \in Nat /\ match.ms[Turn(match)] <= Budget
    BY <2>1 DEF ChessInv
  <2>3. waited + 1 <= match.ms[Turn(match)]
    BY <1>2, <1>5, <2>2 DEF ClockTicks, FlagFell
  <2>4. WaitsEnd'
    BY <1>2, <1>5, <2>2, <2>3, ChessAssumption DEF WaitsEnd
  <2> QED BY <1>3, <2>4, StaysKeeps
<1> QED BY <1>2, <1>4, <1>5

LEMMA ResignKeeps == ASSUME ChessInv, NEW t \in Tabs, Resign(t) PROVE ChessInv'
<1>1. CASE FindsFlagFallen(t)
  BY <1>1, FindsFlagFallenKeeps
<1>2. CASE ~FindsFlagFallen(t)
  <2> DEFINE c == ColourOf(match, Holder[t])
             e == [kind |-> "resign", by |-> c, spent |-> 0, shown |-> match.ply]
  <2>1. /\ match.status = "active" /\ match' = Completed(match, Other(c), "resignation")
        /\ chessLog' = Append(chessLog, e) /\ Shows(t, match') /\ waited' = waited
        /\ waited \in Nat
    BY <1>2 DEF Resign, Records, ChessInv, ChessShapes
  <2>2. e \in Events /\ e.kind = "resign" /\ Other(c) \in Results /\ "resignation" \in Terminations
    BY DEF Events, Kinds, ColourOf, Colours, Other, Results, Terminations, ChessInv, ChessShapes, MatchRows
  <2> HIDE DEF c, e
  <2>3. /\ match' \in MatchRows /\ match'.status = "complete" /\ match'.version = match.version + 1
        /\ match'.ply = match.ply /\ match'.ms = match.ms /\ match'.termination = "resignation"
    BY <2>1, <2>2, CompletedRow
  <2>4. match.ply \in Nat /\ SomeTabsSee
    BY <2>1, <2>3, ShowsSees DEF ChessInv, ChessShapes, MatchRows
  <2>5. Ends(e)
    BY <2>1, <2>2, <2>3, <2>4 DEF Ends, Grows
  <2> QED BY <2>5, EndsKeeps
<1> QED BY <1>1, <1>2

LEMMA DrawKeeps == ASSUME ChessInv, NEW t \in Tabs, Draw(t) PROVE ChessInv'
<1>1. CASE FindsFlagFallen(t)
  BY <1>1, FindsFlagFallenKeeps
<1>2. CASE ~FindsFlagFallen(t)
  <2> DEFINE c == ColourOf(match, Holder[t])
             e == [kind |-> "draw", by |-> c, spent |-> 0, shown |-> match.ply]
  <2>1. /\ match.status = "active" /\ match.version < MaxVersion
        /\ match' = IF Accepts(c) THEN Completed(match, "draw", "agreement")
                    ELSE [match EXCEPT !.version = @ + 1, !.offer = IF @ = c THEN "none" ELSE c]
        /\ chessLog' = Append(chessLog, e) /\ Shows(t, match') /\ waited' = waited
        /\ waited \in Nat /\ match \in MatchRows
    BY <1>2 DEF Draw, Records, ChessInv, ChessShapes
  <2>2. e \in Events /\ e.kind = "draw" /\ e.by = c /\ c \in Colours
    BY DEF Events, Kinds, ColourOf, Colours, ChessInv, ChessShapes, MatchRows
  <2> HIDE DEF c, e
  <2>3. CASE Accepts(c)
    <3>1. "draw" \in Results /\ "agreement" \in Terminations
      BY DEF Results, Terminations
    <3>2. /\ match' \in MatchRows /\ match'.status = "complete" /\ match'.version = match.version + 1
          /\ match'.ply = match.ply /\ match'.ms = match.ms /\ match'.termination = "agreement"
      BY <2>1, <2>3, <3>1, CompletedRow
    <3>3. match.ply \in Nat /\ SomeTabsSee
      BY <2>1, <3>2, ShowsSees DEF MatchRows
    <3>4. Ends(e)
      BY <2>1, <2>2, <2>3, <3>2, <3>3 DEF Ends, Grows, Accepts
    <3> QED BY <3>4, EndsKeeps
  <2>4. CASE ~Accepts(c)
    <3> DEFINE o == IF match.offer = c THEN "none" ELSE c
               v == match.version + 1
    <3>1. match' = [match EXCEPT !.version = v, !.offer = o]
      BY <2>1, <2>4
    <3>2. o \in Colours \cup {"none"} /\ v \in Nat
      BY <2>1, <2>2 DEF MatchRows
    <3>3. v = match.version + 1 /\ (o = IF match.offer = c THEN "none" ELSE c)
      OBVIOUS
    <3> HIDE DEF o, v
    <3>4. /\ match' \in MatchRows /\ match'.version = v /\ match'.offer = o
          /\ match'.ply = match.ply /\ match'.ms = match.ms /\ match'.status = match.status
          /\ match'.termination = match.termination
      BY <2>1, <3>1, <3>2 DEF MatchRows
    <3>5. match.ply \in Nat /\ SomeTabsSee
      BY <2>1, <3>4, ShowsSees DEF MatchRows
    <3>6. AsksDraw(e)
      BY <2>1, <2>2, <2>4, <3>3, <3>4, <3>5 DEF AsksDraw, Grows, Accepts
    <3> QED BY <3>6, DrawAskedKeeps
  <2> QED BY <2>3, <2>4
<1> QED BY <1>1, <1>2

LEMMA MovedRow ==
    ASSUME ChessInv, NEW left \in Nat, NEW mates \in SUBSET Colours,
           NEW end \in {"none", "checkmate", "drawn"}, match' = Moved(match, left, mates, end)
    PROVE  /\ match' \in MatchRows /\ match'.version = match.version + 1
           /\ match'.ply = match.ply + 1
           /\ match'.ms = [match.ms EXCEPT ![Turn(match)] = left]
           /\ match'.offer = "none" /\ match'.termination = end
           /\ match'.status = IF end = "none" THEN "active" ELSE "complete"
<1> DEFINE st == IF end = "none" THEN "active" ELSE "complete"
           r == CASE end = "none" -> "none"
                  [] end = "checkmate" -> Turn(match)
                  [] OTHER -> "draw"
           clocks == [match.ms EXCEPT ![Turn(match)] = left]
           new == MovedKeepingOffer(match, left, mates, end)
<1>1. match \in MatchRows /\ match.version + 1 \in Nat /\ match.ply + 1 \in Nat
  BY DEF ChessInv, ChessShapes, MatchRows
<1>2. Turn(match) \in Colours /\ clocks \in [Colours -> Nat]
  BY <1>1 DEF Turn, Colours, MatchRows
<1>3. r \in Results /\ st \in {"none"} \cup Open \cup Closed /\ end \in Terminations
  BY <1>2 DEF Results, Open, Closed, Terminations
<1>4. new = [match EXCEPT !.version = match.version + 1, !.ply = match.ply + 1, !.ms = clocks,
                          !.canMate = mates, !.status = st, !.result = r, !.termination = end]
  BY <1>1 DEF MovedKeepingOffer, MatchRows
<1>5. match' = [new EXCEPT !.offer = "none"]
  BY DEF Moved
<1>6. st = IF end = "none" THEN "active" ELSE "complete"
  OBVIOUS
<1> HIDE DEF st, r, clocks, new
<1>7. /\ new \in MatchRows /\ new.version = match.version + 1 /\ new.ply = match.ply + 1
      /\ new.ms = clocks /\ new.termination = end /\ new.status = st
  BY <1>1, <1>2, <1>3, <1>4 DEF MatchRows
<1>8. /\ match' \in MatchRows /\ match'.version = match.version + 1 /\ match'.ply = match.ply + 1
      /\ match'.ms = clocks /\ match'.termination = end /\ match'.status = st
      /\ match'.offer = "none"
  BY <1>5, <1>7 DEF MatchRows
<1> QED BY <1>6, <1>8 DEF clocks

LEMMA MoveKeeps == ASSUME ChessInv, NEW t \in Tabs, Move(t) PROVE ChessInv'
<1>1. CASE FindsFlagFallen(t)
  BY <1>1, FindsFlagFallenKeeps
<1>2. CASE ~FindsFlagFallen(t)
  <2> DEFINE e == [kind |-> "move", by |-> ColourOf(match, Holder[t]), spent |-> waited,
                   shown |-> board[t].ply]
  <2>1. /\ match.status = "active" /\ match.version < MaxVersion /\ ~FlagFell(match)
        /\ board[t].version = match.version /\ HasTheTurn(t)
        /\ chessLog' = Append(chessLog, e) /\ waited' = 0 /\ Shows(t, match')
        /\ match \in MatchRows /\ waited \in Nat /\ board[t].ply = match.ply
    BY <1>2 DEF Move, OnThisVersion, Records, ChessInv, ChessShapes, TabsLag
  <2>2. PICK mates \in {match.canMate, match.canMate \ {Other(Turn(match))}} :
           \E end \in Endings(match, mates) :
              match' = Moved(match, TimeLeft(match), mates, end)
    BY <1>2 DEF Move
  <2>3. PICK end \in Endings(match, mates) : match' = Moved(match, TimeLeft(match), mates, end)
    BY <2>2
  <2>4. mates \in SUBSET Colours /\ end \in {"none", "checkmate", "drawn"}
    BY <2>1 DEF MatchRows, Endings
  <2>5. TimeLeft(match) \in Nat
    <3>1. Turn(match) \in Colours /\ match.ms \in [Colours -> Nat]
      BY <2>1 DEF MatchRows, Turn, Colours
    <3>2. match.ms[Turn(match)] \in Nat /\ waited < match.ms[Turn(match)]
      BY <2>1, <3>1 DEF FlagFell
    <3> QED BY <2>1, <3>2 DEF TimeLeft
  <2>6. /\ match' \in MatchRows /\ match'.version = match.version + 1 /\ match'.ply = match.ply + 1
        /\ match'.ms = [match.ms EXCEPT ![Turn(match)] = TimeLeft(match)]
        /\ match'.offer = "none" /\ match'.termination = end
        /\ match'.status = IF end = "none" THEN "active" ELSE "complete"
    BY <2>3, <2>4, <2>5, MovedRow
  <2>7. /\ e \in Events /\ e.kind = "move" /\ e.shown = match.ply /\ e.spent = waited
        /\ e.by = Turn(match)
    BY <2>1 DEF Events, Kinds, ColourOf, Colours, HasTheTurn, MatchRows
  <2> HIDE DEF e
  <2>8. SomeTabsSee
    BY <2>1, <2>6, ShowsSees
  <2>9. Grows(e)
    BY <2>1, <2>6, <2>7, <2>8 DEF Grows
  <2>10. Plays(e)
    BY <2>1, <2>4, <2>6, <2>7, <2>9 DEF Plays
  <2> QED BY <2>10, PlaysKeeps
<1> QED BY <1>1, <1>2

LEMMA ChessStepKeeps == ASSUME ChessInv, [ChessNext]_chessVars PROVE ChessInv'
<1>1. CASE CreateInvite \/ Cancel \/ Sweep \/ ClockTicks
  BY <1>1, CreateInviteKeeps, CancelKeeps, SweepKeeps, ClockTicksKeeps
<1>2. CASE \E p \in Players : Accept(p) \/ Decline(p)
  BY <1>2, AcceptKeeps, DeclineKeeps
<1>3. CASE \E t \in Tabs : View(t) \/ Move(t) \/ Resign(t) \/ Draw(t)
  BY <1>3, ViewKeeps, MoveKeeps, ResignKeeps, DrawKeeps
<1>4. CASE UNCHANGED chessVars
  BY <1>4, SameBoardSees, LooksKeeps DEF chessVars
<1> QED BY <1>1, <1>2, <1>3, <1>4 DEF ChessNext

\* The invariant of a match: its record, its clocks, its offers and its tabs agree.
THEOREM ChessInvariant == ChessSpec => []ChessInv
<1>1. ChessInit => ChessInv
  BY ChessStarts
<1>2. ChessInv /\ [ChessNext]_chessVars => ChessInv'
  BY ChessStepKeeps
<1> QED BY <1>1, <1>2, PTL DEF ChessSpec

\* Type correctness, with the clocks within the budget and the plies within the versions
THEOREM ChessTypes == ChessSpec => []ChessTypeOK
<1>1. ChessInv => ChessTypeOK
  <2> SUFFICES ASSUME ChessInv PROVE ChessTypeOK
    OBVIOUS
  <2>1. /\ match \in MatchRows /\ waited \in Nat
        /\ match.version <= MaxVersion + 1 /\ match.ply <= match.version
        /\ waited <= InviteTtl \/ waited <= Budget
    BY DEF ChessInv, ChessShapes, RowFitsRecord, WaitsEnd
  <2>2. match.ms \in [Colours -> 0..Budget]
    BY <2>1, ChessAssumption DEF ChessInv, MatchRows
  <2>3. \A t \in Tabs : board[t].version \in -1..match.version
    BY <2>1 DEF ChessInv, ChessShapes, Views, TabsLag, MatchRows
  <2>4. waited \in 0..(IF InviteTtl > Budget THEN InviteTtl ELSE Budget)
    BY <2>1, ChessAssumption
  <2>5. match.version \in 0..MaxVersion + 1 /\ match.ply \in 0..match.version
    BY <2>1, ChessAssumption DEF MatchRows
  <2> QED BY <2>1, <2>2, <2>3, <2>4, <2>5 DEF ChessTypeOK, MatchRows
<1> QED BY <1>1, ChessInvariant, PTL

\* The moves of the record alternate, and each was chosen by a player who looked at the
\* position it was played on (move's version and turn checks).
THEOREM MovesHold == ChessSpec => []MovesFitTheBoard
<1>1. ChessInv => MovesFitTheBoard
  BY DEF ChessInv
<1> QED BY <1>1, ChessInvariant, PTL

\* A clock is its budget less the time of its colour's moves, until its flag falls.
THEOREM ClocksHold == ChessSpec => []ClocksAccountForEveryTurn
<1>1. ChessInv => ClocksAccountForEveryTurn
  BY DEF ChessInv
<1> QED BY <1>1, ChessInvariant, PTL

\* A draw is agreed only by two players, on one position (offerOrAcceptDraw).
THEOREM DrawHolds == ChessSpec => []DrawNeedsBoth
<1>1. ChessInv => DrawNeedsBoth
  BY DEF ChessInv
<1> QED BY <1>1, ChessInvariant, PTL
=============================================================================
