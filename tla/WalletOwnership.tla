-------------------------- MODULE WalletOwnership ---------------------------
(***************************************************************************)
(* Proof that an account controls a wallet address: OwnershipService and   *)
(* OwnershipRepository of src/src/portfolio.                               *)
(*                                                                         *)
(* register is one database transaction that locks the key of the request, *)
(* the challenge and the owner of the address in this order, and is one    *)
(* action.  A signature verifies only if the account's holder controls the *)
(* key of the address; several accounts may belong to one holder.          *)
(***************************************************************************)
EXTENDS Integers

CONSTANTS Users, Addresses, Challenges, RegistrationKeys,
          Signs,            \* [Users -> SUBSET Addresses]: addresses the user can sign for
          MaxFailedProofs,  \* failed proofs a challenge survives
          Nobody

ChallengeRows == [user : Users, address : Addresses, expired : BOOLEAN, consumed : BOOLEAN,
                  failures : Nat]
Answers == [challenge : Challenges, address : Addresses]

ASSUME OwnershipAssumption ==
    /\ Nobody \notin Users /\ Nobody \notin ChallengeRows /\ Nobody \notin Answers
    /\ MaxFailedProofs \in Nat

VARIABLES
    challenge,   \* [Challenges -> row of wallet_ownership_challenges, or Nobody]
    owner,       \* [Addresses -> Users \cup {Nobody}], wallet_account_ownership
    answered,    \* [Users \X RegistrationKeys -> answer or Nobody], wallet_registration_idempotency
    proofs       \* history: the registrations each challenge was good for

ownershipVars == <<challenge, owner, answered, proofs>>

OwnershipInit ==
    /\ challenge = [c \in Challenges |-> Nobody]
    /\ owner = [a \in Addresses |-> Nobody]
    /\ answered = [k \in Users \X RegistrationKeys |-> Nobody]
    /\ proofs = [c \in Challenges |-> {}]

\* createChallenge
Challenge(c, u, a) ==
    /\ challenge[c] = Nobody
    /\ challenge' = [challenge EXCEPT ![c] =
           [user |-> u, address |-> a, expired |-> FALSE, consumed |-> FALSE, failures |-> 0]]
    /\ UNCHANGED <<owner, answered, proofs>>

\* The expiry of a challenge that was consumed is not looked at.
ChallengeExpires(c) ==
    /\ challenge[c] # Nobody /\ ~challenge[c].expired /\ ~challenge[c].consumed
    /\ challenge' = [challenge EXCEPT ![c].expired = TRUE]
    /\ UNCHANGED <<owner, answered, proofs>>

\* Mutant: a challenge may prove again what it has proved.
Reusable(c) == ~challenge[c].expired /\ challenge[c].failures < MaxFailedProofs

Usable(c) ==
    ~challenge[c].consumed /\ ~challenge[c].expired /\ challenge[c].failures < MaxFailedProofs

\* register, past the look-up of an earlier answer to this key
MayProve(u, c, a) ==
    challenge[c] # Nobody /\ challenge[c].user = u /\ Usable(c) /\ challenge[c].address = a

\* register with a bad signature: it commits, so that the failure counts.
ProofFails(u, c, a, k) ==
    /\ answered[<<u, k>>] = Nobody /\ MayProve(u, c, a)
    /\ challenge' = [challenge EXCEPT ![c].failures = @ + 1]
    /\ UNCHANGED <<owner, answered, proofs>>

FreeFor(u, a) == owner[a] \in {u, Nobody}

\* verifyOwnership: the signature is one of the address's key over the challenge.
Verifies(u, a) == a \in Signs[u]

\* register with a good signature
Register(u, c, a, k) ==
    /\ answered[<<u, k>>] = Nobody /\ MayProve(u, c, a)
    /\ Verifies(u, a) /\ FreeFor(u, a)
    /\ owner' = [owner EXCEPT ![a] = u]
    /\ challenge' = [challenge EXCEPT ![c].consumed = TRUE]
    /\ answered' = [answered EXCEPT ![<<u, k>>] = [challenge |-> c, address |-> a]]
    /\ proofs' = [proofs EXCEPT ![c] = @ \cup {<<u, k>>}]

OwnershipNext ==
    \E c \in Challenges :
        \/ ChallengeExpires(c)
        \/ \E u \in Users, a \in Addresses :
              \/ Challenge(c, u, a)
              \/ \E k \in RegistrationKeys : ProofFails(u, c, a, k) \/ Register(u, c, a, k)

OwnershipTypeOK ==
    /\ \A c \in Challenges : challenge[c] # Nobody =>
          challenge[c].user \in Users /\ challenge[c].failures \in 0..MaxFailedProofs
    /\ owner \in [Addresses -> Users \cup {Nobody}]

\* Who owns an address has signed for it, with a challenge of his own for that
\* address; a challenge is good for one registration, though it is retried with
\* another key or raced; and an address never passes to another account.
OwnersHaveProved ==
    /\ \A c \in Challenges : \A p, q \in proofs[c] : p = q
    /\ \A a \in Addresses : owner[a] # Nobody =>
          /\ a \in Signs[owner[a]]
          /\ \E c \in Challenges : /\ \E k \in RegistrationKeys : proofs[c] = {<<owner[a], k>>}
                                   /\ challenge[c].address = a /\ challenge[c].user = owner[a]
    /\ \A u \in Users, k \in RegistrationKeys :
          answered[<<u, k>>] # Nobody => owner[answered[<<u, k>>].address] = u
=============================================================================
