------------------------------ MODULE MCServices -----------------------------
(***************************************************************************)
(* The services beside the three large components: accounts and sessions,  *)
(* deposits with the ownership of wallets, a player's limits, a chess      *)
(* match, intents with their idempotency keys, the payment catalogue, the  *)
(* terms of a payment, and the social floor.  No two of the modules share  *)
(* a variable: where two are about one table (payments, in the modules of  *)
(* intents and terms), each has the columns it decides by, and what others *)
(* do to them is an action of its own.  So a behaviour of the process is,  *)
(* for each of them, a behaviour of that part and stuttering.  "part" is   *)
(* the part looked at; the others rest in their initial states.            *)
(***************************************************************************)
EXTENDS AuthSessions, ArcadeDeposits, ArcadeLimits, ChessMatches, TransactionIntents,
        PaymentTerms, PaymentCatalogue, FloorPosts, TLC

CONSTANTS a1,                         \* an address
          ann, ben, cat, t1, t2, t3   \* players of the match and their tabs

VARIABLES part

\* Both users can sign for the address: it is whose proof comes first.
EitherSigns == [u \in Users |-> {a1}]

\* The creator has two tabs, the guest one; two calls share a process.
OneOfThem == t1 :> ann @@ t2 :> ann @@ t3 :> ben

OneEach == [g \in Games |-> 1]

servicesVars == <<part, authVars, moneyInVars, limitsVars, chessVars, intentVars,
                  catalogueVars, termsVars, floorVars>>

ServicesInit ==
    /\ part \in {"accounts", "deposits", "limits", "chess", "trading", "catalogue", "terms",
                "floor"}
    /\ Init /\ DepositsInit /\ LimitsInit /\ ChessInit /\ IntentsInit
    /\ CatalogueInit /\ TermsInit /\ FloorInit
    /\ part # "terms" => price = 1

ServicesNext ==
    /\ \/ part = "accounts" /\ Next
          /\ UNCHANGED <<moneyInVars, limitsVars, chessVars, intentVars,
                         catalogueVars, termsVars, floorVars>>
       \/ part = "deposits" /\ DepositsNext
          /\ UNCHANGED <<authVars, limitsVars, chessVars, intentVars,
                         catalogueVars, termsVars, floorVars>>
       \/ part = "limits" /\ LimitsNext
          /\ UNCHANGED <<authVars, moneyInVars, chessVars, intentVars,
                         catalogueVars, termsVars, floorVars>>
       \/ part = "chess" /\ ChessNext
          /\ UNCHANGED <<authVars, moneyInVars, limitsVars, intentVars,
                         catalogueVars, termsVars, floorVars>>
       \/ part = "trading" /\ IntentsNext
          /\ UNCHANGED <<authVars, moneyInVars, limitsVars, chessVars,
                         catalogueVars, termsVars, floorVars>>
       \/ part = "catalogue" /\ CatalogueNext
          /\ UNCHANGED <<authVars, moneyInVars, limitsVars, chessVars,
                         intentVars, termsVars, floorVars>>
       \/ part = "terms" /\ TermsNext
          /\ UNCHANGED <<authVars, moneyInVars, limitsVars, chessVars,
                         intentVars, catalogueVars, floorVars>>
       \/ part = "floor" /\ FloorNext
          /\ UNCHANGED <<authVars, moneyInVars, limitsVars, chessVars,
                         intentVars, catalogueVars, termsVars>>
    /\ UNCHANGED part

ServicesSpec == ServicesInit /\ [][ServicesNext]_servicesVars

\* Sessions, links and requests are interchangeable, and so is all that is
\* named after them.
Symmetry == Permutations(Sessions) \cup Permutations(Links) \cup Permutations(Requests)

-----------------------------------------------------------------------------
\* Every part is well formed.
TypesOK ==
    TypeOK /\ DepositsTypeOK /\ LimitsTypeOK /\ ChessTypeOK /\ IntentsTypeOK
    /\ CatalogueTypeOK /\ TermsTypeOK /\ FloorTypeOK
=============================================================================
