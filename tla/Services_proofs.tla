--------------------------- MODULE Services_proofs ---------------------------
(***************************************************************************)
(* The composition of the services: each of its behaviours is one of every *)
(* part, so what was proved of a part by itself holds of it here.          *)
(***************************************************************************)
EXTENDS MCServices, AccountServices_proofs, ArcadeServices_proofs, PaymentServices_proofs

\* A step of the composition is of one part, and leaves the variables of the others.
LEMMA PartsStep ==
    ASSUME [ServicesNext]_servicesVars
    PROVE  /\ [Next]_authVars /\ [DepositsNext]_moneyInVars /\ [LimitsNext]_limitsVars
           /\ [ChessNext]_chessVars /\ [IntentsNext]_intentVars
           /\ [CatalogueNext]_catalogueVars /\ [TermsNext]_termsVars /\ [FloorNext]_floorVars
  BY DEF ServicesNext, servicesVars

\* The services do not disturb each other: a behaviour of MCServices is one of each
\* of them, with their own initial states and steps.
THEOREM PartsImplemented ==
    ServicesSpec => /\ Spec /\ DepositsSpec /\ LimitsSpec /\ ChessSpec /\ IntentsSpec
                    /\ CatalogueSpec /\ TermsSpec /\ FloorSpec
<1>1. ServicesInit => /\ Init /\ DepositsInit /\ LimitsInit /\ ChessInit /\ IntentsInit
                      /\ CatalogueInit /\ TermsInit /\ FloorInit
  BY DEF ServicesInit
<1> QED
  BY <1>1, PartsStep, PTL
  DEF ServicesSpec, Spec, DepositsSpec, LimitsSpec, ChessSpec, IntentsSpec, CatalogueSpec,
      TermsSpec, FloorSpec

\* Type correctness of all the services together
THEOREM TypesHold == ServicesSpec => []TypesOK
<1>1. /\ TypeOK /\ DepositsTypeOK /\ LimitsTypeOK /\ ChessTypeOK /\ IntentsTypeOK
      /\ CatalogueTypeOK /\ TermsTypeOK /\ FloorTypeOK
      => TypesOK
  BY DEF TypesOK
<1> QED
  BY <1>1, PartsImplemented, SessionsTypes, DepositsTypes, LimitsTypes, ChessTypes, IntentsTypes,
     CatalogueTypes, TermsTypes, FloorTypes, PTL

\* What each service promises holds beside the others: the safety of the run of all
\* eight, for every value of the constants.
THEOREM ServicesHold ==
    ServicesSpec =>
        /\ [](OneTokenPerFamily /\ NoSessionOutlivesThePassword /\ GuessesAreBounded)
        /\ [](CreditedOnceToTheSender /\ OwnersHaveProved /\ CursorPassesOnlyWhatWasSeen)
        /\ OnlyOverlapPassesALimit /\ OnlyOverlapShortensAnExclusion
        /\ [](MovesFitTheBoard /\ ClocksAccountForEveryTurn /\ DrawNeedsBoth)
        /\ [](OneIntentPerKey /\ PaymentTransferIsBound)
        /\ [](CatalogueIsRecent /\ PaidOnReviewedTerms /\ CountsFollowTheRows)
  BY PartsImplemented, OneTokenHolds, NoSessionOutlives, GuessesHold, CreditedOnceHolds,
     OwnersHaveProvedHolds, CursorHolds, LimitsHoldWithoutOverlap, ExclusionsLast, MovesHold,
     ClocksHold, DrawHolds, OneIntentHolds, TransferIsBoundHolds, CatalogueRecentHolds,
     ReviewedTermsHold, CountsHold, PTL
=============================================================================
