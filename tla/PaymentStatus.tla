--------------------------- MODULE PaymentStatus ---------------------------
(***************************************************************************)
(* The states of an OnSwitch payment and the moves between them            *)
(* (src/src/payments/onswitch/payments.ts).                                *)
(***************************************************************************)

Statuses == {"created", "quoted", "initiating", "awaiting_fiat", "awaiting_chain",
             "chain_submitted", "processing", "completed", "failed", "expired",
             "blocked", "scheduled", "reversed", "unknown", "manual_review"}

\* What may become of a payment that is with the provider.
Outcomes == {"completed", "failed", "blocked", "scheduled", "unknown", "manual_review"}

allowedNext ==
    [created         |-> {"quoted", "initiating", "failed", "expired", "unknown", "manual_review"},
     quoted          |-> {"initiating", "failed", "expired", "unknown", "manual_review"},
     initiating      |-> Outcomes \cup {"awaiting_fiat", "awaiting_chain", "processing", "expired"},
     awaiting_fiat   |-> Outcomes \cup {"processing", "expired"},
     awaiting_chain  |-> Outcomes \cup {"chain_submitted", "processing", "expired"},
     chain_submitted |-> Outcomes \cup {"processing"},
     processing      |-> Outcomes \cup {"reversed"},
     completed       |-> {"reversed"},
     failed          |-> {},
     expired         |-> {},
     blocked         |-> (Outcomes \ {"blocked"}) \cup {"processing", "reversed"},
     scheduled       |-> (Outcomes \ {"scheduled"}) \cup {"processing", "reversed"},
     reversed        |-> {},
     unknown         |-> (Outcomes \ {"unknown"}) \cup
                         {"awaiting_fiat", "awaiting_chain", "chain_submitted", "processing",
                          "expired", "reversed"},
     manual_review   |-> {}]

isPaymentTerminal(s) == s \in {"completed", "failed", "expired", "reversed"}

canTransitionPayment(from, to) == from = to \/ to \in allowedNext[from]

\* The provider's words.  "UNLISTED" is any word the table does not have.
ProviderStatuses == {"AWAITING_DEPOSIT", "AWAITING_PAYMENT", "PROCESSING", "COMPLETED",
                     "FAILED", "EXPIRED", "BLOCKED", "SCHEDULED", "REVERSED", "UNLISTED"}

providerStatuses ==
    [AWAITING_DEPOSIT |-> "awaiting_chain", AWAITING_PAYMENT |-> "awaiting_fiat",
     PROCESSING |-> "processing", COMPLETED |-> "completed", FAILED |-> "failed",
     EXPIRED |-> "expired", BLOCKED |-> "blocked", SCHEDULED |-> "scheduled",
     REVERSED |-> "reversed", UNLISTED |-> "unknown"]

normalizeProviderStatus(word, kind) ==
    IF word = "AWAITING_DEPOSIT" /\ kind = "onramp" THEN "awaiting_fiat"
    ELSE providerStatuses[word]
=============================================================================
