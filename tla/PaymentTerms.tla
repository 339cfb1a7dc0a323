---------------------------- MODULE PaymentTerms ----------------------------
(***************************************************************************)
(* The terms a user reviews and the terms he is told to pay on: quote,     *)
(* initiateOnramp and initiateOfframp of src/src/payments/onswitch         *)
(* journeys, and the answers of the provider that carry deposit            *)
(* instructions.                                                           *)
(*                                                                         *)
(* It is the data PaymentOperations leaves out, for one route and amount.  *)
(* The terms are the rate, the fee and both amounts; the provider changes  *)
(* them when it likes, also of a payment it has taken.  A quote backs one  *)
(* payment, which is named by it here.  Each step of a task is an answer   *)
(* of the provider or a transaction, and a task may end after any.         *)
(***************************************************************************)
EXTENDS FiniteSets

CONSTANTS PaymentQuotes,
          Tasks,    \* requests of users, and polls of the worker
          Terms,    \* what the provider may offer
          Garbled,  \* an answer out of shape, for another route, or without instructions
          NoTerms, NoTask

Quoted == [terms : Terms, expired : BOOLEAN]

ASSUME TermsAssumption == NoTerms \notin Quoted

VARIABLES
    price,    \* the provider's terms now
    reviewed, \* [PaymentQuotes -> [terms, expired] or NoTerms], payment_quotes
    payment,  \* [PaymentQuotes -> [status, shown]], payment_operations: "open" stands for every
              \*   status between initiating and the end; shown, the terms of its
              \*   safe_instructions or NoTerms
    held,     \* [PaymentQuotes -> Terms \cup {NoTerms}], the terms of the payment at the provider
    task      \* [Tasks -> [step, quote, says] or NoTask]

termsVars == <<price, reviewed, payment, held, task>>

TermsInit ==
    /\ price \in Terms
    /\ reviewed = [q \in PaymentQuotes |-> NoTerms]
    /\ payment = [q \in PaymentQuotes |-> [status |-> "none", shown |-> NoTerms]]
    /\ held = [q \in PaymentQuotes |-> NoTerms]
    /\ task = [t \in Tasks |-> NoTask]

TaskIs(t, step) == task[t] # NoTask /\ task[t].step = step
Goes(t, step) == task' = [task EXCEPT ![t].step = step]
Hears(t, step, q, says) ==
    task' = [task EXCEPT ![t] = [step |-> step, quote |-> q, says |-> says]]
EndsTask(t) == task' = [task EXCEPT ![t] = NoTask]

PriceMoves ==
    /\ \E p \in Terms \ {price} : price' = p
    /\ UNCHANGED <<reviewed, payment, held, task>>

\* The provider changes a payment it has taken.
HeldMoves(q) ==
    /\ held[q] # NoTerms
    /\ \E p \in Terms \ {held[q]} : held' = [held EXCEPT ![q] = p]
    /\ UNCHANGED <<price, reviewed, payment, task>>

-----------------------------------------------------------------------------
(* A quote. *)

\* normalizeQuote, validateQuoteDirection: amounts, currencies and channel are those
\* of the request.
UsableQuote(says) == says # Garbled

\* quote, up to the answer of requestQuote
AsksQuote(t, q) ==
    /\ task[t] = NoTask /\ reviewed[q] = NoTerms
    /\ \E says \in {price, Garbled} : UsableQuote(says) /\ Hears(t, "stores", q, says)
    /\ UNCHANGED <<price, reviewed, payment, held>>

\* createQuote: what the user is shown is what is stored.
StoresQuote(t) ==
    /\ TaskIs(t, "stores") /\ reviewed[task[t].quote] = NoTerms
    /\ reviewed' = [reviewed EXCEPT ![task[t].quote] =
                        [terms |-> task[t].says, expired |-> FALSE]]
    /\ EndsTask(t)
    /\ UNCHANGED <<price, payment, held>>

PaymentQuoteExpires(q) ==
    /\ reviewed[q] # NoTerms /\ ~reviewed[q].expired
    /\ reviewed' = [reviewed EXCEPT ![q].expired = TRUE]
    /\ UNCHANGED <<price, payment, held, task>>

-----------------------------------------------------------------------------
(* The payment is started on it. *)

\* quoteFingerprint, without the deadlines
SameTerms(says, q) == UsableQuote(says) /\ says = reviewed[q].terms

\* initiateOnramp, initiateOfframp up to revalidateQuote
Revalidates(t, q) ==
    /\ task[t] = NoTask /\ reviewed[q] # NoTerms /\ ~reviewed[q].expired
    /\ payment[q].status \in {"none", "created"}
    /\ \E says \in {price, Garbled} : SameTerms(says, q) /\ Hears(t, "creates", q, says)
    /\ UNCHANGED <<price, reviewed, payment, held>>

\* createOperation and beginInitiation
Creates(t) ==
    /\ TaskIs(t, "creates")
    /\ LET q == task[t].quote IN
          IF payment[q].status = "none"
          THEN /\ ~reviewed[q].expired
               /\ payment' = [payment EXCEPT ![q].status = "created"]
               /\ UNCHANGED task
          ELSE IF payment[q].status = "created"
          THEN /\ payment' = [payment EXCEPT ![q].status = "initiating"]
               /\ Goes(t, "posts")
          ELSE EndsTask(t) /\ UNCHANGED payment
    /\ UNCHANGED <<price, reviewed, held>>

\* The POST: the provider takes the payment on the terms it has then, and answers with
\* them; or the answer is lost, or it never came there.
PostsPayment(t) ==
    /\ TaskIs(t, "posts")
    /\ LET q == task[t].quote IN
          \/ /\ held' = [held EXCEPT ![q] = price]
             /\ \E says \in {price, Garbled, NoTerms} : Hears(t, "completes", q, says)
          \/ Hears(t, "completes", q, NoTerms) /\ UNCHANGED held
    /\ UNCHANGED <<price, reviewed, payment>>

\* normalizeInitiation: amount, both sides, currencies and asset are the reviewed's.
Agrees(says, q) == UsableQuote(says) /\ says = reviewed[q].terms

\* completeInitiation or recordInitiationFailure
Completes(t) ==
    /\ TaskIs(t, "completes")
    /\ LET q == task[t].quote
           says == task[t].says
       IN  IF says # NoTerms /\ Agrees(says, q)
           THEN /\ payment[q].status # "over"
                /\ payment' = [payment EXCEPT ![q] = [status |-> "open", shown |-> says]]
           ELSE IF payment[q].status = "initiating"
           THEN \E status \in {"open", "over"} :
                   /\ status = "over" => says = NoTerms
                   /\ payment' = [payment EXCEPT ![q].status = status]
           ELSE UNCHANGED payment
    /\ EndsTask(t)
    /\ UNCHANGED <<price, reviewed, held>>

-----------------------------------------------------------------------------
(* What is learnt of it later. *)

\* refresh and reconcileDueOperations ask for the status.
AsksStatus(t, q) ==
    /\ task[t] = NoTask /\ held[q] # NoTerms
    /\ \E says \in {held[q], Garbled} : Hears(t, "learns", q, says)
    /\ UNCHANGED <<price, reviewed, payment, held>>

\* Mutant: a snapshot that is no answer to the quote replaces the instructions.
SnapshotOfAny(says, q) == IF UsableQuote(says) THEN says ELSE payment[q].shown

\* normalizePaymentStatusSnapshot, and COALESCE with what the row has
Snapshot(says, q) == IF Agrees(says, q) THEN says ELSE payment[q].shown

\* applyProviderStatus, recordReconciliation: the status goes on, with the snapshot, or
\* ends, without instructions; or it has no edge and stays, and the worker stores what
\* the answer came with all the same.
Learns(t) ==
    /\ TaskIs(t, "learns")
    /\ LET q == task[t].quote
           old == payment[q]
       IN  \/ /\ old.status # "over"
              /\ payment' = [payment EXCEPT ![q] =
                    [status |-> "open", shown |-> Snapshot(task[t].says, q)]]
           \/ payment' = [payment EXCEPT ![q] = [status |-> "over", shown |-> NoTerms]]
           \/ \E shown \in {old.shown, Snapshot(task[t].says, q), NoTerms} :
                 payment' = [payment EXCEPT ![q].shown = shown]
    /\ EndsTask(t)
    /\ UNCHANGED <<price, reviewed, held>>

\* processWebhookBatch: it leaves the instructions, also of a payment it ends.
WebhookMoves(q) ==
    /\ payment[q].status \in {"initiating", "open"}
    /\ \E status \in {"open", "over"} : payment' = [payment EXCEPT ![q].status = status]
    /\ UNCHANGED <<price, reviewed, held, task>>

TaskEnds(t) ==
    /\ task[t] # NoTask
    /\ EndsTask(t)
    /\ UNCHANGED <<price, reviewed, payment, held>>

TermsNext ==
    \/ PriceMoves
    \/ \E q \in PaymentQuotes : HeldMoves(q) \/ PaymentQuoteExpires(q) \/ WebhookMoves(q)
    \/ \E t \in Tasks :
          \/ StoresQuote(t) \/ Creates(t) \/ PostsPayment(t) \/ Completes(t) \/ Learns(t)
          \/ TaskEnds(t)
          \/ \E q \in PaymentQuotes : AsksQuote(t, q) \/ Revalidates(t, q) \/ AsksStatus(t, q)

TermsSpec == TermsInit /\ [][TermsNext]_termsVars

-----------------------------------------------------------------------------
(* Properties. *)

\* Rows and tasks are well formed.
TermsTypeOK ==
    /\ price \in Terms /\ held \in [PaymentQuotes -> Terms \cup {NoTerms}]
    /\ \A q \in PaymentQuotes : /\ reviewed[q] # NoTerms => reviewed[q].terms \in Terms
                         /\ payment[q].shown \in Terms \cup {NoTerms}
    /\ \A t \in Tasks : task[t] # NoTask => task[t].quote \in PaymentQuotes

\* Nobody is told to pay on terms other than those he reviewed, whatever becomes of
\* the price between the quote, its confirmation and the start, whatever terms the
\* provider holds, and whether its instructions come with the start, with a poll or
\* a refresh, early or late.
PaidOnReviewedTerms ==
    \A q \in PaymentQuotes : payment[q].shown # NoTerms =>
        reviewed[q] # NoTerms /\ payment[q].shown = reviewed[q].terms
=============================================================================
