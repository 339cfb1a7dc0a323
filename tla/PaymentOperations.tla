------------------------- MODULE PaymentOperations -------------------------
(***************************************************************************)
(* One user's OnSwitch payments: the requests that start them, the         *)
(* provider, its webhooks, the wallet transfer that funds a payout, and    *)
(* the workers that link, confirm and poll (repository, journeys, worker   *)
(* and webhook of src/src/payments/onswitch).                              *)
(*                                                                         *)
(* A payment is named by its idempotency key: the table has one row per    *)
(* user and key.  A transaction locks the row it reads and is one action;  *)
(* a call to the provider ends an action, and its answer is used in a      *)
(* later one.  A lease or a retry time is in force or over, and may run    *)
(* out at any moment.                                                      *)
(***************************************************************************)
EXTENDS Integers, FiniteSets, PaymentStatus

CONSTANTS Keys, Quotes, Requests, Workers,
          QuoteOf,       \* [Keys -> Quotes], part of the request's fingerprint
          Kind,          \* [Quotes -> {"onramp", "offramp"}]
          Announced,     \* the words this provider uses
          MaxActive,     \* ONSWITCH_MAX_ACTIVE_OPERATIONS_PER_USER
          MaxAttempts,   \* ONSWITCH_WORKER_MAX_ATTEMPTS
          MaxRefreshes,  \* bound: how often the user refreshes one payment
          Idle

ASSUME PaymentAssumption ==
    /\ IsFiniteSet(Keys)
    /\ QuoteOf \in [Keys -> Quotes]
    /\ Kind \in [Quotes -> {"onramp", "offramp"}]
    /\ Announced \subseteq ProviderStatuses
    /\ MaxActive \in Nat /\ MaxAttempts \in Nat \ {0} /\ MaxRefreshes \in Nat

KindOf(k) == Kind[QuoteOf[k]]

VARIABLES
    row,          \* [Keys -> Rows \cup {NoRow}], payment_operations
    consumed,     \* [Quotes -> BOOLEAN], consumed_at is set
    request,      \* [Requests -> what an HTTP request is doing, or Idle]
    job,          \* [Workers -> what a worker is doing with a row, or Idle]
    refreshes,    \* [Keys -> 0..MaxRefreshes]
    transferred,  \* [Keys -> BOOLEAN], the bound intent's transaction is confirmed
    remote,       \* [Keys -> Announced \cup {"none"}], the payment at the provider
    posts,        \* [Keys -> Nat], how often its initiation was posted
    event         \* [Keys -> [Announced -> "unsent" | "sent" | "pending" | "processed"]]

vars == <<row, consumed, request, job, refreshes, transferred, remote, posts, event>>

\* What a row has that the code decides by.
Rows == [status        : Statuses,
         named         : BOOLEAN,         \* provider_reference is set
         instructions  : BOOLEAN,         \* safe_instructions is not null
         polls         : BOOLEAN,         \* next_reconcile_at is not null
         tries         : 0..MaxAttempts,  \* reconcile_attempts, no further than told apart
         leased        : BOOLEAN,         \* reconcile_lock_until is ahead
         bound         : BOOLEAN,         \* transaction_intent_id is set
         linked        : BOOLEAN,         \* chain_tx_hash is set
         confirms      : BOOLEAN,         \* next_confirmation_at is not null
         confirmTries  : 0..MaxAttempts,  \* confirmation_attempts
         confirmLeased : BOOLEAN,         \* confirmation_lock_until is ahead
         acknowledged  : BOOLEAN]         \* confirmation_acknowledged_at is set

Created == [status |-> "created", named |-> FALSE, instructions |-> FALSE, polls |-> TRUE,
            tries |-> 0, leased |-> FALSE, bound |-> FALSE, linked |-> FALSE,
            confirms |-> FALSE, confirmTries |-> 0, confirmLeased |-> FALSE,
            acknowledged |-> FALSE]
NoRow == [Created EXCEPT !.status = "none", !.polls = FALSE]

Exists(k) == row[k].status # "none"
Active(k) == Exists(k) /\ ~isPaymentTerminal(row[k].status)

Init ==
    /\ row = [k \in Keys |-> NoRow]
    /\ consumed = [q \in Quotes |-> FALSE]
    /\ request = [r \in Requests |-> Idle] /\ job = [w \in Workers |-> Idle]
    /\ refreshes = [k \in Keys |-> 0]
    /\ transferred = [k \in Keys |-> FALSE]
    /\ remote = [k \in Keys |-> "none"] /\ posts = [k \in Keys |-> 0]
    /\ event = [k \in Keys |-> [s \in Announced |-> "unsent"]]

Doing(r, step) == request[r] # Idle /\ request[r].at = step
Becomes(r, step) == request' = [request EXCEPT ![r].at = step]
Done(r) == request' = [request EXCEPT ![r] = Idle]
Starts(r, step, k, says, details) ==
    /\ request[r] = Idle
    /\ request' = [request EXCEPT ![r] = [at |-> step, key |-> k, says |-> says,
                                          details |-> details]]

Working(w, step) == job[w] # Idle /\ job[w].at = step
JobDone(w) == job' = [job EXCEPT ![w] = Idle]
Takes(w, step, k, attempt) ==
    /\ job[w] = Idle
    /\ job' = [job EXCEPT ![w] = [at |-> step, key |-> k, attempt |-> attempt,
                                  says |-> "silent", details |-> FALSE]]

\* What the row becomes in the status the provider's word stands for: its
\* instructions go, and no poll is due, when that is terminal.  known: the word
\* came with instructions.
Following(old, next, known) ==
    [old EXCEPT !.status = next,
                !.instructions = ~isPaymentTerminal(next) /\ (known \/ old.instructions),
                !.polls = ~isPaymentTerminal(next)]

-----------------------------------------------------------------------------
(* A request that starts a payment. *)

\* Mutant: consumed_at is not looked at.
QuoteUnchecked(k) == TRUE

QuoteIsFree(k) == ~consumed[QuoteOf[k]]

\* Mutant: off by one.
RoomUpToCap == Cardinality({p \in Keys : Active(p)}) <= MaxActive

RoomUnderCap == Cardinality({p \in Keys : Active(p)}) < MaxActive

\* Mutant: a request that finds the payment begun goes on.
MayBeginAgain(k) == row[k].status \in {"created", "initiating"}

MayBegin(k) == row[k].status = "created"

\* Mutant: no answer is taken for a no.
UncertainIsFailed(step) == "failed"

StatusAfterFailure(step) == IF step = "uncertain" THEN "unknown" ELSE "failed"

\* initiateOnramp, initiateOfframp up to createOperation: no such payment yet
\* and an unused quote, or a payment that an earlier request left behind.
RequestReads(r, k) ==
    /\ \/ ~Exists(k) /\ QuoteIsFree(k)
       \/ row[k].status = "created"
    /\ Starts(r, "cleared", k, "silent", FALSE)
    /\ UNCHANGED <<row, consumed, job, refreshes, transferred, remote, posts, event>>

\* createOperation under the lock of the user's row: a replay of the key finds
\* its payment; a new one needs room under the cap and an unused quote.
CreateOperation(r) ==
    /\ Doing(r, "cleared")
    /\ LET k == request[r].key IN
          \/ /\ Exists(k)
             /\ IF row[k].status = "created" THEN Becomes(r, "created") ELSE Done(r)
             /\ UNCHANGED <<row, consumed>>
          \/ /\ ~Exists(k)
             /\ RoomUnderCap /\ QuoteIsFree(k)
             /\ row' = [row EXCEPT ![k] = Created]
             /\ consumed' = [consumed EXCEPT ![QuoteOf[k]] = TRUE]
             /\ Becomes(r, "created")
    /\ UNCHANGED <<job, refreshes, transferred, remote, posts, event>>

\* beginInitiation: one request takes the payment to the provider, under the
\* payment's own id; the others find it begun.
BeginInitiation(r) ==
    /\ Doing(r, "created")
    /\ LET k == request[r].key IN
          IF MayBegin(k)
          THEN /\ row' = [row EXCEPT ![k] = [@ EXCEPT !.status = "initiating", !.named = TRUE,
                                                      !.polls = TRUE]]
               /\ Becomes(r, "begun")
          ELSE Done(r) /\ UNCHANGED row
    /\ UNCHANGED <<consumed, job, refreshes, transferred, remote, posts, event>>

\* The POST of initiateProviderOperation: the provider takes the payment, whose
\* first word may be any, and its answer arrives, or is lost or unusable; or the
\* provider never gets it; or it rejects it.
PostInitiate(r) ==
    /\ Doing(r, "begun")
    /\ LET k == request[r].key IN
          /\ posts' = [posts EXCEPT ![k] = @ + 1]
          /\ \/ \E word \in Announced :
                   /\ remote' = [remote EXCEPT ![k] = word]
                   /\ event' = [event EXCEPT ![k][word] = "sent"]
                   /\ \/ request' = [request EXCEPT ![r].at = "answered", ![r].says = word]
                      \/ Becomes(r, "uncertain")
             \/ /\ Becomes(r, "uncertain") \/ Becomes(r, "rejected")
                /\ UNCHANGED <<remote, event>>
    /\ UNCHANGED <<row, consumed, job, refreshes, transferred>>

\* completeInitiation: not when what was learnt meanwhile cannot be followed by
\* what the provider answered then.
CompleteInitiation(r) ==
    /\ Doing(r, "answered")
    /\ LET k    == request[r].key
           next == normalizeProviderStatus(request[r].says, KindOf(k))
       IN  /\ canTransitionPayment(row[k].status, next)
           /\ row' = [row EXCEPT ![k] = [Following(@, next, TRUE) EXCEPT !.tries = 0]]
    /\ Done(r)
    /\ UNCHANGED <<consumed, job, refreshes, transferred, remote, posts, event>>

\* recordInitiationFailure: only while nothing else is known.
RecordInitiationFailure(r) ==
    /\ Doing(r, "uncertain") \/ Doing(r, "rejected")
    /\ LET k    == request[r].key
           next == StatusAfterFailure(request[r].at)
       IN  IF row[k].status = "initiating"
           THEN row' = [row EXCEPT ![k] = [@ EXCEPT !.status = next, !.tries = 0,
                                                    !.polls = next = "unknown"]]
           ELSE UNCHANGED row
    /\ Done(r)
    /\ UNCHANGED <<consumed, job, refreshes, transferred, remote, posts, event>>

\* The request is refused, throws, or dies with its process.
RequestEnds(r) ==
    /\ request[r] # Idle
    /\ Done(r)
    /\ UNCHANGED <<row, consumed, job, refreshes, transferred, remote, posts, event>>

-----------------------------------------------------------------------------
(* The user refreshes a payment, or asks for the transfer that funds it. *)

\* refresh: the row is read, the provider is asked.
RefreshAsk(r, k) ==
    /\ row[k].named /\ remote[k] # "none" /\ refreshes[k] < MaxRefreshes
    /\ \E details \in BOOLEAN : Starts(r, "refreshing", k, remote[k], details)
    /\ refreshes' = [refreshes EXCEPT ![k] = @ + 1]
    /\ UNCHANGED <<row, consumed, job, transferred, remote, posts, event>>

\* applyProviderStatus with what the provider said.
RefreshApply(r) ==
    /\ Doing(r, "refreshing")
    /\ LET k    == request[r].key
           next == normalizeProviderStatus(request[r].says, KindOf(k))
       IN  IF canTransitionPayment(row[k].status, next)
           THEN row' = [row EXCEPT ![k] = [Following(@, next, request[r].details)
                                              EXCEPT !.tries = 0, !.leased = FALSE]]
           ELSE UNCHANGED row
    /\ Done(r)
    /\ UNCHANGED <<consumed, job, refreshes, transferred, remote, posts, event>>

\* createOfframpTransferIntent: an intent is made for a payment that waits for
\* its transfer ...
DraftTransfer(r, k) ==
    /\ KindOf(k) = "offramp" /\ row[k].status = "awaiting_chain"
    /\ row[k].named /\ row[k].instructions
    /\ Starts(r, "drafted", k, "silent", FALSE)
    /\ UNCHANGED <<row, consumed, job, refreshes, transferred, remote, posts, event>>

\* ... and bound to it (bindTransferIntent) if it still waits and has none.
BindTransfer(r) ==
    /\ Doing(r, "drafted")
    /\ LET k == request[r].key IN
          /\ ~row[k].bound /\ row[k].status = "awaiting_chain"
          /\ row' = [row EXCEPT ![k].bound = TRUE]
    /\ Done(r)
    /\ UNCHANGED <<consumed, job, refreshes, transferred, remote, posts, event>>

-----------------------------------------------------------------------------
(* The provider, its webhooks and the chain. *)

\* Words after which the provider has no other for a payment.
LastWords == {"FAILED", "EXPIRED", "REVERSED"}

\* The payment moves on at the provider, which announces each word once.
RemoteMoves(k, s) ==
    /\ remote[k] \notin LastWords \cup {"none", s}
    /\ remote[k] = "COMPLETED" => s = "REVERSED"
    /\ event[k][s] = "unsent"
    /\ remote' = [remote EXCEPT ![k] = s]
    /\ event' = [event EXCEPT ![k][s] = "sent"]
    /\ UNCHANGED <<row, consumed, request, job, refreshes, transferred, posts>>

\* storeVerifiedWebhook: an announcement arrives, in any order, for a reference
\* that is known; the digest of one that came before is refused.
Deliver(k, s) ==
    /\ event[k][s] = "sent" /\ row[k].named
    /\ event' = [event EXCEPT ![k][s] = "pending"]
    /\ UNCHANGED <<row, consumed, request, job, refreshes, transferred, remote, posts>>

\* processWebhookBatch, for one event of the batch.
ProcessEvent(k, s) ==
    /\ event[k][s] = "pending"
    /\ LET next == normalizeProviderStatus(s, KindOf(k)) IN
          IF next # row[k].status /\ canTransitionPayment(row[k].status, next)
          THEN row' = [row EXCEPT ![k] = [@ EXCEPT !.status = next, !.tries = 0,
                                                   !.polls = ~isPaymentTerminal(next)]]
          ELSE UNCHANGED row
    /\ event' = [event EXCEPT ![k][s] = "processed"]
    /\ UNCHANGED <<consumed, request, job, refreshes, transferred, remote, posts>>

\* The user signs the bound transfer and the chain confirms it.
TransferConfirms(k) ==
    /\ row[k].bound /\ ~transferred[k]
    /\ transferred' = [transferred EXCEPT ![k] = TRUE]
    /\ UNCHANGED <<row, consumed, request, job, refreshes, remote, posts, event>>

-----------------------------------------------------------------------------
(* The worker: it links confirmed transfers, tells the provider of them, and *)
(* polls.                                                                    *)

\* Mutant: the payment's status is not looked at.
MayLinkAnyStatus(k) == ~row[k].linked

MayLink(k) == ~row[k].linked /\ canTransitionPayment(row[k].status, "chain_submitted")

ConfirmIsDue(k) ==
    /\ KindOf(k) = "offramp" /\ row[k].named /\ row[k].linked /\ ~row[k].acknowledged
    /\ row[k].confirms /\ ~row[k].confirmLeased

\* Mutant: after the last attempt nobody is told.
NotConfirmedQuietly(old, attempt) == [old EXCEPT !.confirms = attempt < MaxAttempts]

NotConfirmed(old, attempt) ==
    [old EXCEPT !.confirms = attempt < MaxAttempts,
                !.status = IF attempt >= MaxAttempts /\ ~isPaymentTerminal(@)
                           THEN "manual_review" ELSE @]

\* Mutant: polling goes on or not by the answer, though it was not taken over.
PolledByAnswer(old, next, moved, attempt, known) ==
    [Following(old, next, known) EXCEPT !.status = moved, !.tries = attempt, !.leased = FALSE]

\* Mutant: reconcile_attempts is not written.
PolledUncounted(old, next, moved, attempt, known) ==
    [Following(old, next, known) EXCEPT !.status = moved, !.polls = ~isPaymentTerminal(moved),
                                        !.leased = FALSE]

\* next: what the answer stands for; moved: what the status becomes.
Polled(old, next, moved, attempt, known) ==
    [Following(old, next, known) EXCEPT !.status = moved, !.polls = ~isPaymentTerminal(moved),
                                        !.tries = attempt, !.leased = FALSE]

\* findConfirmedTransferLinks
FindTransfer(w, k) ==
    /\ KindOf(k) = "offramp" /\ row[k].status = "awaiting_chain"
    /\ transferred[k] /\ ~row[k].linked
    /\ Takes(w, "linking", k, 0)
    /\ UNCHANGED <<row, consumed, request, refreshes, transferred, remote, posts, event>>

\* linkConfirmedChainTransaction, refused when another worker did it or the
\* payment has moved on.
LinkTransfer(w) ==
    /\ Working(w, "linking")
    /\ LET k == job[w].key IN
          IF MayLink(k)
          THEN row' = [row EXCEPT ![k] = [@ EXCEPT !.status = "chain_submitted", !.linked = TRUE,
                                                   !.confirms = TRUE, !.confirmTries = 0,
                                                   !.acknowledged = FALSE, !.polls = TRUE]]
          ELSE UNCHANGED row
    /\ JobDone(w)
    /\ UNCHANGED <<consumed, request, refreshes, transferred, remote, posts, event>>

\* claimConfirmationBatch, for one row.
ClaimConfirm(w, k) ==
    /\ ConfirmIsDue(k)
    /\ Takes(w, "confirming", k, row[k].confirmTries + 1)
    /\ row' = [row EXCEPT ![k].confirmLeased = TRUE]
    /\ UNCHANGED <<consumed, request, refreshes, transferred, remote, posts, event>>

\* confirmDueOperations, the POST: taken, or not, or taken and the answer lost.
PostConfirm(w) ==
    /\ Working(w, "confirming")
    /\ \E answer \in {"accepted", "refused"} : job' = [job EXCEPT ![w].at = answer]
    /\ UNCHANGED <<row, consumed, request, refreshes, transferred, remote, posts, event>>

\* recordConfirmationAttempt
RecordConfirm(w) ==
    /\ Working(w, "accepted") \/ Working(w, "refused")
    /\ LET k     == job[w].key
           tried == [row[k] EXCEPT !.confirmTries = job[w].attempt, !.confirmLeased = FALSE]
       IN  row' = [row EXCEPT ![k] =
               IF job[w].at = "accepted"
               THEN [tried EXCEPT !.acknowledged = TRUE, !.confirms = FALSE]
               ELSE NotConfirmed(tried, job[w].attempt)]
    /\ JobDone(w)
    /\ UNCHANGED <<consumed, request, refreshes, transferred, remote, posts, event>>

\* claimReconciliationBatch, for one row.
ClaimPoll(w, k) ==
    /\ row[k].named /\ row[k].polls /\ ~row[k].leased
    /\ ~isPaymentTerminal(row[k].status) /\ row[k].status # "manual_review"
    /\ Takes(w, "polling", k, IF row[k].tries < MaxAttempts THEN row[k].tries + 1 ELSE MaxAttempts)
    /\ row' = [row EXCEPT ![k].leased = TRUE]
    /\ UNCHANGED <<consumed, request, refreshes, transferred, remote, posts, event>>

\* reconcileDueOperations, the GET: silent when it fails, when the provider has
\* no such payment, or when a deposit is awaited of which no details are known.
AskStatus(w) ==
    /\ Working(w, "polling")
    /\ LET k == job[w].key IN
          \/ job' = [job EXCEPT ![w].at = "asked"]
          \/ \E details \in BOOLEAN :
                /\ remote[k] # "none"
                /\ remote[k] = "AWAITING_DEPOSIT" => row[k].instructions \/ details
                /\ job' = [job EXCEPT ![w].at = "asked", ![w].says = remote[k],
                                      ![w].details = details]
    /\ UNCHANGED <<row, consumed, request, refreshes, transferred, remote, posts, event>>

\* recordReconciliation: at the last attempt whatever is not over goes to
\* manual review.  What cannot follow moves nothing, but the rest is written.
RecordPoll(w) ==
    /\ Working(w, "asked")
    /\ LET k     == job[w].key
           said  == IF job[w].says = "silent" THEN row[k].status
                    ELSE normalizeProviderStatus(job[w].says, KindOf(k))
           next  == IF job[w].attempt = MaxAttempts /\ ~isPaymentTerminal(said)
                    THEN "manual_review" ELSE said
           moved == IF canTransitionPayment(row[k].status, next) THEN next ELSE row[k].status
       IN  row' = [row EXCEPT ![k] = Polled(@, next, moved, job[w].attempt, job[w].details)]
    /\ JobDone(w)
    /\ UNCHANGED <<consumed, request, refreshes, transferred, remote, posts, event>>

\* The worker's process dies, or the database fails it: what it claimed stays
\* leased.
WorkerDies(w) ==
    /\ job[w] # Idle
    /\ JobDone(w)
    /\ UNCHANGED <<row, consumed, request, refreshes, transferred, remote, posts, event>>

\* A lease runs out, whether or not its holder still works.
LeaseLapses(k) ==
    /\ row[k].leased
    /\ row' = [row EXCEPT ![k].leased = FALSE]
    /\ UNCHANGED <<consumed, request, job, refreshes, transferred, remote, posts, event>>

ConfirmLeaseLapses(k) ==
    /\ row[k].confirmLeased
    /\ row' = [row EXCEPT ![k].confirmLeased = FALSE]
    /\ UNCHANGED <<consumed, request, job, refreshes, transferred, remote, posts, event>>

-----------------------------------------------------------------------------
Next ==
    \/ \E r \in Requests :
          \/ CreateOperation(r) \/ BeginInitiation(r) \/ PostInitiate(r)
          \/ CompleteInitiation(r) \/ RecordInitiationFailure(r) \/ RequestEnds(r)
          \/ RefreshApply(r) \/ BindTransfer(r)
          \/ \E k \in Keys : RequestReads(r, k) \/ RefreshAsk(r, k) \/ DraftTransfer(r, k)
    \/ \E k \in Keys :
          \/ TransferConfirms(k) \/ LeaseLapses(k) \/ ConfirmLeaseLapses(k)
          \/ \E s \in Announced : RemoteMoves(k, s) \/ Deliver(k, s) \/ ProcessEvent(k, s)
    \/ \E w \in Workers :
          \/ LinkTransfer(w) \/ PostConfirm(w) \/ RecordConfirm(w)
          \/ AskStatus(w) \/ RecordPoll(w) \/ WorkerDies(w)
          \/ \E k \in Keys : FindTransfer(w, k) \/ ClaimConfirm(w, k) \/ ClaimPoll(w, k)

Spec == Init /\ [][Next]_vars

\* Every instance ticks on a timer for as long as it lives, takes the rows that
\* are due in the order they fell due, and times out its calls; a lease is a
\* time, and passes.  A worker that dies does not die at the same step forever.
Fairness ==
    /\ \A k \in Keys :
          /\ WF_vars(LeaseLapses(k)) /\ WF_vars(ConfirmLeaseLapses(k))
          /\ \A s \in Announced : WF_vars(ProcessEvent(k, s))
    /\ \A w \in Workers, k \in Keys :
          /\ SF_vars(FindTransfer(w, k)) /\ SF_vars(ClaimConfirm(w, k)) /\ SF_vars(ClaimPoll(w, k))
          /\ SF_vars(AskStatus(w) /\ job[w].key = k) /\ SF_vars(RecordPoll(w) /\ job[w].key = k)
          /\ SF_vars(LinkTransfer(w) /\ job[w].key = k)
          /\ SF_vars(PostConfirm(w) /\ job[w].key = k) /\ SF_vars(RecordConfirm(w) /\ job[w].key = k)

FairSpec == Spec /\ Fairness

-----------------------------------------------------------------------------
(* Properties. *)

Requested == [at : {"cleared", "created", "begun", "answered", "uncertain", "rejected",
                    "refreshing", "drafted"},
              key : Keys, says : Announced \cup {"silent"}, details : BOOLEAN]
Jobs == [at : {"linking", "confirming", "accepted", "refused", "polling", "asked"},
         key : Keys, attempt : 0..MaxAttempts, says : Announced \cup {"silent"},
         details : BOOLEAN]

TypeOK ==
    /\ row \in [Keys -> Rows \cup {NoRow}]
    /\ consumed \in [Quotes -> BOOLEAN]
    /\ request \in [Requests -> Requested \cup {Idle}]
    /\ job \in [Workers -> Jobs \cup {Idle}]
    /\ refreshes \in [Keys -> 0..MaxRefreshes]
    /\ transferred \in [Keys -> BOOLEAN]
    /\ remote \in [Keys -> Announced \cup {"none"}]
    /\ posts \in [Keys -> Nat]
    /\ event \in [Keys -> [Announced -> {"unsent", "sent", "pending", "processed"}]]

\* The provider is asked to start a payment once, whoever repeats the request
\* and whatever became of the first one (beginInitiation).
InitiatedOnce == \A k \in Keys : posts[k] <= 1

\* A quote is spent on one payment, also by two requests that both found it
\* unused (createOperation under the user's lock).
QuoteBacksOneOperation ==
    \A k, p \in Keys : Exists(k) /\ Exists(p) /\ QuoteOf[k] = QuoteOf[p] => k = p

\* No more payments are under way than the cap allows (createOperation).
ActiveWithinCap == Cardinality({k \in Keys : Active(k)}) <= MaxActive

\* The provider has announced a word that stands for the status.
Told(k, status) == \E word \in Announced :
    event[k][word] # "unsent" /\ normalizeProviderStatus(word, KindOf(k)) = status

\* What a payment is said to have reached, the provider has announced; and one
\* is failed only if the provider said so or never took it, never because an
\* answer was lost (normalizeProviderStatus, recordInitiationFailure).
NothingSynthesized ==
    \A k \in Keys :
        /\ row[k].status \in {"processing", "completed", "expired", "blocked", "scheduled",
                              "reversed"} => Told(k, row[k].status)
        /\ row[k].status = "failed" => remote[k] = "none" \/ Told(k, "failed")

\* A poll is due for a payment exactly until it is terminal, whichever of the
\* request, the webhook, the refresh and the workers wrote its row last.
PollsUntilTerminal ==
    \A k \in Keys : Exists(k) => row[k].polls = ~isPaymentTerminal(row[k].status)

\* The provider is told of a linked transfer until it acknowledges it, or a
\* person has to look, or the payment is over (recordConfirmationAttempt).
ConfirmsUntilAcknowledged ==
    \A k \in Keys :
       row[k].linked => \/ row[k].acknowledged \/ row[k].confirms
                        \/ row[k].status = "manual_review" \/ isPaymentTerminal(row[k].status)

\* Every status change is one the state graph has, also those written without a
\* look at it (allowedNext): nothing terminal comes back.
MovesAlongTheGraph ==
    [][\A k \in Keys :
          row'[k].status # row[k].status =>
             IF Exists(k) THEN row'[k].status \in allowedNext[row[k].status]
             ELSE row'[k].status = "created"]_vars

-----------------------------------------------------------------------------
(* The inductive invariant. *)

\* Where a request is once it has taken its payment to the provider.
Begun == {"begun", "answered", "uncertain", "rejected"}
Has(r, k) == request[r] # Idle /\ request[r].key = k

\* A payment has spent its quote, has no reference before it is begun, and is
\* confirmed no more once its attempts are spent.
RowsFit ==
    \A k \in Keys :
        /\ Exists(k) => consumed[QuoteOf[k]]
        /\ row[k].named => row[k].status # "created"
        /\ row[k].confirms => row[k].confirmTries < MaxAttempts

\* Requests and workers hold payments that exist, one request has the right to
\* post a payment, and what they were told was announced.
WorkFits ==
    /\ \A r \in Requests, k \in Keys : Has(r, k) =>
          /\ request[r].at # "cleared" => Exists(k)
          /\ request[r].at \in Begun => row[k].status # "created"
          /\ request[r].at \in Begun \ {"begun"} => posts[k] = 1
          /\ request[r].at = "begun" =>
                posts[k] = 0 /\ \A q \in Requests : Has(q, k) /\ request[q].at \in Begun => q = r
          /\ request[r].at = "rejected" => remote[k] = "none"
          /\ request[r].at \in {"answered", "refreshing"} => request[r].says # "silent"
          /\ request[r].says # "silent" => event[k][request[r].says] # "unsent"
    /\ \A w \in Workers, k \in Keys : job[w] # Idle /\ job[w].key = k =>
          Exists(k) /\ (job[w].says # "silent" => event[k][job[w].says] # "unsent")

\* The provider knows and says nothing of a payment before it was posted.
PostsFit ==
    \A k \in Keys :
        /\ posts[k] \in {0, 1}
        /\ posts[k] = 0 => /\ remote[k] = "none" /\ row[k].status # "failed"
                           /\ \A s \in Announced : event[k][s] = "unsent"
        /\ row[k].status \in {"none", "created"} => posts[k] = 0
        /\ remote[k] # "none" => event[k][remote[k]] # "unsent"

\* The invariant the proofs are by.
IInv == /\ TypeOK /\ RowsFit /\ PollsUntilTerminal /\ ConfirmsUntilAcknowledged
        /\ QuoteBacksOneOperation /\ ActiveWithinCap /\ WorkFits /\ PostsFit
        /\ NothingSynthesized

-----------------------------------------------------------------------------
Over(k) == isPaymentTerminal(row[k].status) \/ row[k].status = "manual_review"

\* The provider's last word on the payment has no edge from where it is.
Stranded(k) ==
    /\ remote[k] # "none"
    /\ LET final == normalizeProviderStatus(remote[k], KindOf(k)) IN
          isPaymentTerminal(final) /\ ~canTransitionPayment(row[k].status, final)

\* A payment that went to the provider ends, or is put before a person, if its
\* poll goes on: unless the end has no edge (the worker's polling).
PaymentsEnd == \A k \in Keys : row[k].named ~> Over(k) \/ Stranded(k)

\* A linked transfer is acknowledged by the provider, or the payment is over or
\* put before a person (the worker's confirming).
ConfirmationsEnd == \A k \in Keys : row[k].linked ~> row[k].acknowledged \/ Over(k)

\* docs/ONSWITCH_IMPLEMENTATION_PLAN.md:54 has a worker with "manual-review
\* ceilings" for "provider status reconciliation".  The code does not have the
\* ceiling for an answer that is terminal but cannot follow.
PollingIsBounded == \A k \in Keys : row[k].named ~> Over(k)

\* docs/ONSWITCH_IMPLEMENTATION_PLAN.md:312: "A worker binds the intent to its
\* confirmed transaction and then queues `/payment/confirm`".  The worker only
\* looks while the payment still awaits the chain.
ConfirmedTransfersAreLinked == \A k \in Keys : transferred[k] ~> row[k].linked
=============================================================================
