------------------------ MODULE TransactionLifecycle ------------------------
(***************************************************************************)
(* The life of a signed transaction: submitted for an intent, claimed,     *)
(* broadcast, and looked up on its chain until there is a verdict or the   *)
(* attempts are spent (TransactionService, TransactionRepository and       *)
(* ReconciliationWorker of src/src/transactions).                          *)
(*                                                                         *)
(* The claim is one database transaction and every other write one         *)
(* statement: each is an action, and what a request or a worker read       *)
(* before stays with it until it is used.  A write that fails may have     *)
(* taken effect all the same, since its answer may be what was lost.       *)
(***************************************************************************)
EXTENDS Integers

CONSTANTS Intents, Hashes, Requests, Workers,
          HashOf,       \* [Intents -> Hashes]: intents with one payload share it
          Family,       \* [Intents -> {"evm", "intertrain", "solana"}]
          MaxAttempts,  \* TRANSACTION_RECONCILE_MAX_ATTEMPTS
          Idle, NoRecord

IntentStatuses == {"awaiting", "broadcasting", "submitted", "unknown", "confirmed", "failed"}
RecordStatuses == {"broadcasting", "submitted", "unknown", "confirmed", "failed", "dropped"}

ASSUME LifecycleAssumption ==
    /\ HashOf \in [Intents -> Hashes]
    /\ Family \in [Intents -> {"evm", "intertrain", "solana"}]
    /\ MaxAttempts \in Nat \ {0}
    /\ NoRecord \notin [status : RecordStatuses, attempts : Nat]

VARIABLES
    intent,      \* [Intents -> IntentStatuses]; "awaiting" is awaiting_signature
                 \*   or awaiting_approval
    expired,     \* [Intents -> BOOLEAN], expires_at is past
    record,      \* [Intents -> Records \cup {NoRecord}], transaction_records by intent_id
    old,         \* [Intents -> BOOLEAN], the record is older than thirty minutes
    request,     \* [Requests -> [at, key] or Idle], a submit under way
    job,         \* [Workers -> [key, attempt, step, says] or Idle], a look-up under way
    chain,       \* [Hashes -> "absent" | "pending" | "success" | "reverted" | "gone"]
    broadcasts   \* [Intents -> Nat], how often the intent's transaction was sent

vars == <<intent, expired, record, old, request, job, chain, broadcasts>>

Verdicts == {"confirmed", "failed"}
Terminal == Verdicts \cup {"dropped"}

Exists(i) == record[i] # NoRecord
Is(i, status) == Exists(i) /\ record[i].status = status

Init ==
    /\ intent = [i \in Intents |-> "awaiting"]
    /\ expired = [i \in Intents |-> FALSE]
    /\ record = [i \in Intents |-> NoRecord]
    /\ old = [i \in Intents |-> FALSE]
    /\ request = [r \in Requests |-> Idle] /\ job = [w \in Workers |-> Idle]
    /\ chain = [h \in Hashes |-> "absent"]
    /\ broadcasts = [i \in Intents |-> 0]

Doing(r, step) == request[r] # Idle /\ request[r].at = step
Becomes(r, step) == request' = [request EXCEPT ![r].at = step]
Done(r) == request' = [request EXCEPT ![r] = Idle]

-----------------------------------------------------------------------------
(* A submission. *)

\* submit up to the claim: there is no record, the intent has not expired and
\* the signed payload is the reviewed one.
SubmitReads(r, i) ==
    /\ request[r] = Idle
    /\ ~Exists(i) /\ ~expired[i]
    /\ request' = [request EXCEPT ![r] = [at |-> "verified", key |-> i]]
    /\ UNCHANGED <<intent, expired, record, old, job, chain, broadcasts>>

HashIsFree(i) == \A j \in Intents : Exists(j) => HashOf[j] # HashOf[i]

\* claim: the intent and its record move together, or the request finds the
\* record of another, or it fails.
Claim(r) ==
    /\ Doing(r, "verified")
    /\ LET i == request[r].key IN
          IF intent[i] = "awaiting" /\ ~expired[i] /\ HashIsFree(i)
          THEN /\ intent' = [intent EXCEPT ![i] = "broadcasting"]
               /\ record' = [record EXCEPT ![i] = [status |-> "broadcasting", attempts |-> 0]]
               /\ Becomes(r, "claimed")
          ELSE Done(r) /\ UNCHANGED <<intent, record>>
    /\ UNCHANGED <<expired, old, job, chain, broadcasts>>

\* broadcast: the network takes the transaction, whether or not its answer
\* comes back as expected, or never gets it.
Broadcast(r) ==
    /\ Doing(r, "claimed")
    /\ LET i == request[r].key
           h == HashOf[i]
       IN  /\ broadcasts' = [broadcasts EXCEPT ![i] = @ + 1]
           /\ \/ /\ chain' = [chain EXCEPT ![h] = IF @ = "absent" THEN "pending" ELSE @]
                 /\ Becomes(r, "accepted") \/ Becomes(r, "uncertain")
              \/ Becomes(r, "uncertain") /\ UNCHANGED chain
    /\ UNCHANGED <<intent, expired, record, old, job>>

\* Mutant: the status of the record is not looked at.
WhateverItIs(i) == Exists(i)

StillBroadcasting(i) == Is(i, "broadcasting")

Mark(i, status) ==
    IF StillBroadcasting(i)
    THEN /\ record' = [record EXCEPT ![i].status = status]
         /\ intent' = [intent EXCEPT ![i] = status]
    ELSE UNCHANGED <<record, intent>>

\* markBroadcast, unless a look-up has been faster.
MarkBroadcast(r) ==
    /\ Doing(r, "accepted")
    /\ Mark(request[r].key, "submitted")
    /\ Done(r)
    /\ UNCHANGED <<expired, old, job, chain, broadcasts>>

\* markBroadcast throws: the handler takes it for a failed broadcast.
MarkFails(r) ==
    /\ Doing(r, "accepted")
    /\ Mark(request[r].key, "submitted") \/ UNCHANGED <<record, intent>>
    /\ Becomes(r, "uncertain")
    /\ UNCHANGED <<expired, old, job, chain, broadcasts>>

\* markBroadcastUnknown.
MarkUnknown(r) ==
    /\ Doing(r, "uncertain")
    /\ Mark(request[r].key, "unknown")
    /\ Done(r)
    /\ UNCHANGED <<expired, old, job, chain, broadcasts>>

\* The request throws or dies with its process, between any two steps.
RequestEnds(r) ==
    /\ request[r] # Idle
    /\ Done(r)
    /\ UNCHANGED <<intent, expired, record, old, job, chain, broadcasts>>

-----------------------------------------------------------------------------
(* The reconciliation worker. *)

MayTry(i) == Exists(i) /\ record[i].status \notin Terminal /\ record[i].attempts < MaxAttempts

\* reconciliationBatch: no lock is taken, the attempts read stay with the job.
\* The time of the next look-up is any time.  A network that is not configured
\* throws at once.
TakeDue(w, i) ==
    /\ job[w] = Idle /\ MayTry(i)
    /\ \E step \in {IF Family[i] = "evm" THEN "receipt" ELSE "status", "thrown"} :
          job' = [job EXCEPT ![w] = [key |-> i, attempt |-> record[i].attempts + 1,
                                     step |-> step, says |-> "nothing"]]
    /\ UNCHANGED <<intent, expired, record, old, request, chain, broadcasts>>

\* What a transaction nobody finds is taken for.
ByAge(i) == IF old[i] THEN "dropped" ELSE "unknown"

Landed(i) == chain[HashOf[i]] \in {"success", "reverted"}
Verdict(i) == IF chain[HashOf[i]] = "success" THEN "confirmed" ELSE "failed"
Known(i) == Landed(i) \/ chain[HashOf[i]] = "pending"

\* Mutant: a transaction that is known is taken to be in a block.
AnswersInTheMempool(i, step) ==
    CASE step = "receipt"     -> IF Landed(i) THEN {Verdict(i)} ELSE {}
      [] step = "transaction" -> IF Known(i) THEN {"confirmed"} ELSE {}
      [] step = "status"      -> IF Landed(i) THEN {Verdict(i)}
                                 ELSE IF Known(i) THEN {"submitted"} ELSE {}
      [] step = "missing"     -> {IF Family[i] = "solana" THEN "unknown" ELSE ByAge(i)}
      [] step = "thrown"      -> {"unknown"}

\* The answers a step of one() may get that settle what it writes.
Answers(i, step) ==
    CASE step = "receipt"     -> IF Landed(i) THEN {Verdict(i)} ELSE {}
      [] step = "transaction" -> IF Known(i) THEN {"submitted"} ELSE {}
      [] step = "status"      -> IF Landed(i) THEN {Verdict(i)}
                                 ELSE IF Known(i) THEN {"submitted"} ELSE {}
      [] step = "missing"     -> {IF Family[i] = "solana" THEN "unknown" ELSE ByAge(i)}
      [] step = "thrown"      -> {"unknown"}

\* Where one() goes when a step gets no such answer, and where when the step
\* throws, which a write in it may do as well as the call.
AfterNone == [receipt |-> "transaction", transaction |-> "missing", status |-> "missing"]
AfterThrow == [receipt |-> "transaction", transaction |-> "missing", status |-> "thrown",
               missing |-> "thrown"]

Steps(i) == IF Family[i] = "evm" THEN {"receipt", "transaction", "missing", "thrown"}
            ELSE {"status", "missing", "thrown"}

Asks(w) == job[w] # Idle /\ job[w].says = "nothing"

\* one: a step is answered.
Ask(w) ==
    /\ Asks(w)
    /\ \E a \in Answers(job[w].key, job[w].step) : job' = [job EXCEPT ![w].says = a]
    /\ UNCHANGED <<intent, expired, record, old, request, chain, broadcasts>>

\* one: the provider does not know the transaction, or does not answer.
AskInVain(w) ==
    /\ Asks(w)
    /\ LET step == job[w].step IN
          /\ step \in DOMAIN AfterNone
          /\ \E next \in {AfterNone[step], AfterThrow[step]} :
                job' = [job EXCEPT ![w].step = next]
    /\ UNCHANGED <<intent, expired, record, old, request, chain, broadcasts>>

\* Mutant: the attempt is not written.
Uncounted(i, says, attempt) ==
    [status |-> IF says \notin Terminal /\ attempt >= MaxAttempts THEN "unknown" ELSE says,
     attempts |-> record[i].attempts]

\* reconcile's row: at the last attempt what has no end is unknown.
Reconciled(i, says, attempt) ==
    [status |-> IF says \notin Terminal /\ attempt >= MaxAttempts THEN "unknown" ELSE says,
     attempts |-> attempt]

\* reconcile, whatever the record has become since it was read.
Writes(w) ==
    LET i == job[w].key
        says == job[w].says
    IN  /\ record' = [record EXCEPT ![i] = Reconciled(i, says, job[w].attempt)]
        /\ intent' = [intent EXCEPT ![i] = IF says \in Verdicts THEN says ELSE @]

Reconcile(w) ==
    /\ job[w] # Idle /\ job[w].says # "nothing"
    /\ Writes(w)
    /\ job' = [job EXCEPT ![w] = Idle]
    /\ UNCHANGED <<expired, old, request, chain, broadcasts>>

\* Where a look-up goes on after its write has thrown.
AfterFailure(j) ==
    IF j.step = "thrown" THEN Idle
    ELSE [j EXCEPT !.step = AfterThrow[j.step], !.says = "nothing"]

\* reconcile throws: the handlers around it take it for a failed look-up.
ReconcileFails(w) ==
    /\ job[w] # Idle /\ job[w].says # "nothing"
    /\ Writes(w) \/ UNCHANGED <<record, intent>>
    /\ job' = [job EXCEPT ![w] = AfterFailure(@)]
    /\ UNCHANGED <<expired, old, request, chain, broadcasts>>

WorkerDies(w) ==
    /\ job[w] # Idle
    /\ job' = [job EXCEPT ![w] = Idle]
    /\ UNCHANGED <<intent, expired, record, old, request, chain, broadcasts>>

-----------------------------------------------------------------------------
(* Time and the chain. *)

\* Only the submission looks at the expiry.
Expires(i) ==
    /\ ~expired[i] /\ ~Exists(i)
    /\ expired' = [expired EXCEPT ![i] = TRUE]
    /\ UNCHANGED <<intent, record, old, request, job, chain, broadcasts>>

Ages(i) ==
    /\ Exists(i) /\ ~old[i]
    /\ old' = [old EXCEPT ![i] = TRUE]
    /\ UNCHANGED <<intent, expired, record, request, job, chain, broadcasts>>

\* A transaction is included for good, or can never be any more (its nonce is
\* spent, its blockhash is too old).
ChainDecides(h) ==
    /\ chain[h] = "pending"
    /\ \E v \in {"success", "reverted", "gone"} : chain' = [chain EXCEPT ![h] = v]
    /\ UNCHANGED <<intent, expired, record, old, request, job, broadcasts>>

-----------------------------------------------------------------------------
Next ==
    \/ \E r \in Requests :
          \/ \E i \in Intents : SubmitReads(r, i)
          \/ Claim(r) \/ Broadcast(r) \/ MarkBroadcast(r) \/ MarkFails(r)
          \/ MarkUnknown(r) \/ RequestEnds(r)
    \/ \E w \in Workers :
          \/ \E i \in Intents : TakeDue(w, i)
          \/ Ask(w) \/ AskInVain(w) \/ Reconcile(w) \/ ReconcileFails(w) \/ WorkerDies(w)
    \/ \E i \in Intents : Expires(i) \/ Ages(i)
    \/ \E h \in Hashes : ChainDecides(h)

Spec == Init /\ [][Next]_vars

\* Every instance keeps sweeping, a call ends by its time-out, and neither a
\* process nor the database fails at the same step of a record for ever.
Fairness ==
    \A w \in Workers, i \in Intents :
        /\ SF_vars(TakeDue(w, i))
        /\ \A step \in Steps(i) :
              SF_vars(Asks(w) /\ job[w].step = step /\ job[w].key = i /\ (Ask(w) \/ AskInVain(w)))
        /\ SF_vars(Reconcile(w) /\ job[w].key = i)

FairSpec == Spec /\ Fairness

-----------------------------------------------------------------------------
(* Properties. *)

Records == [status : RecordStatuses, attempts : 0..MaxAttempts]
Requested == [at : {"verified", "claimed", "accepted", "uncertain"}, key : Intents]
Jobs == [key : Intents, attempt : 1..MaxAttempts,
         step : {"receipt", "transaction", "status", "missing", "thrown"},
         says : (RecordStatuses \ {"broadcasting"}) \cup {"nothing"}]

TypeOK ==
    /\ intent \in [Intents -> IntentStatuses]
    /\ expired \in [Intents -> BOOLEAN]
    /\ record \in [Intents -> Records \cup {NoRecord}]
    /\ old \in [Intents -> BOOLEAN]
    /\ request \in [Requests -> Requested \cup {Idle}]
    /\ job \in [Workers -> Jobs \cup {Idle}]
    /\ chain \in [Hashes -> {"absent", "pending", "success", "reverted", "gone"}]
    /\ broadcasts \in [Intents -> Nat]

\* A signed transaction goes to the network once, whoever submits it again, for
\* the same intent or for another with the same payload, and whatever became of
\* the first request (claim; docs/phase-8-10-status.md:8-9).
SentOnce ==
    \A i, j \in Intents :
        /\ broadcasts[i] <= 1
        /\ HashOf[i] = HashOf[j] /\ broadcasts[i] > 0 /\ broadcasts[j] > 0 => i = j

\* A record or an intent is confirmed or failed only by the verdict of the
\* chain, however late a worker writes and whatever throws (one, reconcile).
VerdictsAreTheChains ==
    \A i \in Intents :
        /\ intent[i] \in Verdicts => Landed(i) /\ intent[i] = Verdict(i)
        /\ Exists(i) /\ record[i].status \in Verdicts => record[i].status = intent[i]

\* An intent has a record exactly when it has been submitted, and no two of
\* them share a transaction, so one transfer never fulfils two intents (claim).
OneRecordPerTransaction ==
    \A i, j \in Intents :
        /\ Exists(i) <=> intent[i] # "awaiting"
        /\ Exists(i) /\ Exists(j) /\ HashOf[i] = HashOf[j] => i = j

\* An intent that has its verdict keeps it, also when its record is overwritten
\* by a worker that was late (markBroadcast, reconcile).
IntentVerdictIsFinal ==
    [][\A i \in Intents : intent[i] \in Verdicts => intent'[i] = intent[i]]_vars

-----------------------------------------------------------------------------
(* The inductive invariant. *)

Claims(r, i) == request[r] # Idle /\ request[r].at # "verified" /\ request[r].key = i

\* A request past its claim holds the record of its intent, no two hold the
\* right to broadcast one, and only the holder of the right has broadcast.
ClaimsFit ==
    \A i \in Intents :
        /\ broadcasts[i] <= 1
        /\ broadcasts[i] # 0 => Exists(i)
        /\ \A r \in Requests : Claims(r, i) => Exists(i)
        /\ \A r \in Requests : Claims(r, i) /\ request[r].at = "claimed" =>
              /\ broadcasts[i] = 0
              /\ \A q \in Requests : Claims(q, i) => q = r

\* The answers a worker still holds are the chain's.
AnswersFit ==
    \A w \in Workers, i \in Intents : job[w] # Idle /\ job[w].key = i =>
        /\ Exists(i)
        /\ job[w].says \in Verdicts => Landed(i) /\ job[w].says = Verdict(i)

\* The chain has only what was broadcast, and a record that still says
\* broadcasting has an intent that does.
BroadcastsFit ==
    /\ \A h \in Hashes : chain[h] # "absent" =>
          \E i \in Intents : HashOf[i] = h /\ broadcasts[i] = 1
    /\ \A i \in Intents : Is(i, "broadcasting") => intent[i] = "broadcasting"

\* The invariant the proofs are by.
IInv == /\ TypeOK /\ OneRecordPerTransaction /\ VerdictsAreTheChains
        /\ ClaimsFit /\ AnswersFit /\ BroadcastsFit

-----------------------------------------------------------------------------
(* Submission and reconciliation implement the promise. *)

Promise == INSTANCE TransferPromise WITH
    phase <- [i \in Intents |-> IF intent[i] = "awaiting" THEN "open"
                                ELSE IF intent[i] \in Verdicts THEN intent[i] ELSE "out"],
    sends <- broadcasts,
    verdict <- [i \in Intents |-> IF Exists(i) /\ Landed(i) THEN chain[HashOf[i]]
                                  ELSE "none"]

\* What happens to an intent is what TransferPromise allows: one commitment, one
\* broadcast, and the verdict of the chain or none (submit, one, reconcile).
PromiseIsKept == Promise!Spec

Settled(i) == Exists(i) /\ (record[i].status \in Terminal \/ record[i].attempts = MaxAttempts)

\* A record ends, or its attempts are spent, though the process that claimed it
\* died, the network never heard of it or two workers write over each other
\* (docs/phase-8-10-status.md:10).
LookupsEnd == \A i \in Intents : Exists(i) ~> Settled(i)

\* BACKEND_IMPLEMENTATION_PLAN.md:776: "Reconciliation produces a durable final
\* or explicitly unknown state."  The code writes over a final one.
FinalIsDurable ==
    [][\A i \in Intents :
          Exists(i) /\ record[i].status \in Terminal => record'[i].status = record[i].status]_vars
=============================================================================
