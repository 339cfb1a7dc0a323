------------------------------ MODULE MCWorkers ------------------------------
(***************************************************************************)
(* The background workers of one process, each with what it works on: the  *)
(* arcade's, the payments', the transactions' and the chess worker.  They  *)
(* share no variable: the confirmed transfer the payment worker looks for  *)
(* is an action of PaymentOperations, TransferConfirms.  So a behaviour of *)
(* the process is, for each part, a behaviour of that part and stuttering. *)
(* "part" is the part looked at; the others rest in their initial states.  *)
(***************************************************************************)
EXTENDS ArcadeRounds, TLC

CONSTANTS r1, w1, w2,         \* the round or request, and the workers
          k1, q1,             \* the payment and its quote
          i1, h1,             \* the intent and its hash
          ann, ben, t1, t2,   \* the players of the match and their tabs
          Idle, NoRecord

VARIABLES part,
          row, consumed, request, job, refreshes, transferred, remote, posts, event,
          intent, expired, record, old, submit, lookup, chain, broadcasts,
          match, waited, chessLog, board

StakedTerms == {[amount |-> 3, rakeBps |-> 2500]}
OneDeposit == {4}

Payment == INSTANCE PaymentOperations WITH
    Keys <- {k1}, Quotes <- {q1}, Requests <- {r1}, Workers <- {w1},
    QuoteOf <- k1 :> q1, Kind <- q1 :> "offramp",
    Announced <- {"AWAITING_DEPOSIT", "COMPLETED", "EXPIRED"},
    MaxActive <- 1, MaxAttempts <- 2, MaxRefreshes <- 0

Transfer == INSTANCE TransactionLifecycle WITH
    Intents <- {i1}, Hashes <- {h1}, Requests <- {r1}, Workers <- {w1},
    HashOf <- i1 :> h1, Family <- i1 :> "solana", MaxAttempts <- 3,
    request <- submit, job <- lookup

Chess == INSTANCE ChessMatches WITH
    Players <- {ann, ben}, Creator <- ann, Tabs <- {t1, t2},
    Holder <- t1 :> ann @@ t2 :> ben, Budget <- 2, InviteTtl <- 1, MaxVersion <- 2,
    NoGuest <- Nobody

paymentVars == <<row, consumed, request, job, refreshes, transferred, remote, posts, event>>
transferVars == <<intent, expired, record, old, submit, lookup, chain, broadcasts>>
matchVars == <<match, waited, chessLog, board>>
workersVars == <<part, vars, paymentVars, transferVars, matchVars>>

WorkersInit ==
    /\ part \in {"arcade", "payment", "transfer", "chess"}
    /\ Init /\ Payment!Init /\ Transfer!Init /\ Chess!ChessInit

WorkersNext ==
    /\ \/ part = "arcade" /\ Next /\ UNCHANGED <<paymentVars, transferVars, matchVars>>
       \/ part = "payment" /\ Payment!Next /\ UNCHANGED <<vars, transferVars, matchVars>>
       \/ part = "transfer" /\ Transfer!Next /\ UNCHANGED <<vars, paymentVars, matchVars>>
       \/ part = "chess" /\ Chess!ChessNext /\ UNCHANGED <<vars, paymentVars, transferVars>>
    /\ UNCHANGED part

-----------------------------------------------------------------------------
(* The Fairness of each part, asked of it only where it is the one looked   *)
(* at.  Since "part" never changes, the fair steps of different parts can   *)
(* share a formula: it speaks of one of them.                               *)

PaymentSteps(n) ==
    \/ n = 1 /\ Payment!FindTransfer(w1, k1)
    \/ n = 2 /\ Payment!ClaimConfirm(w1, k1)
    \/ n = 3 /\ Payment!ClaimPoll(w1, k1)
    \/ n = 4 /\ Payment!AskStatus(w1) /\ job[w1].key = k1
    \/ n = 5 /\ Payment!RecordPoll(w1) /\ job[w1].key = k1
    \/ n = 6 /\ Payment!LinkTransfer(w1) /\ job[w1].key = k1
    \/ n = 7 /\ Payment!PostConfirm(w1) /\ job[w1].key = k1
    \/ n = 8 /\ Payment!RecordConfirm(w1) /\ job[w1].key = k1

TransferAnswers(step) ==
    Transfer!Asks(w1) /\ lookup[w1].step = step /\ (Transfer!Ask(w1) \/ Transfer!AskInVain(w1))

TransferSteps(n) ==
    \/ n = 1 /\ Transfer!TakeDue(w1, i1)
    \/ n = 2 /\ Transfer!Reconcile(w1) /\ lookup[w1].key = i1
    \/ n = 3 /\ TransferAnswers("status")
    \/ n = 4 /\ TransferAnswers("missing")
    \/ n = 5 /\ TransferAnswers("thrown")

ArcadeSteps(n) ==
    \/ n = 1 /\ Advance(w1, r1)
    \/ n = 2 /\ Advance(w2, r1)

\* What happens if it can happen over and over
StrongStep(n) ==
    \/ part = "arcade" /\ ArcadeSteps(n) /\ UNCHANGED <<paymentVars, transferVars, matchVars>>
    \/ part = "payment" /\ PaymentSteps(n) /\ UNCHANGED <<vars, transferVars, matchVars>>
    \/ part = "transfer" /\ TransferSteps(n) /\ UNCHANGED <<vars, paymentVars, matchVars>>

ArcadeTimer(n) ==
    \/ n = 1 /\ SweepDue(w1)
    \/ n = 2 /\ SweepDue(w2)
    \/ n = 3 /\ WindowLapses(r1)
    \/ n = 4 /\ ClockRuns(r1)

PaymentTimer(n) ==
    \/ n = 1 /\ Payment!LeaseLapses(k1)
    \/ n = 2 /\ Payment!ConfirmLeaseLapses(k1)
    \/ n = 3 /\ Payment!ProcessEvent(k1, "AWAITING_DEPOSIT")
    \/ n = 4 /\ Payment!ProcessEvent(k1, "COMPLETED")
    \/ n = 5 /\ Payment!ProcessEvent(k1, "EXPIRED")

ChessTimer(n) ==
    \/ n = 1 /\ Chess!Sweep
    \/ n = 2 /\ Chess!ClockTicks

\* What happens if it can happen from now on
WeakStep(n) ==
    \/ part = "arcade" /\ ArcadeTimer(n) /\ UNCHANGED <<paymentVars, transferVars, matchVars>>
    \/ part = "payment" /\ PaymentTimer(n) /\ UNCHANGED <<vars, transferVars, matchVars>>
    \/ part = "chess" /\ ChessTimer(n) /\ UNCHANGED <<vars, paymentVars, transferVars>>

WorkersSpec ==
    /\ WorkersInit /\ [][WorkersNext]_workersVars
    /\ \A n \in 1..8 : SF_workersVars(StrongStep(n) /\ UNCHANGED part)
    /\ \A n \in 1..5 : WF_workersVars(WeakStep(n) /\ UNCHANGED part)

-----------------------------------------------------------------------------
(* The properties of the parts; what they start from is false in Init. *)

\* PaymentOperations: payments end, or are put before a person.
PaymentsEnd == Payment!PaymentsEnd

\* PaymentOperations: a linked transfer is acknowledged, or the payment over.
ConfirmationsEnd == Payment!ConfirmationsEnd

\* TransactionLifecycle: a record ends, or its attempts are spent.
LookupsEnd == Transfer!LookupsEnd

\* ChessMatches: what is open is closed by the sweep.
MatchesEnd == Chess!MatchesEnd
=============================================================================
