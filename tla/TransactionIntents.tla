------------------------- MODULE TransactionIntents -------------------------
(***************************************************************************)
(* From an idempotency key to an intent the wallet may sign: QuoteService, *)
(* IntentService and WithdrawalIntentService of src/src/trading, and the   *)
(* transfer of a payout (createOfframpTransferIntent, bindTransferIntent). *)
(*                                                                         *)
(* A call looks its key up, prepares the transaction with a node, inserts  *)
(* the intent and, for a payout, binds it: four steps with awaits between  *)
(* them, after each of which it may fail or die.  What is asked for is the *)
(* quote, the withdrawal or the payout itself; the accounts and amounts    *)
(* are in it.  Whether the deadline a call read has passed at its insert   *)
(* is left open, since the provider may move the deadline meanwhile.       *)
(***************************************************************************)
EXTENDS Naturals

CONSTANTS Keys, Calls,
          SwapQuotes,   \* what swaps are asked for by
          Withdrawals,  \* fingerprints of withdrawals
          Payouts,      \* off-ramp payments
          NoIntent, NoCall, NoKey

VARIABLES
    quote,    \* [SwapQuotes -> "none" | "live" | "expired"], swap_quotes
    payout,   \* [Payouts -> [waits, expired, bound]]: awaiting_chain, past its
              \*   expires_at, and the key of its transaction_intent_id
    intent,   \* [Keys -> [ask, type, by] or NoIntent], transaction_intents; "by" stands
              \*   for the id
    call,     \* [Calls -> [step, key, ask] or NoCall]
    answers   \* history: [key, ask, by], the intents clients were given

intentVars == <<quote, payout, intent, call, answers>>

Asks == SwapQuotes \cup Withdrawals \cup Payouts

\* What an intent may be: transaction_intents.intent_type
Types == {"swap", "erc20_approval", "withdrawal", "payment_transfer"}

ASSUME IntentsAssumption ==
    /\ SwapQuotes \cap Payouts = {}
    /\ NoKey \notin Keys
    /\ NoIntent \notin [ask : Asks, type : Types, by : Calls]

IntentsInit ==
    /\ quote = [q \in SwapQuotes |-> "none"]
    /\ payout = [p \in Payouts |-> [waits |-> TRUE, expired |-> FALSE, bound |-> NoKey]]
    /\ intent = [k \in Keys |-> NoIntent]
    /\ call = [c \in Calls |-> NoCall]
    /\ answers = {}

CallIs(c, step) == call[c] # NoCall /\ call[c].step = step
EndsCall(c) == call' = [call EXCEPT ![c] = NoCall]
AnswersWith(k, a, by) == answers' = answers \cup {[key |-> k, ask |-> a, by |-> by]}

\* QuoteService.create
CreateQuote(q) ==
    /\ quote[q] = "none"
    /\ quote' = [quote EXCEPT ![q] = "live"]
    /\ UNCHANGED <<payout, intent, call, answers>>

SwapQuoteExpires(q) ==
    /\ quote[q] = "live"
    /\ quote' = [quote EXCEPT ![q] = "expired"]
    /\ UNCHANGED <<payout, intent, call, answers>>

\* What PaymentOperations makes of a payout meanwhile: it leaves awaiting_chain, or
\* comes back to it (from unknown), its instructions expire, or the provider gives
\* them a new deadline.
PayoutMoves(p) ==
    /\ \/ payout' = [payout EXCEPT ![p].waits = ~@]
       \/ payout' = [payout EXCEPT ![p].expired = ~@]
    /\ UNCHANGED <<quote, intent, call, answers>>

-----------------------------------------------------------------------------
(* The four steps of a call. *)

\* IntentService compares the quote, WithdrawalIntentService the type and the
\* fingerprint: the intent of a payout is nobody's repeat.
SameAction(k, a) == intent[k].ask = a /\ intent[k].type # "payment_transfer"

StillOpen(p) == payout[p].waits /\ ~payout[p].expired

\* create, createIntent: a repeat is answered from the table, or refused when the
\* key is another action's; a swap needs its quote, a payout its instructions.
LookUp(c, k, a) ==
    /\ call[c] = NoCall
    /\ a \in Payouts => StillOpen(a)
    /\ IF intent[k] # NoIntent
       THEN SameAction(k, a) /\ AnswersWith(k, a, intent[k].by) /\ UNCHANGED call
       ELSE /\ a \in SwapQuotes => quote[a] = "live"
            /\ call' = [call EXCEPT ![c] = [step |-> "prepare", key |-> k, ask |-> a]]
            /\ UNCHANGED answers
    /\ UNCHANGED <<quote, payout, intent>>

\* What a node's answers make of a request: a token that the router may not spend
\* yet is approved first.
TypesOf(a) == IF a \in SwapQuotes THEN {"swap", "erc20_approval"}
              ELSE IF a \in Payouts THEN {"payment_transfer"} ELSE {"withdrawal"}

HasPrepared(c, type) ==
    /\ call' = [call EXCEPT ![c] = [step |-> "insert", key |-> call[c].key,
                                    ask |-> call[c].ask, type |-> type]]
    /\ UNCHANGED <<quote, payout, intent, answers>>

\* IntentService evm, solana: the provider's transaction is checked against the
\* quote and simulated, or the approval it needs first is built.
PrepareSwap(c) ==
    /\ CallIs(c, "prepare") /\ call[c].ask \in SwapQuotes
    /\ \E type \in TypesOf(call[c].ask) : HasPrepared(c, type)

\* WithdrawalIntentService evm, solana, intertrain: the transfer is built from what
\* the nodes answer and simulated, for a withdrawal and for a payout alike.
PrepareTransfer(c) ==
    /\ CallIs(c, "prepare") /\ call[c].ask \notin SwapQuotes
    /\ \E type \in TypesOf(call[c].ask) : HasPrepared(c, type)

\* Mutant: no unique key guards the insert, the last one wins.
AnyKey(k) == TRUE

KeyIsFree(k) == intent[k] = NoIntent

\* repository createIntent: the unique key refuses the second of two.
Insert(c) ==
    /\ CallIs(c, "insert")
    /\ LET k == call[c].key
           a == call[c].ask
       IN  /\ KeyIsFree(k)
           /\ intent' = [intent EXCEPT ![k] = [ask |-> a, type |-> call[c].type, by |-> c]]
           /\ IF a \in Payouts
              THEN call' = [call EXCEPT ![c] = [step |-> "bind", key |-> k, ask |-> a]]
                   /\ UNCHANGED answers
              ELSE EndsCall(c) /\ AnswersWith(k, a, c)
    /\ UNCHANGED <<quote, payout>>

\* Mutant: the transfer bound last is the payout's.
BoundToAny(p, k) == TRUE

NotBoundToAnother(p, k) == payout[p].bound \in {NoKey, k}

\* bindTransferIntent
Bind(c) ==
    /\ CallIs(c, "bind")
    /\ LET k == call[c].key
           p == call[c].ask
       IN  /\ NotBoundToAnother(p, k)
           /\ payout[p].bound = k \/ StillOpen(p)
           /\ payout' = [payout EXCEPT ![p].bound = k]
           /\ AnswersWith(k, p, c)
    /\ EndsCall(c)
    /\ UNCHANGED <<quote, intent>>

\* Refused, failed, or lost with its process: what was inserted stays.
CallFails(c) ==
    /\ call[c] # NoCall
    /\ EndsCall(c)
    /\ UNCHANGED <<quote, payout, intent, answers>>

IntentsNext ==
    \/ \E q \in SwapQuotes : CreateQuote(q) \/ SwapQuoteExpires(q)
    \/ \E p \in Payouts : PayoutMoves(p)
    \/ \E c \in Calls : \/ PrepareSwap(c) \/ PrepareTransfer(c) \/ Insert(c)
                        \/ Bind(c) \/ CallFails(c)
                        \/ \E k \in Keys, a \in Asks : LookUp(c, k, a)

IntentsSpec == IntentsInit /\ [][IntentsNext]_intentVars

-----------------------------------------------------------------------------
(* Properties. *)

\* The rows, the calls and the answers are well formed.
IntentsTypeOK ==
    /\ quote \in [SwapQuotes -> {"none", "live", "expired"}]
    /\ payout \in [Payouts -> [waits : BOOLEAN, expired : BOOLEAN, bound : Keys \cup {NoKey}]]
    /\ \A k \in Keys : intent[k] # NoIntent =>
          intent[k].ask \in Asks /\ intent[k].type \in TypesOf(intent[k].ask)
    /\ \A c \in Calls : call[c] # NoCall => call[c].step \in {"prepare", "insert", "bind"}
    /\ answers \subseteq [key : Keys, ask : Asks, by : Calls]

\* Whoever is answered for a key, at once, after a retry or after losing a race
\* on it, is given one and the same intent, and it is for what he asked for
\* (existingIntent, the comparisons of create, and the unique key).
OneIntentPerKey ==
    /\ \A x, y \in answers : x.key = y.key => x = y
    /\ \A x \in answers : intent[x.key] # NoIntent /\ intent[x.key].ask = x.ask
                          /\ intent[x.key].by = x.by

\* Of a payout one transfer reaches a client to be signed, the one the worker
\* will look for, though calls with other keys prepared theirs and left them in
\* the table (bindTransferIntent).
PaymentTransferIsBound ==
    \A x \in answers : x.ask \in Payouts => payout[x.ask].bound = x.key
=============================================================================
