----------------------- MODULE PaymentServices_proofs -----------------------
(***************************************************************************)
(* Theorems about the services money passes through: TransactionIntents,   *)
(* PaymentTerms and PaymentCatalogue, each for every value of its          *)
(* constants under its assumption.                                         *)
(***************************************************************************)
EXTENDS TransactionIntents, PaymentTerms, PaymentCatalogue, TLAPS

-----------------------------------------------------------------------------
(* TransactionIntents: the inductive invariant. *)

IntentRows == [ask : Asks, type : Types, by : Calls]

\* The rows and the answers have their types, and what a call holds is of its key
\* and request.
IntentShapes ==
    /\ payout \in [Payouts -> [waits : BOOLEAN, expired : BOOLEAN, bound : Keys \cup {NoKey}]]
    /\ intent \in [Keys -> IntentRows \cup {NoIntent}]
    /\ answers \subseteq [key : Keys, ask : Asks, by : Calls]
    /\ call = [c \in Calls |-> call[c]]
    /\ \A c \in Calls : call[c] # NoCall =>
          /\ call[c].key \in Keys /\ call[c].ask \in Asks
          /\ call[c].step = "insert" => call[c].type \in TypesOf(call[c].ask)

\* The intent of a payout is of a type of its own, by which a repeat is told from it.
PayoutsAreMarked ==
    \A k \in Keys : intent[k] # NoIntent /\ intent[k].ask \in Payouts =>
        intent[k].type = "payment_transfer"

\* A call that is to bind has inserted the intent it binds.
BindersInserted ==
    \A c \in Calls : CallIs(c, "bind") =>
        LET k == call[c].key IN
            intent[k] # NoIntent /\ intent[k].ask = call[c].ask /\ intent[k].by = c

\* What was answered is in the table.
AnswersAreStored ==
    \A x \in answers : intent[x.key] # NoIntent /\ intent[x.key].ask = x.ask
                       /\ intent[x.key].by = x.by

IntentsInv ==
    /\ IntentShapes /\ PayoutsAreMarked /\ BindersInserted
    /\ AnswersAreStored /\ PaymentTransferIsBound

-----------------------------------------------------------------------------
(* It holds at first, and every action keeps it. *)

LEMMA IntentsStart == IntentsInit => IntentsInv
  BY DEF IntentsInit, IntentsInv, IntentShapes, PayoutsAreMarked, BindersInserted, AnswersAreStored,
         PaymentTransferIsBound, CallIs

LEMMA TypesAreTypes == \A a : TypesOf(a) \subseteq Types
  BY DEF TypesOf, Types

\* Only a payout has the type of one.
LEMMA PayoutType ==
    ASSUME NEW a \in Payouts
    PROVE  TypesOf(a) = {"payment_transfer"}
  BY IntentsAssumption DEF TypesOf

\* A payout that moves keeps the transfer that is bound to it.
LEMMA PayoutMovesKeeps ==
    ASSUME IntentsInv, NEW p \in Payouts, PayoutMoves(p)
    PROVE  IntentsInv'
<1>1. /\ payout' \in [Payouts -> [waits : BOOLEAN, expired : BOOLEAN, bound : Keys \cup {NoKey}]]
      /\ \A q \in Payouts : payout'[q].bound = payout[q].bound
  <2>1. payout[p] \in [waits : BOOLEAN, expired : BOOLEAN, bound : Keys \cup {NoKey}]
    BY DEF IntentsInv, IntentShapes
  <2>2. PICK row \in [waits : BOOLEAN, expired : BOOLEAN, bound : Keys \cup {NoKey}] :
            row.bound = payout[p].bound /\ payout' = [payout EXCEPT ![p] = row]
    <3>1. CASE payout' = [payout EXCEPT ![p].waits = ~@]
      <4> DEFINE row == [payout[p] EXCEPT !.waits = ~@]
      <4>1. row \in [waits : BOOLEAN, expired : BOOLEAN, bound : Keys \cup {NoKey}]
            /\ row.bound = payout[p].bound
        BY <2>1
      <4> QED BY <3>1, <4>1
    <3>2. CASE payout' = [payout EXCEPT ![p].expired = ~@]
      <4> DEFINE row == [payout[p] EXCEPT !.expired = ~@]
      <4>1. row \in [waits : BOOLEAN, expired : BOOLEAN, bound : Keys \cup {NoKey}]
            /\ row.bound = payout[p].bound
        BY <2>1
      <4> QED BY <3>2, <4>1
    <3> QED BY <3>1, <3>2 DEF PayoutMoves
  <2> QED BY <2>2 DEF IntentsInv, IntentShapes
<1> QED
  BY <1>1 DEF PayoutMoves, IntentsInv, IntentShapes, PayoutsAreMarked, BindersInserted, AnswersAreStored,
              PaymentTransferIsBound, CallIs

\* A repeat that is answered is answered with what is stored, and never for a payout.
LEMMA LookUpKeeps ==
    ASSUME IntentsInv, NEW c \in Calls, NEW k \in Keys, NEW a \in Asks, LookUp(c, k, a)
    PROVE  IntentsInv'
<1>1. CASE intent[k] # NoIntent
  <2>1. /\ intent[k].ask = a /\ intent[k].type # "payment_transfer"
        /\ answers' = answers \cup {[key |-> k, ask |-> a, by |-> intent[k].by]}
        /\ UNCHANGED <<payout, intent, call>>
    BY <1>1 DEF LookUp, SameAction, AnswersWith
  <2>2. intent[k].by \in Calls /\ a \notin Payouts
    BY <1>1, <2>1 DEF IntentsInv, IntentShapes, IntentRows, PayoutsAreMarked
  <2> QED
    BY <1>1, <2>1, <2>2 DEF IntentsInv, IntentShapes, PayoutsAreMarked, BindersInserted, AnswersAreStored,
                            PaymentTransferIsBound, CallIs
<1>2. CASE intent[k] = NoIntent
  <2>1. /\ call' = [call EXCEPT ![c] = [step |-> "prepare", key |-> k, ask |-> a]]
        /\ UNCHANGED <<payout, intent, answers>>
    BY <1>2 DEF LookUp
  <2> QED
    BY <2>1 DEF IntentsInv, IntentShapes, PayoutsAreMarked, BindersInserted, AnswersAreStored,
                PaymentTransferIsBound, CallIs
<1> QED BY <1>1, <1>2

LEMMA PrepareKeeps ==
    ASSUME IntentsInv, NEW c \in Calls, PrepareSwap(c) \/ PrepareTransfer(c)
    PROVE  IntentsInv'
<1>1. PICK type \in TypesOf(call[c].ask) :
          call' = [call EXCEPT ![c] = [step |-> "insert", key |-> call[c].key,
                                       ask |-> call[c].ask, type |-> type]]
  BY DEF PrepareSwap, PrepareTransfer, HasPrepared
<1>2. call[c] # NoCall /\ UNCHANGED <<payout, intent, answers>>
  BY DEF PrepareSwap, PrepareTransfer, HasPrepared, CallIs
<1> QED
  BY <1>1, <1>2 DEF IntentsInv, IntentShapes, PayoutsAreMarked, BindersInserted, AnswersAreStored,
                    PaymentTransferIsBound, CallIs

\* The key was free, so nobody was answered for it and nobody is to bind it.
LEMMA InsertKeeps ==
    ASSUME IntentsInv, NEW c \in Calls, Insert(c)
    PROVE  IntentsInv'
<1> DEFINE k == call[c].key
           a == call[c].ask
           row == [ask |-> a, type |-> call[c].type, by |-> c]
<1>1. /\ k \in Keys /\ a \in Asks /\ call[c].type \in TypesOf(a)
      /\ intent[k] = NoIntent /\ intent' = [intent EXCEPT ![k] = row]
      /\ UNCHANGED payout
  BY DEF Insert, CallIs, KeyIsFree, IntentsInv, IntentShapes
<1>2. row \in IntentRows /\ row # NoIntent /\ (a \in Payouts => row.type = "payment_transfer")
  BY <1>1, TypesAreTypes, PayoutType, IntentsAssumption DEF IntentRows
<1>3. /\ intent' \in [Keys -> IntentRows \cup {NoIntent}] /\ intent'[k] = row
      /\ \A j \in Keys : j # k => intent'[j] = intent[j]
  BY <1>1, <1>2 DEF IntentsInv, IntentShapes
<1>4. PayoutsAreMarked'
  BY <1>2, <1>3 DEF IntentsInv, PayoutsAreMarked
<1>5. \A x \in answers : x.key \in Keys /\ x.key # k
  BY <1>1 DEF IntentsInv, IntentShapes, AnswersAreStored
<1>6. \A d \in Calls : CallIs(d, "bind") => call[d].key \in Keys /\ call[d].key # k
  BY <1>1 DEF IntentsInv, IntentShapes, BindersInserted, CallIs
<1>7. CASE a \in Payouts
  <2>1. /\ call' = [call EXCEPT ![c] = [step |-> "bind", key |-> k, ask |-> a]]
        /\ UNCHANGED answers
    BY <1>7 DEF Insert
  <2>2. IntentShapes'
    BY <1>1, <1>3, <2>1 DEF IntentsInv, IntentShapes
  <2>3. BindersInserted'
    <3> SUFFICES ASSUME NEW d \in Calls, CallIs(d, "bind")'
                 PROVE  (LET j == call[d].key IN
                           intent[j] # NoIntent /\ intent[j].ask = call[d].ask /\ intent[j].by = d)'
      BY DEF BindersInserted
    <3>1. CASE d = c
      BY <1>2, <1>3, <2>1, <3>1 DEF IntentsInv, IntentShapes
    <3>2. CASE d # c
      BY <1>3, <1>6, <2>1, <3>2 DEF IntentsInv, IntentShapes, BindersInserted, CallIs
    <3> QED BY <3>1, <3>2
  <2>4. AnswersAreStored' /\ PaymentTransferIsBound'
    BY <1>1, <1>3, <1>5, <2>1 DEF IntentsInv, AnswersAreStored, PaymentTransferIsBound
  <2> QED BY <1>4, <2>2, <2>3, <2>4 DEF IntentsInv
<1>8. CASE a \notin Payouts
  <2>1. /\ call' = [call EXCEPT ![c] = NoCall]
        /\ answers' = answers \cup {[key |-> k, ask |-> a, by |-> c]}
    BY <1>8 DEF Insert, EndsCall, AnswersWith
  <2>2. IntentShapes'
    BY <1>1, <1>3, <2>1 DEF IntentsInv, IntentShapes
  <2>3. BindersInserted'
    BY <1>3, <1>6, <2>1 DEF IntentsInv, IntentShapes, BindersInserted, CallIs
  <2>4. AnswersAreStored'
    BY <1>2, <1>3, <1>5, <2>1 DEF IntentsInv, AnswersAreStored
  <2>5. PaymentTransferIsBound'
    BY <1>1, <1>8, <2>1 DEF IntentsInv, PaymentTransferIsBound
  <2> QED BY <1>4, <2>2, <2>3, <2>4, <2>5 DEF IntentsInv
<1> QED BY <1>7, <1>8

\* Whatever was answered for the payout before was the transfer bound to it.
LEMMA BindKeeps ==
    ASSUME IntentsInv, NEW c \in Calls, Bind(c)
    PROVE  IntentsInv'
<1> DEFINE k == call[c].key
           p == call[c].ask
<1>1. /\ CallIs(c, "bind") /\ k \in Keys /\ p \in Asks
      /\ payout[p].bound \in {NoKey, k}
      /\ payout' = [payout EXCEPT ![p].bound = k]
      /\ answers' = answers \cup {[key |-> k, ask |-> p, by |-> c]}
      /\ call' = [call EXCEPT ![c] = NoCall]
      /\ UNCHANGED intent
  BY DEF Bind, CallIs, NotBoundToAnother, AnswersWith, EndsCall, IntentsInv, IntentShapes
<1>2. intent[k] # NoIntent /\ intent[k].ask = p /\ intent[k].by = c
  BY <1>1 DEF IntentsInv, BindersInserted
<1>3. /\ payout' \in [Payouts -> [waits : BOOLEAN, expired : BOOLEAN, bound : Keys \cup {NoKey}]]
      /\ \A q \in Payouts : payout'[q].bound = IF q = p THEN k ELSE payout[q].bound
  BY <1>1 DEF IntentsInv, IntentShapes
<1>4. IntentShapes' /\ PayoutsAreMarked' /\ BindersInserted' /\ AnswersAreStored'
  BY <1>1, <1>2, <1>3 DEF IntentsInv, IntentShapes, PayoutsAreMarked, BindersInserted, AnswersAreStored, CallIs
<1>5. PaymentTransferIsBound'
  <2> SUFFICES ASSUME NEW x \in answers', x.ask \in Payouts
               PROVE  payout'[x.ask].bound = x.key
    BY DEF PaymentTransferIsBound
  <2>1. CASE x \in answers
    <3>1. x.key \in Keys /\ payout[x.ask].bound = x.key
      BY <2>1 DEF IntentsInv, IntentShapes, PaymentTransferIsBound
    <3> QED BY <1>1, <1>3, <3>1, IntentsAssumption
  <2>2. CASE x = [key |-> k, ask |-> p, by |-> c]
    BY <1>3, <2>2
  <2> QED BY <1>1, <2>1, <2>2
<1> QED BY <1>4, <1>5 DEF IntentsInv

LEMMA CallFailsKeeps ==
    ASSUME IntentsInv, NEW c \in Calls, CallFails(c)
    PROVE  IntentsInv'
  BY DEF CallFails, EndsCall, IntentsInv, IntentShapes, PayoutsAreMarked, BindersInserted, AnswersAreStored,
         PaymentTransferIsBound, CallIs

\* What leaves the intents, calls, payouts and answers alone.
LEMMA RestKeeps ==
    ASSUME IntentsInv, UNCHANGED <<payout, intent, call, answers>>
    PROVE  IntentsInv'
  BY DEF IntentsInv, IntentShapes, PayoutsAreMarked, BindersInserted, AnswersAreStored,
         PaymentTransferIsBound, CallIs

LEMMA IntentsStepKeeps ==
    ASSUME IntentsInv, [IntentsNext]_intentVars
    PROVE  IntentsInv'
<1>1. ASSUME NEW q \in SwapQuotes, CreateQuote(q) \/ SwapQuoteExpires(q) PROVE IntentsInv'
  BY <1>1, RestKeeps DEF CreateQuote, SwapQuoteExpires
<1>2. CASE UNCHANGED intentVars
  BY <1>2, RestKeeps DEF intentVars
<1> QED
  BY <1>1, <1>2, PayoutMovesKeeps, LookUpKeeps, PrepareKeeps, InsertKeeps, BindKeeps, CallFailsKeeps
     DEF IntentsNext

-----------------------------------------------------------------------------
(* The theorems. *)

\* IInv holds in every behaviour of the calls.
THEOREM IntentsInvariant == IntentsSpec => []IntentsInv
  BY IntentsStart, IntentsStepKeeps, PTL DEF IntentsSpec

\* Whoever is answered for a key is given one intent, for what he asked for.
THEOREM OneIntentHolds == IntentsSpec => []OneIntentPerKey
<1>1. IntentsInv => OneIntentPerKey
  <2> SUFFICES ASSUME IntentsInv PROVE OneIntentPerKey
    OBVIOUS
  <2>1. ASSUME NEW x \in answers, NEW y \in answers, x.key = y.key PROVE x = y
    <3>1. x.ask = y.ask /\ x.by = y.by
      BY <2>1 DEF IntentsInv, AnswersAreStored
    <3> QED BY <2>1, <3>1 DEF IntentsInv, IntentShapes
  <2> QED BY <2>1 DEF IntentsInv, AnswersAreStored, OneIntentPerKey
<1> QED BY <1>1, IntentsInvariant, PTL

\* Of a payout one transfer reaches a client, the one that is bound to it.
THEOREM TransferIsBoundHolds == IntentsSpec => []PaymentTransferIsBound
  BY IntentsInvariant, PTL DEF IntentsInv

\* What is quoted, the step a call is at, and that an intent's type is one its
\* caller may ask for
StepsFit ==
    /\ quote \in [SwapQuotes -> {"none", "live", "expired"}]
    /\ \A k \in Keys : intent[k] # NoIntent => intent[k].type \in TypesOf(intent[k].ask)
    /\ \A c \in Calls : call[c] # NoCall => call[c].step \in {"prepare", "insert", "bind"}

LEMMA StepsKeepFitting == IntentsInv /\ StepsFit /\ [IntentsNext]_intentVars => StepsFit'
<1> SUFFICES ASSUME IntentsInv, StepsFit, [IntentsNext]_intentVars PROVE StepsFit'
  OBVIOUS
<1>1. call = [c \in Calls |-> call[c]]
  BY DEF IntentsInv, IntentShapes
<1>2. CASE \E q \in SwapQuotes : CreateQuote(q) \/ SwapQuoteExpires(q)
  BY <1>2 DEF CreateQuote, SwapQuoteExpires, StepsFit, TypesOf
<1>3. CASE \E p \in Payouts : PayoutMoves(p)
  BY <1>3 DEF PayoutMoves, StepsFit, TypesOf
<1>4. ASSUME NEW c \in Calls,
             \/ PrepareSwap(c) \/ PrepareTransfer(c) \/ Insert(c) \/ Bind(c) \/ CallFails(c)
             \/ \E k \in Keys, a \in Asks : LookUp(c, k, a)
      PROVE  StepsFit'
  <2>1. quote' = quote
    BY <1>4 DEF PrepareSwap, PrepareTransfer, HasPrepared, Insert, Bind, CallFails, LookUp
  <2>2. /\ \A d \in Calls \ {c} : call'[d] = call[d]
        /\ \/ call'[c] = call[c] \/ call'[c] = NoCall
           \/ call'[c].step \in {"prepare", "insert", "bind"}
    BY <1>1, <1>4 DEF PrepareSwap, PrepareTransfer, HasPrepared, Insert, Bind, CallFails, LookUp, EndsCall
  <2>3. \/ intent' = intent
        \/ \E k \in Keys, a \in Asks : \E type \in TypesOf(a) :
              intent' = [intent EXCEPT ![k] = [ask |-> a, type |-> type, by |-> c]]
    <3>1. CASE Insert(c)
      <4>1. /\ call[c].key \in Keys /\ call[c].ask \in Asks
            /\ call[c].type \in TypesOf(call[c].ask)
            /\ intent' = [intent EXCEPT ![call[c].key] =
                             [ask |-> call[c].ask, type |-> call[c].type, by |-> c]]
        BY <3>1 DEF Insert, CallIs, IntentsInv, IntentShapes
      <4> QED BY <4>1
    <3> QED BY <1>4, <3>1 DEF PrepareSwap, PrepareTransfer, HasPrepared, Bind, CallFails, LookUp
  <2>4. intent \in [Keys -> IntentRows \cup {NoIntent}]
    BY DEF IntentsInv, IntentShapes
  <2>5. \A k \in Keys : intent'[k] # NoIntent => intent'[k].type \in TypesOf(intent'[k].ask)
    BY <2>3, <2>4 DEF StepsFit
  <2> QED BY <2>1, <2>2, <2>5 DEF StepsFit, TypesOf
<1>5. CASE UNCHANGED intentVars
  BY <1>5 DEF intentVars, StepsFit, TypesOf
<1> QED BY <1>2, <1>3, <1>4, <1>5 DEF IntentsNext

\* Type correctness of quotes, intents and calls
THEOREM IntentsTypes == IntentsSpec => []IntentsTypeOK
<1>1. IntentsInit => StepsFit
  BY DEF IntentsInit, StepsFit
<1>2. IntentsSpec => []StepsFit
  BY <1>1, StepsKeepFitting, IntentsInvariant, PTL DEF IntentsSpec
<1>3. IntentsInv /\ StepsFit => IntentsTypeOK
  <2> SUFFICES ASSUME IntentsInv, StepsFit PROVE IntentsTypeOK
    OBVIOUS
  <2>1. \A k \in Keys : intent[k] # NoIntent =>
           intent[k].ask \in Asks /\ intent[k].type \in TypesOf(intent[k].ask)
    BY DEF IntentsInv, IntentShapes, IntentRows, StepsFit
  <2> QED BY <2>1 DEF IntentsInv, IntentShapes, StepsFit, IntentsTypeOK
<1> QED BY <1>2, <1>3, IntentsInvariant, PTL

-----------------------------------------------------------------------------
(* PaymentTerms: the inductive invariant. *)

\* The rows have their types; a task is about a quote, and the terms it is to
\* store are the provider's.
TermShapes ==
    /\ price \in Terms
    /\ reviewed \in [PaymentQuotes -> Quoted \cup {NoTerms}]
    /\ payment \in [PaymentQuotes -> [status : {"none", "created", "initiating", "open", "over"},
                               shown : Terms \cup {NoTerms}]]
    /\ held \in [PaymentQuotes -> Terms \cup {NoTerms}]
    /\ task = [t \in Tasks |-> task[t]]
    /\ \A t \in Tasks : task[t] # NoTask =>
          task[t].quote \in PaymentQuotes /\ {"step", "quote", "says"} \subseteq DOMAIN task[t]
    /\ \A t \in Tasks : TaskIs(t, "stores") => task[t].says \in Terms

\* Nothing is started, held or learnt of a quote before it was reviewed.
ReviewComesFirst ==
    /\ \A t \in Tasks : task[t] # NoTask /\ task[t].step # "stores" =>
          reviewed[task[t].quote] # NoTerms
    /\ \A q \in PaymentQuotes : held[q] # NoTerms => reviewed[q] # NoTerms

TermsInv == TermShapes /\ ReviewComesFirst /\ PaidOnReviewedTerms

-----------------------------------------------------------------------------
(* It holds at first, and every action keeps it. *)

LEMMA TermsStart == TermsInit => TermsInv
  BY DEF TermsInit, TermsInv, TermShapes, ReviewComesFirst, PaidOnReviewedTerms, TaskIs

\* The heart of it: what agrees with the quote is what was reviewed.
LEMMA AgreedTerms ==
    ASSUME TermsInv, NEW q \in PaymentQuotes, reviewed[q] # NoTerms, NEW says, Agrees(says, q)
    PROVE  says \in Terms /\ says = reviewed[q].terms
  BY DEF TermsInv, TermShapes, Quoted, Agrees

\* So a snapshot of it, or what the payment has shown before, may be shown.
LEMMA SnapshotTerms ==
    ASSUME TermsInv, NEW q \in PaymentQuotes, reviewed[q] # NoTerms, NEW says,
           NEW shown \in {payment[q].shown, Snapshot(says, q), NoTerms}
    PROVE  shown \in Terms \cup {NoTerms} /\ (shown # NoTerms => shown = reviewed[q].terms)
<1>1. payment[q].shown \in Terms \cup {NoTerms}
      /\ (payment[q].shown # NoTerms => payment[q].shown = reviewed[q].terms)
  BY DEF TermsInv, TermShapes, PaidOnReviewedTerms
<1> QED BY <1>1, AgreedTerms DEF Snapshot

\* A step that gives no task another quote or another kind of work, but for the post
\* that follows a creation.
TasksGoOn ==
    /\ task' = [t \in Tasks |-> task'[t]]
    /\ \A t \in Tasks : task'[t] # NoTask =>
          /\ task[t] # NoTask /\ task'[t].quote = task[t].quote
          /\ DOMAIN task'[t] = DOMAIN task[t]
          /\ task'[t] = task[t] \/ (task[t].step = "creates" /\ task'[t].step = "posts")

LEMMA GoesOn ==
    ASSUME TermsInv, NEW t \in Tasks,
           UNCHANGED task \/ EndsTask(t) \/ (Goes(t, "posts") /\ TaskIs(t, "creates"))
    PROVE  TasksGoOn
<1>1. task = [s \in Tasks |-> task[s]]
  BY DEF TermsInv, TermShapes
<1>2. CASE UNCHANGED task
  BY <1>1, <1>2 DEF TasksGoOn
<1>3. CASE EndsTask(t)
  BY <1>1, <1>3 DEF TasksGoOn, EndsTask
<1>4. CASE Goes(t, "posts") /\ TaskIs(t, "creates")
  <2>1. task' = [task EXCEPT ![t] = [task[t] EXCEPT !.step = "posts"]]
    BY <1>4 DEF Goes
  <2>2. \A s \in Tasks : s # t => task'[s] = task[s]
    BY <1>1, <2>1
  <2>3. task[t] # NoTask /\ task[t].step = "creates"
    BY <1>4 DEF TaskIs
  <2>4. /\ task'[t].quote = task[t].quote /\ task'[t].step = "posts"
        /\ DOMAIN task'[t] = DOMAIN task[t]
    <3>1. task'[t] = [task[t] EXCEPT !.step = "posts"]
      BY <1>1, <2>1
    <3>2. {"step", "quote", "says"} \subseteq DOMAIN task[t]
      BY <2>3 DEF TermsInv, TermShapes
    <3> QED BY <3>1, <3>2
  <2>5. task' = [s \in Tasks |-> task'[s]]
    BY <1>1, <2>1
  <2> QED BY <2>2, <2>3, <2>4, <2>5 DEF TasksGoOn
<1> QED BY <1>2, <1>3, <1>4

\* A payment that shows nothing, or what was reviewed, keeps the invariant.
LEMMA PaymentKeeps ==
    ASSUME TermsInv, NEW q \in PaymentQuotes, reviewed[q] # NoTerms,
           NEW row \in [status : {"none", "created", "initiating", "open", "over"},
                        shown : Terms \cup {NoTerms}],
           row.shown # NoTerms => row.shown = reviewed[q].terms,
           payment' = [payment EXCEPT ![q] = row],
           UNCHANGED <<price, reviewed, held>>, TasksGoOn
    PROVE  TermsInv'
<1>1. TermShapes'
  BY DEF TermsInv, TermShapes, TaskIs, TasksGoOn
<1>2. ReviewComesFirst'
  BY DEF TermsInv, TermShapes, ReviewComesFirst, TasksGoOn
<1>3. PaidOnReviewedTerms'
  BY DEF TermsInv, TermShapes, PaidOnReviewedTerms
<1> QED BY <1>1, <1>2, <1>3 DEF TermsInv

\* So does a task that is given something to do with a reviewed quote.
LEMMA HeardKeeps ==
    ASSUME TermsInv, NEW t \in Tasks, NEW q \in PaymentQuotes, NEW step, NEW says,
           Hears(t, step, q, says),
           IF step = "stores" THEN says \in Terms ELSE reviewed[q] # NoTerms,
           UNCHANGED <<price, reviewed, payment>>,
           UNCHANGED held \/ (reviewed[q] # NoTerms /\ held' = [held EXCEPT ![q] = price])
    PROVE  TermsInv'
<1>1. task' = [task EXCEPT ![t] = [step |-> step, quote |-> q, says |-> says]]
  BY DEF Hears
<1>2. held' \in [PaymentQuotes -> Terms \cup {NoTerms}]
      /\ \A p \in PaymentQuotes : held'[p] # NoTerms => held[p] # NoTerms \/ reviewed[p] # NoTerms
  BY DEF TermsInv, TermShapes
<1>3. TermShapes'
  BY <1>1, <1>2 DEF TermsInv, TermShapes, TaskIs
<1>4. ReviewComesFirst'
  BY <1>1, <1>2 DEF TermsInv, TermShapes, ReviewComesFirst
<1> QED BY <1>3, <1>4 DEF TermsInv, PaidOnReviewedTerms

LEMMA PriceMovesKeeps ==
    ASSUME TermsInv, PriceMoves \/ (\E q \in PaymentQuotes : HeldMoves(q))
    PROVE  TermsInv'
<1>1. /\ price' \in Terms /\ held' \in [PaymentQuotes -> Terms \cup {NoTerms}]
      /\ \A q \in PaymentQuotes : held'[q] # NoTerms => held[q] # NoTerms
      /\ UNCHANGED <<reviewed, payment, task>>
  BY DEF PriceMoves, HeldMoves, TermsInv, TermShapes
<1> QED BY <1>1 DEF TermsInv, TermShapes, ReviewComesFirst, PaidOnReviewedTerms, TaskIs

LEMMA StoresQuoteKeeps ==
    ASSUME TermsInv, NEW t \in Tasks, StoresQuote(t)
    PROVE  TermsInv'
<1> DEFINE q == task[t].quote
           row == [terms |-> task[t].says, expired |-> FALSE]
<1>1. /\ q \in PaymentQuotes /\ reviewed[q] = NoTerms /\ row \in Quoted
      /\ reviewed' = [reviewed EXCEPT ![q] = row]
      /\ task' = [task EXCEPT ![t] = NoTask] /\ UNCHANGED <<price, payment, held>>
  BY DEF StoresQuote, TaskIs, EndsTask, TermsInv, TermShapes, Quoted
<1>2. /\ reviewed' \in [PaymentQuotes -> Quoted \cup {NoTerms}] /\ reviewed'[q] # NoTerms
      /\ \A p \in PaymentQuotes : p # q => reviewed'[p] = reviewed[p]
  BY <1>1, TermsAssumption DEF TermsInv, TermShapes
<1>3. \A s \in Tasks : task'[s] # NoTask => task'[s] = task[s]
  BY <1>1 DEF TermsInv, TermShapes
<1>4. TermShapes'
  BY <1>1, <1>2, <1>3 DEF TermsInv, TermShapes, TaskIs
<1>5. ReviewComesFirst'
  BY <1>1, <1>2, <1>3 DEF TermsInv, TermShapes, ReviewComesFirst
<1>6. PaidOnReviewedTerms'
  BY <1>1, <1>2 DEF TermsInv, PaidOnReviewedTerms
<1> QED BY <1>4, <1>5, <1>6 DEF TermsInv

LEMMA QuoteExpiresKeeps ==
    ASSUME TermsInv, NEW q \in PaymentQuotes, PaymentQuoteExpires(q)
    PROVE  TermsInv'
<1> DEFINE row == [reviewed[q] EXCEPT !.expired = TRUE]
<1>1. /\ reviewed[q] # NoTerms /\ reviewed[q] \in Quoted
      /\ reviewed' = [reviewed EXCEPT ![q] = row]
      /\ UNCHANGED <<price, payment, held, task>>
  BY DEF PaymentQuoteExpires, TermsInv, TermShapes
<1>2. row \in Quoted /\ row.terms = reviewed[q].terms /\ row # NoTerms
  BY <1>1, TermsAssumption DEF Quoted
<1>3. /\ reviewed' \in [PaymentQuotes -> Quoted \cup {NoTerms}]
      /\ \A p \in PaymentQuotes : reviewed[p] # NoTerms =>
            reviewed'[p] # NoTerms /\ reviewed'[p].terms = reviewed[p].terms
  <2> HIDE DEF row
  <2> QED BY <1>1, <1>2 DEF TermsInv, TermShapes
<1> QED BY <1>1, <1>3 DEF TermsInv, TermShapes, ReviewComesFirst, PaidOnReviewedTerms, TaskIs

LEMMA CreatesKeeps ==
    ASSUME TermsInv, NEW t \in Tasks, Creates(t)
    PROVE  TermsInv'
<1> DEFINE q == task[t].quote
<1>1. /\ q \in PaymentQuotes /\ reviewed[q] # NoTerms /\ TaskIs(t, "creates")
      /\ UNCHANGED <<price, reviewed, held>>
  BY DEF Creates, TaskIs, TermsInv, TermShapes, ReviewComesFirst
<1>2. PICK status \in {payment[q].status, "created", "initiating"} :
          payment' = [payment EXCEPT ![q].status = status]
  <2>1. CASE payment[q].status = "none"
    BY <2>1 DEF Creates
  <2>2. CASE payment[q].status = "created"
    BY <2>2 DEF Creates
  <2>3. CASE payment[q].status \notin {"none", "created"}
    <3>1. payment' = [payment EXCEPT ![q].status = payment[q].status]
      BY <2>3, <1>1 DEF Creates, TermsInv, TermShapes
    <3> QED BY <3>1
  <2> QED BY <2>1, <2>2, <2>3
<1>3. TasksGoOn
  <2>1. UNCHANGED task \/ EndsTask(t) \/ Goes(t, "posts")
    BY DEF Creates
  <2> QED BY <1>1, <2>1, GoesOn
<1> DEFINE row == [payment[q] EXCEPT !.status = status]
<1>4. /\ row \in [status : {"none", "created", "initiating", "open", "over"},
                  shown : Terms \cup {NoTerms}]
      /\ row.shown = payment[q].shown
      /\ payment' = [payment EXCEPT ![q] = row]
  BY <1>1, <1>2 DEF TermsInv, TermShapes
<1>5. row.shown # NoTerms => row.shown = reviewed[q].terms
  BY <1>1, <1>4 DEF TermsInv, PaidOnReviewedTerms
<1> QED
  <2> HIDE DEF row
  <2> QED BY <1>1, <1>3, <1>4, <1>5, PaymentKeeps

\* Whichever way the post goes, the provider can hold only a payment of a quote
\* that was reviewed.
LEMMA PostsKeeps ==
    ASSUME TermsInv, NEW t \in Tasks, PostsPayment(t)
    PROVE  TermsInv'
<1> DEFINE q == task[t].quote
<1>1. /\ q \in PaymentQuotes /\ reviewed[q] # NoTerms /\ UNCHANGED <<price, reviewed, payment>>
  BY DEF PostsPayment, TaskIs, TermsInv, TermShapes, ReviewComesFirst
<1>2. PICK says : Hears(t, "completes", q, says)
                  /\ (UNCHANGED held \/ held' = [held EXCEPT ![q] = price])
  BY DEF PostsPayment
<1> QED BY <1>1, <1>2, HeardKeeps

\* A payment is given one of the rows Completes or Learns can give it.
LEMMA CompletesKeeps ==
    ASSUME TermsInv, NEW t \in Tasks, Completes(t)
    PROVE  TermsInv'
<1> DEFINE q == task[t].quote
           says == task[t].says
<1>1. /\ q \in PaymentQuotes /\ reviewed[q] # NoTerms /\ UNCHANGED <<price, reviewed, held>>
  BY DEF Completes, TaskIs, TermsInv, TermShapes, ReviewComesFirst
<1>goes. TasksGoOn
  <2>1. EndsTask(t)
    BY DEF Completes
  <2> QED BY <2>1, GoesOn
<1>2. payment[q] \in [status : {"none", "created", "initiating", "open", "over"},
                      shown : Terms \cup {NoTerms}]
      /\ (payment[q].shown # NoTerms => payment[q].shown = reviewed[q].terms)
  BY <1>1 DEF TermsInv, TermShapes, PaidOnReviewedTerms
<1>3. CASE says # NoTerms /\ Agrees(says, q)
  <2>1. payment' = [payment EXCEPT ![q] = [status |-> "open", shown |-> says]]
    BY <1>3 DEF Completes
  <2>2. says \in Terms /\ says = reviewed[q].terms
    BY <1>1, <1>3, AgreedTerms
  <2> DEFINE row == [status |-> "open", shown |-> says]
  <2>3. /\ row \in [status : {"none", "created", "initiating", "open", "over"},
                    shown : Terms \cup {NoTerms}]
        /\ row.shown = reviewed[q].terms
    BY <2>2
  <2> QED
    <3>1. payment' = [payment EXCEPT ![q] = row]
      BY <2>1
    <3> HIDE DEF row, q
    <3> QED BY <1>1, <1>goes, <2>3, <3>1, PaymentKeeps
<1>4. CASE ~(says # NoTerms /\ Agrees(says, q)) /\ payment[q].status = "initiating"
  <2>1. PICK status \in {"open", "over"} : payment' = [payment EXCEPT ![q].status = status]
    BY <1>4 DEF Completes
  <2> DEFINE row == [payment[q] EXCEPT !.status = status]
  <2>2. /\ row \in [status : {"none", "created", "initiating", "open", "over"},
                    shown : Terms \cup {NoTerms}]
        /\ row.shown = payment[q].shown /\ payment' = [payment EXCEPT ![q] = row]
    BY <1>2, <2>1
  <2> QED
    <3> HIDE DEF row, q
    <3> QED BY <1>1, <1>2, <1>goes, <2>2, PaymentKeeps
<1>5. CASE ~(says # NoTerms /\ Agrees(says, q)) /\ payment[q].status # "initiating"
  <2>1. payment' = [payment EXCEPT ![q] = payment[q]]
    BY <1>5 DEF Completes, TermsInv, TermShapes
  <2> HIDE DEF q
  <2> QED BY <1>1, <1>2, <1>goes, <2>1, PaymentKeeps
<1> QED BY <1>3, <1>4, <1>5

LEMMA LearnsKeeps ==
    ASSUME TermsInv, NEW t \in Tasks, Learns(t)
    PROVE  TermsInv'
<1> DEFINE q == task[t].quote
           snapshot == Snapshot(task[t].says, q)
<1>1. /\ q \in PaymentQuotes /\ reviewed[q] # NoTerms /\ UNCHANGED <<price, reviewed, held>>
  BY DEF Learns, TaskIs, TermsInv, TermShapes, ReviewComesFirst
<1>goes. TasksGoOn
  <2>1. EndsTask(t)
    BY DEF Learns
  <2> QED BY <2>1, GoesOn
<1>2. payment[q] \in [status : {"none", "created", "initiating", "open", "over"},
                      shown : Terms \cup {NoTerms}]
  BY <1>1 DEF TermsInv, TermShapes
<1>3. ASSUME NEW shown \in {payment[q].shown, snapshot, NoTerms}
      PROVE  shown \in Terms \cup {NoTerms} /\ (shown # NoTerms => shown = reviewed[q].terms)
  BY <1>1, <1>3, SnapshotTerms
<1>4. PICK status \in {payment[q].status, "open", "over"},
           shown \in {payment[q].shown, snapshot, NoTerms} :
          payment' = [payment EXCEPT ![q] = [status |-> status, shown |-> shown]]
  <2>1. \/ payment' = [payment EXCEPT ![q] = [status |-> "open", shown |-> snapshot]]
        \/ payment' = [payment EXCEPT ![q] = [status |-> "over", shown |-> NoTerms]]
        \/ \E shown \in {payment[q].shown, snapshot, NoTerms} :
              payment' = [payment EXCEPT ![q].shown = shown]
    BY DEF Learns
  <2>2. ASSUME NEW shown, payment' = [payment EXCEPT ![q].shown = shown]
        PROVE  payment' = [payment EXCEPT ![q] = [status |-> payment[q].status, shown |-> shown]]
    <3>1. [payment[q] EXCEPT !.shown = shown] = [status |-> payment[q].status, shown |-> shown]
      BY <1>2
    <3> QED BY <2>2, <3>1
  <2> HIDE DEF snapshot
  <2> QED BY <2>1, <2>2
<1> DEFINE row == [status |-> status, shown |-> shown]
<1>5. /\ row \in [status : {"none", "created", "initiating", "open", "over"},
                  shown : Terms \cup {NoTerms}]
      /\ row.shown # NoTerms => row.shown = reviewed[q].terms
  BY <1>2, <1>3, <1>4
<1>6. payment' = [payment EXCEPT ![q] = row]
  BY <1>4
<1> QED
  <2> HIDE DEF row, q
  <2> QED BY <1>1, <1>5, <1>goes, <1>6, PaymentKeeps

LEMMA WebhookMovesKeeps ==
    ASSUME TermsInv, NEW q \in PaymentQuotes, WebhookMoves(q)
    PROVE  TermsInv'
<1>1. PICK status \in {"open", "over"} :
          payment' = [payment EXCEPT ![q].status = status] /\ UNCHANGED <<price, reviewed, held, task>>
  BY DEF WebhookMoves
<1>2. payment' \in [PaymentQuotes -> [status : {"none", "created", "initiating", "open", "over"},
                               shown : Terms \cup {NoTerms}]]
      /\ \A p \in PaymentQuotes : payment'[p].shown = payment[p].shown
  BY <1>1 DEF TermsInv, TermShapes
<1> QED BY <1>1, <1>2 DEF TermsInv, TermShapes, ReviewComesFirst, PaidOnReviewedTerms, TaskIs

LEMMA TaskEndsKeeps ==
    ASSUME TermsInv, NEW t \in Tasks, TaskEnds(t)
    PROVE  TermsInv'
  BY DEF TaskEnds, EndsTask, TermsInv, TermShapes, ReviewComesFirst, PaidOnReviewedTerms, TaskIs

\* The three questions to the provider.
LEMMA AsksKeeps ==
    ASSUME TermsInv, NEW t \in Tasks, NEW q \in PaymentQuotes,
           AsksQuote(t, q) \/ Revalidates(t, q) \/ AsksStatus(t, q)
    PROVE  TermsInv'
<1>1. CASE AsksQuote(t, q)
  <2>1. PICK says \in {price, Garbled} : UsableQuote(says) /\ Hears(t, "stores", q, says)
    BY <1>1 DEF AsksQuote
  <2>2. says \in Terms /\ UNCHANGED <<price, reviewed, payment, held>>
    BY <1>1, <2>1 DEF UsableQuote, TermsInv, TermShapes, AsksQuote
  <2> QED BY <2>1, <2>2, HeardKeeps
<1>2. CASE Revalidates(t, q)
  <2>1. PICK says : Hears(t, "creates", q, says)
    BY <1>2 DEF Revalidates
  <2>2. reviewed[q] # NoTerms /\ UNCHANGED <<price, reviewed, payment, held>>
    BY <1>2 DEF Revalidates
  <2> QED BY <2>1, <2>2, HeardKeeps
<1>3. CASE AsksStatus(t, q)
  <2>1. PICK says : Hears(t, "learns", q, says)
    BY <1>3 DEF AsksStatus
  <2>2. reviewed[q] # NoTerms /\ UNCHANGED <<price, reviewed, payment, held>>
    BY <1>3 DEF AsksStatus, TermsInv, ReviewComesFirst
  <2> QED BY <2>1, <2>2, HeardKeeps
<1> QED BY <1>1, <1>2, <1>3

LEMMA TermsStepKeeps ==
    ASSUME TermsInv, [TermsNext]_termsVars
    PROVE  TermsInv'
<1>1. CASE UNCHANGED termsVars
  BY <1>1 DEF termsVars, TermsInv, TermShapes, ReviewComesFirst, PaidOnReviewedTerms, TaskIs
<1> QED
  BY <1>1, PriceMovesKeeps, StoresQuoteKeeps, QuoteExpiresKeeps, CreatesKeeps, PostsKeeps,
     CompletesKeeps, LearnsKeeps, WebhookMovesKeeps, TaskEndsKeeps, AsksKeeps
     DEF TermsNext

-----------------------------------------------------------------------------
(* The theorems. *)

\* IInv holds in every behaviour.
THEOREM TermsInvariant == TermsSpec => []TermsInv
  BY TermsStart, TermsStepKeeps, PTL DEF TermsSpec

\* Nobody is told to pay on terms other than those he reviewed.
THEOREM ReviewedTermsHold == TermsSpec => []PaidOnReviewedTerms
  BY TermsInvariant, PTL DEF TermsInv

\* Type correctness of the terms that are quoted, held and shown
THEOREM TermsTypes == TermsSpec => []TermsTypeOK
<1>1. TermsInv => TermsTypeOK
  BY DEF TermsInv, TermShapes, Quoted, TermsTypeOK
<1> QED BY <1>1, TermsInvariant, PTL

-----------------------------------------------------------------------------
(* PaymentCatalogue: the inductive invariant. *)

CallerIs(c, step) == caller[c] # NotAsking /\ caller[c].step = step

\* What the provider gave it gave at most a tick before it was stored.
Recent(r) ==
    r = NoCatalogue \/ (r \in [age : 0..Oldest, said : 0..Oldest] /\ r.said <= r.age + 1)

\* The row, the loads and the calls are well formed, and an answer that is not
\* stored yet is no older than its load.
CatalogueShapes ==
    /\ Recent(cached)
    /\ load = [p \in Processes |-> load[p]]
    /\ \A p \in Processes : load[p] # NotAsking =>
          /\ load[p] \in [age : 0..1, answer : CatalogueRows \cup {NoCatalogue},
                          previous : CatalogueRows \cup {NoCatalogue}]
          /\ Recent(load[p].previous)
          /\ load[p].answer # NoCatalogue =>
                load[p].answer.age <= load[p].age /\ load[p].answer.said <= load[p].age
    /\ caller = [c \in Callers |-> caller[c]]
    /\ \A c \in Callers : caller[c] # NotAsking => caller[c].step \in {"decides", "waits", "done"}
    /\ \A c \in Callers : CallerIs(c, "decides") =>
          Recent(caller[c].previous) /\ (caller[c].known => caller[c].previous # NoCatalogue)
    /\ \A c \in Callers : CallerIs(c, "waits") => load[RunsIn[c]] # NotAsking

\* A row read too long ago to have been stored by a load that is under way
Stale(r) == r # NoCatalogue /\ r.age > 2

\* Whoever knows of no row read before there was one, so the row, if there is one by
\* now, is new: nobody else has read it expired meanwhile.  So a call that knows of a
\* row waits for a load that knows of one.
ReadersAgree ==
    /\ \A p \in Processes : load[p] # NotAsking /\ load[p].previous = NoCatalogue =>
          (cached # NoCatalogue => cached.age <= load[p].age + 1)
    /\ \A c \in Callers : CallerIs(c, "decides") /\ caller[c].previous = NoCatalogue =>
          (cached # NoCatalogue => cached.age <= 1)
    /\ \A c \in Callers : CallerIs(c, "decides") /\ caller[c].previous # NoCatalogue =>
          cached # NoCatalogue
    /\ \A c \in Callers : CallerIs(c, "decides") /\ Stale(caller[c].previous) =>
          /\ \A p \in Processes : load[p] # NotAsking => load[p].previous # NoCatalogue
          /\ \A d \in Callers : CallerIs(d, "decides") => caller[d].previous # NoCatalogue
    /\ \A c \in Callers : CallerIs(c, "waits") /\ caller[c].known =>
          load[RunsIn[c]].previous # NoCatalogue

CatalogueInv == CatalogueShapes /\ ReadersAgree /\ CatalogueIsRecent

-----------------------------------------------------------------------------
(* It holds at first, and every action keeps it. *)

LEMMA CatalogueStart == CatalogueInit => CatalogueInv
  BY DEF CatalogueInit, CatalogueInv, CatalogueShapes, ReadersAgree, CatalogueIsRecent, CallerIs,
         Recent, Stale

\* A row that gets older stays a row, and as recent as it was.
LEMMA OlderRow ==
    ASSUME NEW r, Recent(r)
    PROVE  /\ Recent(Older(r)) /\ (Older(r) = NoCatalogue <=> r = NoCatalogue)
           /\ r # NoCatalogue => Older(r).age <= r.age + 1 /\ Older(r).said <= r.said + 1
           /\ r \in CatalogueRows \cup {NoCatalogue} /\ Older(r) \in CatalogueRows \cup {NoCatalogue}
<1>1. CASE r = NoCatalogue
  BY <1>1 DEF Older, Recent
<1>2. CASE r # NoCatalogue
  <2>1. r \in [age : 0..Oldest, said : 0..Oldest] /\ r.said <= r.age + 1 /\ Oldest \in Nat
    BY <1>2, CatalogueAssumption DEF Recent, Oldest
  <2>2. Older(r) = [age |-> IF r.age < Oldest THEN r.age + 1 ELSE r.age,
                    said |-> IF r.said < Oldest THEN r.said + 1 ELSE r.said]
    BY <1>2 DEF Older
  <2>3. /\ Older(r) \in [age : 0..Oldest, said : 0..Oldest]
        /\ Older(r).said <= Older(r).age + 1
        /\ Older(r).age <= r.age + 1 /\ Older(r).said <= r.said + 1
    BY <2>1, <2>2
  <2>4. /\ [age : 0..Oldest, said : 0..Oldest] \subseteq CatalogueRows
        /\ NoCatalogue \notin CatalogueRows
    BY <2>1, CatalogueAssumption DEF CatalogueRows
  <2> QED BY <1>2, <2>1, <2>3, <2>4 DEF Recent
<1> QED BY <1>1, <1>2

LEMMA TickKeeps ==
    ASSUME CatalogueInv, Tick
    PROVE  CatalogueInv'
<1>1. /\ \A c \in Callers : caller[c] # NotAsking => caller[c].step = "waits"
      /\ caller' = caller /\ cached' = Older(cached)
      /\ \A p \in Processes : load[p] # NotAsking => load[p].age = 0
      /\ load' = [p \in Processes |-> OlderLoad(load[p])]
  BY DEF Tick
<1>2. ASSUME NEW p \in Processes, load[p] # NotAsking
      PROVE  /\ load'[p] # NotAsking
             /\ load'[p] \in [age : 0..1, answer : CatalogueRows \cup {NoCatalogue},
                              previous : CatalogueRows \cup {NoCatalogue}]
             /\ load'[p].age = 1 /\ Recent(load'[p].previous)
             /\ load'[p].previous = NoCatalogue <=> load[p].previous = NoCatalogue
             /\ load'[p].answer # NoCatalogue => load'[p].answer.age <= 1 /\ load'[p].answer.said <= 1
  <2> DEFINE l == load[p]
  <2>1. /\ l \in [age : 0..1, answer : CatalogueRows \cup {NoCatalogue},
                  previous : CatalogueRows \cup {NoCatalogue}]
        /\ l.age = 0 /\ Recent(l.previous)
        /\ l.answer # NoCatalogue => l.answer.age <= 0 /\ l.answer.said <= 0
    BY <1>1, <1>2 DEF CatalogueInv, CatalogueShapes
  <2>2. load'[p] = [age |-> 1, answer |-> Older(l.answer), previous |-> Older(l.previous)]
    BY <1>1, <1>2 DEF OlderLoad
  <2>3. Recent(l.answer)
    <3>1. CASE l.answer = NoCatalogue
      BY <3>1 DEF Recent
    <3>2. CASE l.answer # NoCatalogue
      <4>1. l.answer \in CatalogueRows /\ l.answer.age <= 0 /\ l.answer.said <= 0
        BY <2>1, <3>2
      <4>2. l.answer.age = 0 /\ l.answer.said = 0 /\ Oldest \in Nat
        BY <4>1, CatalogueAssumption DEF CatalogueRows, Oldest
      <4> QED BY <4>1, <4>2 DEF Recent, CatalogueRows
    <3> QED BY <3>1, <3>2
  <2>4. /\ Recent(Older(l.previous)) /\ (Older(l.previous) = NoCatalogue <=> l.previous = NoCatalogue)
        /\ Older(l.previous) \in CatalogueRows \cup {NoCatalogue}
    BY <2>1, OlderRow
  <2>5. /\ Older(l.answer) \in CatalogueRows \cup {NoCatalogue}
        /\ Older(l.answer) # NoCatalogue => Older(l.answer).age <= 1 /\ Older(l.answer).said <= 1
    <3>1. CASE l.answer = NoCatalogue
      BY <2>3, <3>1, OlderRow
    <3>2. CASE l.answer # NoCatalogue
      <4>1. /\ l.answer \in CatalogueRows /\ Older(l.answer) \in CatalogueRows \cup {NoCatalogue}
            /\ Older(l.answer).age <= l.answer.age + 1 /\ Older(l.answer).said <= l.answer.said + 1
            /\ Older(l.answer) # NoCatalogue
        BY <2>1, <2>3, <3>2, OlderRow
      <4>2. l.answer.age = 0 /\ l.answer.said = 0
        BY <2>1, <3>2, <4>1 DEF CatalogueRows
      <4> QED BY <4>1, <4>2
    <3> QED BY <3>1, <3>2
  <2> DEFINE older == [age |-> 1, answer |-> Older(l.answer), previous |-> Older(l.previous)]
  <2>6. /\ older.age = 1 /\ older.previous = Older(l.previous) /\ older.answer = Older(l.answer)
        /\ older \in [age : 0..1, answer : CatalogueRows \cup {NoCatalogue},
                      previous : CatalogueRows \cup {NoCatalogue}]
    BY <2>1, <2>4, <2>5
  <2>7. older # NotAsking
    BY <2>6, CatalogueAssumption DEF Loads
  <2> QED BY <2>2, <2>4, <2>5, <2>6, <2>7
<1>3. Recent(cached') /\ (cached # NoCatalogue /\ cached.age <= 1 => cached'.age <= 2)
  <2>1. Recent(cached)
    BY DEF CatalogueInv, CatalogueShapes
  <2>2. cached # NoCatalogue => cached.age \in Nat /\ Older(cached).age \in Nat
    BY <2>1, OlderRow DEF Recent, CatalogueRows
  <2> QED BY <1>1, <2>1, <2>2, OlderRow
<1>4. CatalogueShapes'
  <2>1. load' = [p \in Processes |-> load'[p]]
    BY <1>1
  <2>2. \A p \in Processes : load'[p] # NotAsking => load[p] # NotAsking
    BY <1>1 DEF OlderLoad
  <2>3. \A c \in Callers : RunsIn[c] \in Processes
    BY CatalogueAssumption
  <2> QED BY <1>1, <1>2, <1>3, <2>1, <2>2, <2>3 DEF CatalogueInv, CatalogueShapes, CallerIs
<1>5. ReadersAgree'
  <2>1. ASSUME NEW p \in Processes, load'[p] # NotAsking, load'[p].previous = NoCatalogue,
               cached' # NoCatalogue
        PROVE  cached'.age <= load'[p].age + 1
    <3>1. load[p] # NotAsking /\ load[p].previous = NoCatalogue /\ load[p].age = 0 /\ load'[p].age = 1
      BY <1>1, <1>2, <2>1 DEF OlderLoad
    <3>2. cached # NoCatalogue
      BY <1>1, <2>1, OlderRow DEF CatalogueInv, CatalogueShapes
    <3>3. cached.age <= 1
      BY <3>1, <3>2 DEF CatalogueInv, ReadersAgree
    <3> QED BY <1>3, <3>1, <3>2, <3>3
  <2>2. \A c \in Callers : CallerIs(c, "waits") => load[RunsIn[c]] # NotAsking /\ RunsIn[c] \in Processes
    BY CatalogueAssumption DEF CatalogueInv, CatalogueShapes
  <2> QED BY <1>1, <1>2, <2>1, <2>2 DEF CatalogueInv, ReadersAgree, CallerIs
<1>6. CatalogueIsRecent'
  BY <1>1 DEF CatalogueIsRecent
<1> QED BY <1>4, <1>5, <1>6 DEF CatalogueInv

LEMMA CallReadsKeeps ==
    ASSUME CatalogueInv, NEW c \in Callers, CallReads(c)
    PROVE  CatalogueInv'
<1>1. /\ cached' = cached /\ load' = load /\ Recent(cached)
      /\ caller' = [d \in Callers |-> caller'[d]]
      /\ caller'[c].step = "decides" /\ caller'[c].previous = cached
      /\ caller'[c].known => cached # NoCatalogue
      /\ \A d \in Callers \ {c} : caller'[d] = caller[d]
  <2>1. /\ caller' = [caller EXCEPT ![c] =
                       [step |-> "decides", previous |-> cached, known |-> cached # NoCatalogue]]
        /\ cached' = cached /\ load' = load /\ Recent(cached)
        /\ caller = [d \in Callers |-> caller[d]]
    BY DEF CallReads, CatalogueInv, CatalogueShapes
  <2> QED BY <2>1
<1>2. CatalogueShapes'
  BY <1>1 DEF CatalogueInv, CatalogueShapes, CallerIs
<1>3. ReadersAgree'
  <2>1. Stale(cached) => /\ \A p \in Processes : load[p] # NotAsking => load[p].previous # NoCatalogue
                         /\ \A d \in Callers : CallerIs(d, "decides") => caller[d].previous # NoCatalogue
    <3>1. cached # NoCatalogue => cached.age \in Nat
      BY <1>1 DEF Recent
    <3>2. \A p \in Processes : load[p] # NotAsking => load[p].age \in 0..1
      BY DEF CatalogueInv, CatalogueShapes
    <3> QED BY <3>1, <3>2 DEF CatalogueInv, ReadersAgree, Stale
  <2> QED BY <1>1, <2>1 DEF CatalogueInv, ReadersAgree, CallerIs, Stale
<1>4. CatalogueIsRecent'
  BY <1>1 DEF CatalogueInv, CatalogueIsRecent
<1> QED BY <1>2, <1>3, <1>4 DEF CatalogueInv

LEMMA CallDecidesKeeps ==
    ASSUME CatalogueInv, NEW c \in Callers, CallDecides(c)
    PROVE  CatalogueInv'
<1> DEFINE p == RunsIn[c]
           r == caller[c].previous
<1>1. /\ CallerIs(c, "decides") /\ cached' = cached /\ p \in Processes /\ Recent(r)
      /\ caller[c].known => r # NoCatalogue
  BY CatalogueAssumption DEF CallDecides, CallerIs, CatalogueInv, CatalogueShapes
<1>2. CASE Fresh(r)
  <2>1. /\ load' = load /\ caller' = [d \in Callers |-> caller'[d]]
        /\ caller'[c] = Answered(caller[c].known, r, FALSE)
        /\ \A d \in Callers \ {c} : caller'[d] = caller[d]
    BY <1>2 DEF CallDecides, CatalogueInv, CatalogueShapes
  <2>2. r # NoCatalogue /\ r.said <= Ttl
    BY <1>1, <1>2, CatalogueAssumption DEF Fresh, Recent, Oldest
  <2>3. caller'[c].step = "done" /\ caller'[c].answer = r
    BY <2>1 DEF Answered
  <2>4. CatalogueShapes'
    BY <1>1, <2>1, <2>3 DEF CatalogueInv, CatalogueShapes, CallerIs
  <2>5. ReadersAgree'
    BY <1>1, <2>1, <2>3 DEF CatalogueInv, ReadersAgree, CallerIs, Stale
  <2>6. CatalogueIsRecent'
    BY <2>1, <2>2, <2>3 DEF CatalogueInv, CatalogueIsRecent
  <2> QED BY <2>4, <2>5, <2>6 DEF CatalogueInv
<1>3. CASE ~Fresh(r)
  <2> DEFINE begun == [age |-> 0, answer |-> NoCatalogue, previous |-> r]
  <2>1. /\ caller' = [d \in Callers |-> caller'[d]]
        /\ caller'[c] = [step |-> "waits", known |-> caller[c].known]
        /\ \A d \in Callers \ {c} : caller'[d] = caller[d]
        /\ load' = [q \in Processes |-> load'[q]]
        /\ \A q \in Processes \ {p} : load'[q] = load[q]
        /\ load'[p] = IF load[p] # NotAsking THEN load[p] ELSE begun
    BY <1>1, <1>3 DEF CallDecides, CatalogueInv, CatalogueShapes
  <2>2. r # NoCatalogue => Stale(r)
    BY <1>1, <1>3, CatalogueAssumption DEF Fresh, Stale, Recent
  <2>3. /\ begun \in [age : 0..1, answer : CatalogueRows \cup {NoCatalogue},
                      previous : CatalogueRows \cup {NoCatalogue}]
        /\ begun.previous = r /\ begun.age = 0 /\ begun.answer = NoCatalogue
    BY <1>1, OlderRow
  <2>4. begun # NotAsking
    BY <2>3, CatalogueAssumption DEF Loads
  <2> HIDE DEF begun
  <2>5. load'[p] # NotAsking /\ \A q \in Processes : load[q] # NotAsking => load'[q] = load[q]
    BY <1>1, <2>1, <2>4
  <2>6. CatalogueShapes'
    <3>1. /\ caller'[c].step = "waits"
          /\ \A d \in Callers : RunsIn[d] \in Processes
      BY <2>1, CatalogueAssumption
    <3>2. ASSUME NEW q \in Processes, load'[q] # NotAsking
          PROVE  (load'[q] = load[q] /\ load[q] # NotAsking) \/ load'[q] = begun
      BY <1>1, <2>1, <3>2
    <3>3. \A q \in Processes : load'[q] # NotAsking =>
             /\ load'[q] \in [age : 0..1, answer : CatalogueRows \cup {NoCatalogue},
                               previous : CatalogueRows \cup {NoCatalogue}]
             /\ Recent(load'[q].previous)
             /\ load'[q].answer # NoCatalogue =>
                   load'[q].answer.age <= load'[q].age /\ load'[q].answer.said <= load'[q].age
      BY <1>1, <2>3, <3>2 DEF CatalogueInv, CatalogueShapes
    <3>4. \A d \in Callers : caller'[d] # NotAsking /\ caller'[d].step = "waits" =>
             load'[RunsIn[d]] # NotAsking
      BY <2>1, <2>5, <3>1 DEF CatalogueInv, CatalogueShapes, CallerIs
    <3> QED BY <1>1, <2>1, <3>1, <3>3, <3>4 DEF CatalogueInv, CatalogueShapes, CallerIs
  <2>7. ReadersAgree'
    <3>1. r # NoCatalogue => load'[p].previous # NoCatalogue
      BY <1>1, <2>1, <2>2, <2>3 DEF CatalogueInv, ReadersAgree
    <3>2. ASSUME NEW q \in Processes, load'[q] # NotAsking, load'[q].previous = NoCatalogue,
                 cached # NoCatalogue
          PROVE  cached.age <= load'[q].age + 1
      <4>1. CASE load'[q] = load[q]
        BY <3>2, <4>1 DEF CatalogueInv, ReadersAgree
      <4>2. CASE load'[q] # load[q]
        BY <1>1, <2>1, <2>3, <3>2, <4>2 DEF CatalogueInv, ReadersAgree
      <4> QED BY <4>1, <4>2
    <3>3. ASSUME NEW d \in Callers, CallerIs(d, "decides"), Stale(caller[d].previous),
                 NEW q \in Processes, load'[q] # NotAsking
          PROVE  load'[q].previous # NoCatalogue
      <4>1. CASE load'[q] = load[q]
        BY <3>3, <4>1 DEF CatalogueInv, ReadersAgree
      <4>2. CASE load'[q] # load[q]
        BY <1>1, <2>1, <2>3, <3>3, <4>2 DEF CatalogueInv, ReadersAgree
      <4> QED BY <4>1, <4>2
    <3>4. ASSUME NEW d \in Callers, CallerIs(d, "waits")
          PROVE  load'[RunsIn[d]] = load[RunsIn[d]]
      BY <2>5, <3>4, CatalogueAssumption DEF CatalogueInv, CatalogueShapes
    <3> QED BY <1>1, <2>1, <3>1, <3>2, <3>3, <3>4 DEF CatalogueInv, ReadersAgree, CallerIs
  <2>8. CatalogueIsRecent'
    BY <2>1 DEF CatalogueInv, CatalogueIsRecent
  <2> QED BY <2>6, <2>7, <2>8 DEF CatalogueInv
<1> QED BY <1>2, <1>3

LEMMA ProviderAnswersKeeps ==
    ASSUME CatalogueInv, NEW p \in Processes, ProviderAnswers(p)
    PROVE  CatalogueInv'
<1>1. PICK said \in 0..load[p].age :
         /\ load' = [load EXCEPT ![p].answer = [age |-> 0, said |-> said]]
         /\ load[p] # NotAsking /\ cached' = cached /\ caller' = caller
  BY DEF ProviderAnswers
<1> DEFINE l == [load[p] EXCEPT !.answer = [age |-> 0, said |-> said]]
<1>2. /\ load' = [q \in Processes |-> load'[q]] /\ load'[p] = l
      /\ \A q \in Processes \ {p} : load'[q] = load[q]
  BY <1>1 DEF CatalogueInv, CatalogueShapes
<1>3. /\ l \in [age : 0..1, answer : CatalogueRows \cup {NoCatalogue},
                previous : CatalogueRows \cup {NoCatalogue}]
      /\ l.previous = load[p].previous /\ l.age = load[p].age /\ Recent(l.previous)
      /\ l.answer.age = 0 /\ l.answer.said = said /\ said \in Nat
  BY <1>1 DEF CatalogueInv, CatalogueShapes, CatalogueRows
<1>4. l # NotAsking
  BY <1>3, CatalogueAssumption DEF Loads
<1> HIDE DEF l
<1>5. CatalogueShapes'
  BY <1>1, <1>2, <1>3, <1>4 DEF CatalogueInv, CatalogueShapes, CallerIs
<1>6. ReadersAgree'
  BY <1>1, <1>2, <1>3, <1>4, CatalogueAssumption DEF CatalogueInv, ReadersAgree, CallerIs
<1> QED BY <1>1, <1>5, <1>6 DEF CatalogueInv, CatalogueIsRecent

\* A load that ends, well or not, gives its callers an answer that is right for them.
LEMMA LoadEndsKeeps ==
    ASSUME CatalogueInv, NEW p \in Processes, load[p] # NotAsking, NEW r, NEW stale \in BOOLEAN,
           LoadEnds(p, r, stale),
           cached' = cached \/ (cached' # NoCatalogue /\ Recent(cached') /\ cached'.age <= 1),
           ~stale => r # NoCatalogue /\ r.said <= Ttl,
           stale => r = load[p].previous
    PROVE  CatalogueInv'
<1>1. /\ load' = [q \in Processes |-> load'[q]] /\ load'[p] = NotAsking
      /\ \A q \in Processes \ {p} : load'[q] = load[q]
      /\ caller' = [c \in Callers |-> caller'[c]]
  BY DEF LoadEnds, CatalogueInv, CatalogueShapes
<1>2. ASSUME NEW c \in Callers
      PROVE  \/ caller'[c] = caller[c] /\ ~(CallerIs(c, "waits") /\ RunsIn[c] = p)
             \/ /\ CallerIs(c, "waits") /\ RunsIn[c] = p
                /\ caller'[c].step = "done" /\ caller'[c].known = caller[c].known
                /\ caller'[c].answer = r /\ caller'[c].stale = stale
  BY DEF LoadEnds, Answered, CallerIs
<1>3. CatalogueShapes'
  <2>1. Recent(cached')
    BY DEF CatalogueInv, CatalogueShapes
  <2>2. \A c \in Callers : RunsIn[c] \in Processes
    BY CatalogueAssumption
  <2> QED BY <1>1, <1>2, <2>1, <2>2 DEF CatalogueInv, CatalogueShapes, CallerIs
<1>4. ReadersAgree'
  <2>1. \A q \in Processes : load[q] # NotAsking => load[q].age \in 0..1
    BY DEF CatalogueInv, CatalogueShapes
  <2>2. ASSUME NEW q \in Processes, load'[q] # NotAsking, load'[q].previous = NoCatalogue,
               cached' # NoCatalogue
        PROVE  cached'.age <= load'[q].age + 1
    <3>1. load'[q] = load[q] /\ load[q].age \in 0..1
      BY <1>1, <2>1, <2>2
    <3>2. CASE cached' = cached
      BY <2>2, <3>1, <3>2 DEF CatalogueInv, ReadersAgree
    <3>3. CASE Recent(cached') /\ cached'.age <= 1
      <4>1. cached'.age \in Nat
        BY <2>2, <3>3 DEF Recent
      <4> QED BY <3>1, <3>3, <4>1
    <3> QED BY <3>2, <3>3
  <2>3. \A c \in Callers : CallerIs(c, "decides")' => CallerIs(c, "decides") /\ caller'[c] = caller[c]
    BY <1>2 DEF CallerIs
  <2>4. \A c \in Callers : CallerIs(c, "waits")' =>
           /\ CallerIs(c, "waits") /\ caller'[c] = caller[c] /\ RunsIn[c] \in Processes \ {p}
    BY <1>2, CatalogueAssumption DEF CallerIs
  <2> QED BY <1>1, <2>2, <2>3, <2>4 DEF CatalogueInv, ReadersAgree, Stale
<1>5. CatalogueIsRecent'
  <2> SUFFICES ASSUME NEW c \in Callers, CallerIs(c, "done")'
               PROVE  /\ ~caller'[c].stale => caller'[c].answer.said <= Ttl
                      /\ caller'[c].known => caller'[c].answer # NoCatalogue
    BY DEF CatalogueIsRecent, CallerIs
  <2>1. CASE caller'[c] = caller[c]
    BY <2>1 DEF CatalogueInv, CatalogueIsRecent, CallerIs
  <2>2. CASE /\ CallerIs(c, "waits") /\ RunsIn[c] = p
             /\ caller'[c].step = "done" /\ caller'[c].known = caller[c].known
             /\ caller'[c].answer = r /\ caller'[c].stale = stale
    BY <2>2 DEF CatalogueInv, ReadersAgree
  <2> QED BY <1>2, <2>1, <2>2
<1> QED BY <1>3, <1>4, <1>5 DEF CatalogueInv

LEMMA LoadStoresKeeps ==
    ASSUME CatalogueInv, NEW p \in Processes, LoadStores(p)
    PROVE  CatalogueInv'
<1> DEFINE r == load[p].answer
<1>1. load[p] # NotAsking /\ r # NoCatalogue /\ cached' = r /\ LoadEnds(p, r, FALSE)
  BY DEF LoadStores
<1>2. r \in CatalogueRows /\ r.age <= 1 /\ r.said <= 1
  <2>1. r \in CatalogueRows /\ r.age <= load[p].age /\ r.said <= load[p].age /\ load[p].age \in 0..1
    BY <1>1 DEF CatalogueInv, CatalogueShapes
  <2> QED BY <2>1 DEF CatalogueRows
<1> HIDE DEF r
<1>3. Recent(r) /\ r.said <= Ttl
  BY <1>2, CatalogueAssumption DEF Recent, CatalogueRows, Oldest
<1> QED BY <1>1, <1>2, <1>3, LoadEndsKeeps

LEMMA LoadFailsKeeps ==
    ASSUME CatalogueInv, NEW p \in Processes, LoadFails(p)
    PROVE  CatalogueInv'
  BY LoadEndsKeeps DEF LoadFails, Fallback

LEMMA CallEndsKeeps ==
    ASSUME CatalogueInv, NEW c \in Callers, CallEnds(c)
    PROVE  CatalogueInv'
<1>1. /\ cached' = cached /\ load' = load
      /\ caller' = [d \in Callers |-> caller'[d]] /\ caller'[c] = NotAsking
      /\ \A d \in Callers \ {c} : caller'[d] = caller[d]
  BY DEF CallEnds, CatalogueInv, CatalogueShapes
<1>2. CatalogueShapes'
  BY <1>1 DEF CatalogueInv, CatalogueShapes, CallerIs
<1>3. ReadersAgree'
  BY <1>1 DEF CatalogueInv, ReadersAgree, CallerIs, Stale
<1> QED BY <1>1, <1>2, <1>3 DEF CatalogueInv, CatalogueIsRecent

LEMMA RestartKeeps ==
    ASSUME CatalogueInv, NEW p \in Processes, Restart(p)
    PROVE  CatalogueInv'
<1>1. /\ cached' = cached
      /\ load' = [q \in Processes |-> load'[q]] /\ load'[p] = NotAsking
      /\ \A q \in Processes \ {p} : load'[q] = load[q]
      /\ caller' = [c \in Callers |-> caller'[c]]
      /\ \A c \in Callers : caller'[c] = IF RunsIn[c] = p THEN NotAsking ELSE caller[c]
      /\ \A c \in Callers : RunsIn[c] \in Processes
  BY CatalogueAssumption DEF Restart, CatalogueInv, CatalogueShapes
<1>2. CatalogueShapes'
  BY <1>1 DEF CatalogueInv, CatalogueShapes, CallerIs
<1>3. ReadersAgree'
  BY <1>1 DEF CatalogueInv, ReadersAgree, CallerIs, Stale
<1> QED BY <1>1, <1>2, <1>3 DEF CatalogueInv, CatalogueIsRecent

LEMMA ReleaseKeeps ==
    ASSUME CatalogueInv, Release
    PROVE  CatalogueInv'
<1>1. /\ cached' = NoCatalogue
      /\ load' = [p \in Processes |-> NotAsking] /\ caller' = [c \in Callers |-> NotAsking]
  BY DEF Release
<1> QED
  BY <1>1 DEF CatalogueInv, CatalogueShapes, ReadersAgree, CatalogueIsRecent, CallerIs, Recent, Stale

LEMMA CatalogueStepKeeps ==
    ASSUME CatalogueInv, [CatalogueNext]_catalogueVars
    PROVE  CatalogueInv'
<1>1. CASE UNCHANGED catalogueVars
  BY <1>1 DEF catalogueVars, CatalogueInv, CatalogueShapes, ReadersAgree, CatalogueIsRecent,
              CallerIs, Stale
<1> QED
  BY <1>1, TickKeeps, CallReadsKeeps, CallDecidesKeeps, CallEndsKeeps, ProviderAnswersKeeps,
     LoadStoresKeeps, LoadFailsKeeps, RestartKeeps, ReleaseKeeps
  DEF CatalogueNext

-----------------------------------------------------------------------------
(* The theorems. *)

\* The inductive invariant.
THEOREM CatalogueInvariant == CatalogueSpec => []CatalogueInv
  BY CatalogueStart, CatalogueStepKeeps, PTL DEF CatalogueSpec

\* The row, the loads and the calls keep their types, and who waits has a load to
\* wait for.
THEOREM CatalogueTypes == CatalogueSpec => []CatalogueTypeOK
<1>1. CatalogueInv => CatalogueTypeOK
  BY DEF CatalogueInv, CatalogueShapes, CatalogueTypeOK, CallerIs, Recent
<1> QED BY <1>1, CatalogueInvariant, PTL

\* What a call is given as fresh is recent, and what was known is fallen back on.
THEOREM CatalogueRecentHolds == CatalogueSpec => []CatalogueIsRecent
<1>1. CatalogueInv => CatalogueIsRecent
  BY DEF CatalogueInv
<1> QED BY <1>1, CatalogueInvariant, PTL
=============================================================================
