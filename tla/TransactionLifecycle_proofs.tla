-------------------- MODULE TransactionLifecycle_proofs --------------------
(***************************************************************************)
(* Theorems about TransactionLifecycle, for every set of intents, hashes,  *)
(* requests and workers and every ceiling of attempts.                     *)
(***************************************************************************)
EXTENDS TransactionLifecycle, TLAPS

-----------------------------------------------------------------------------
(* Type correctness. *)

\* What a look-up may write.
Written == {"submitted", "unknown", "confirmed", "failed", "dropped"}

LEMMA AnswerTypes ==
    ASSUME NEW i, NEW step \in {"receipt", "transaction", "status", "missing", "thrown"},
           NEW a \in Answers(i, step)
    PROVE  /\ a \in Written
           /\ a \in Verdicts => Landed(i) /\ a = Verdict(i)
  BY DEF Answers, Written, Verdicts, Verdict, ByAge

\* The row a look-up writes has a status a look-up may write, a verdict only if
\* that is what was said, and its attempt.
LEMMA ReconciledTypes ==
    ASSUME NEW i, NEW says \in Written, NEW attempt \in 1..MaxAttempts
    PROVE  /\ Reconciled(i, says, attempt) \in Records
           /\ Reconciled(i, says, attempt).status \in Written
           /\ Reconciled(i, says, attempt).status \in Verdicts
                => Reconciled(i, says, attempt).status = says
           /\ says \in Verdicts => Reconciled(i, says, attempt).status = says
  BY LifecycleAssumption DEF Reconciled, Written, Records, RecordStatuses, Terminal, Verdicts

\* A record, of whatever kind, is no null.
LEMMA RecordIsSome == \A x \in Records : x # NoRecord
<1> TAKE x \in Records
<1>1. x \in [status : RecordStatuses, attempts : Nat]
  BY LifecycleAssumption DEF Records
<1> QED BY <1>1, LifecycleAssumption

\* What a job holds.
LEMMA JobTypes ==
    ASSUME TypeOK, NEW w \in Workers, job[w] # Idle
    PROVE  /\ job[w] \in Jobs
           /\ job[w].key \in Intents /\ job[w].attempt \in 1..MaxAttempts
           /\ job[w].step \in {"receipt", "transaction", "status", "missing", "thrown"}
           /\ job[w].says # "nothing" => job[w].says \in Written
  BY DEF TypeOK, Jobs, RecordStatuses, Written

LEMMA FailureTypes ==
    ASSUME NEW j \in Jobs
    PROVE  AfterFailure(j) \in Jobs \cup {Idle}
<1>1. CASE j.step = "thrown"
  BY <1>1 DEF AfterFailure
<1>2. CASE j.step # "thrown"
  <2> DEFINE next == AfterThrow[j.step]
  <2>1. next \in {"transaction", "missing", "thrown"}
    BY <1>2 DEF Jobs, AfterThrow
  <2>2. AfterFailure(j) = [j EXCEPT !.step = next, !.says = "nothing"]
    BY <1>2 DEF AfterFailure
  <2> HIDE DEF next
  <2> QED BY <2>1, <2>2 DEF Jobs
<1> QED BY <1>1, <1>2

LEMMA InitTypes == Init => TypeOK
  BY DEF Init, TypeOK, IntentStatuses

LEMMA WriteTypes ==
    ASSUME TypeOK, NEW w \in Workers, job[w] # Idle, job[w].says # "nothing", Writes(w)
    PROVE  record' \in [Intents -> Records \cup {NoRecord}] /\ intent' \in [Intents -> IntentStatuses]
<1>1. Reconciled(job[w].key, job[w].says, job[w].attempt) \in Records
  BY JobTypes, ReconciledTypes
<1>2. job[w].key \in Intents
  BY JobTypes
<1> QED BY <1>1, <1>2 DEF Writes, TypeOK, Verdicts, IntentStatuses

LEMMA MarkTypes ==
    ASSUME TypeOK, NEW i \in Intents, NEW s \in {"submitted", "unknown"}, Mark(i, s)
    PROVE  record' \in [Intents -> Records \cup {NoRecord}] /\ intent' \in [Intents -> IntentStatuses]
  BY DEF TypeOK, Mark, StillBroadcasting, Is, Exists, Records, RecordStatuses, IntentStatuses

LEMMA NextTypes == TypeOK /\ [Next]_vars => TypeOK'
<1> SUFFICES ASSUME TypeOK, [Next]_vars PROVE TypeOK'
  OBVIOUS
<1> USE LifecycleAssumption
<1>1. ASSUME NEW r \in Requests, NEW i \in Intents, SubmitReads(r, i) PROVE TypeOK'
  BY <1>1 DEF TypeOK, SubmitReads, Requested
<1>2. ASSUME NEW r \in Requests, Claim(r) PROVE TypeOK'
  BY <1>2 DEF TypeOK, Claim, Doing, Becomes, Done, Requested, Records, RecordStatuses,
             IntentStatuses
<1>3. ASSUME NEW r \in Requests, Broadcast(r) PROVE TypeOK'
  BY <1>3 DEF TypeOK, Broadcast, Doing, Becomes, Requested
<1>4. ASSUME NEW r \in Requests, MarkBroadcast(r) PROVE TypeOK'
  <2>1. request[r].key \in Intents
    BY <1>4 DEF TypeOK, MarkBroadcast, Doing, Requested
  <2> QED BY <1>4, <2>1, MarkTypes DEF TypeOK, MarkBroadcast, Doing, Done
<1>5. ASSUME NEW r \in Requests, MarkFails(r) PROVE TypeOK'
  <2>1. request[r].key \in Intents
    BY <1>5 DEF TypeOK, MarkFails, Doing, Requested
  <2>2. record' \in [Intents -> Records \cup {NoRecord}] /\ intent' \in [Intents -> IntentStatuses]
    BY <1>5, <2>1, MarkTypes DEF TypeOK, MarkFails
  <2> QED BY <1>5, <2>2 DEF TypeOK, MarkFails, Doing, Becomes, Requested
<1>6. ASSUME NEW r \in Requests, MarkUnknown(r) PROVE TypeOK'
  <2>1. request[r].key \in Intents
    BY <1>6 DEF TypeOK, MarkUnknown, Doing, Requested
  <2> QED BY <1>6, <2>1, MarkTypes DEF TypeOK, MarkUnknown, Doing, Done
<1>7. ASSUME NEW r \in Requests, RequestEnds(r) PROVE TypeOK'
  BY <1>7 DEF TypeOK, RequestEnds, Done
<1>8. ASSUME NEW w \in Workers, NEW i \in Intents, TakeDue(w, i) PROVE TypeOK'
  <2>1. record[i] \in Records /\ record[i].attempts + 1 \in 1..MaxAttempts
    BY <1>8 DEF TypeOK, TakeDue, MayTry, Exists, Records
  <2>2. PICK step \in {IF Family[i] = "evm" THEN "receipt" ELSE "status", "thrown"} :
           job' = [job EXCEPT ![w] = [key |-> i, attempt |-> record[i].attempts + 1,
                                      step |-> step, says |-> "nothing"]]
    BY <1>8 DEF TakeDue
  <2>3. job' \in [Workers -> Jobs \cup {Idle}]
    BY <2>1, <2>2 DEF TypeOK, Jobs
  <2> QED BY <1>8, <2>3 DEF TypeOK, TakeDue
<1>9. ASSUME NEW w \in Workers, Ask(w) PROVE TypeOK'
  <2>1. PICK a \in Answers(job[w].key, job[w].step) : job' = [job EXCEPT ![w].says = a]
    BY <1>9 DEF Ask
  <2>2. job[w] # Idle
    BY <1>9 DEF Ask, Asks
  <2>3. a \in Written
    BY <2>2, JobTypes, AnswerTypes
  <2>4. job' \in [Workers -> Jobs \cup {Idle}]
    BY <2>1, <2>2, <2>3 DEF TypeOK, Jobs, Written, RecordStatuses
  <2> QED BY <1>9, <2>4 DEF TypeOK, Ask
<1>10. ASSUME NEW w \in Workers, AskInVain(w) PROVE TypeOK'
  BY <1>10 DEF TypeOK, AskInVain, Asks, AfterNone, AfterThrow, Jobs
<1>11. ASSUME NEW w \in Workers, Reconcile(w) PROVE TypeOK'
  BY <1>11, WriteTypes DEF TypeOK, Reconcile
<1>12. ASSUME NEW w \in Workers, ReconcileFails(w) PROVE TypeOK'
  <2>1. record' \in [Intents -> Records \cup {NoRecord}] /\ intent' \in [Intents -> IntentStatuses]
    BY <1>12, WriteTypes DEF TypeOK, ReconcileFails
  <2>2. AfterFailure(job[w]) \in Jobs \cup {Idle}
    BY <1>12, FailureTypes, JobTypes DEF ReconcileFails
  <2> QED BY <1>12, <2>1, <2>2 DEF TypeOK, ReconcileFails
<1>13. ASSUME NEW w \in Workers, WorkerDies(w) PROVE TypeOK'
  BY <1>13 DEF TypeOK, WorkerDies
<1>14. ASSUME NEW i \in Intents, Expires(i) \/ Ages(i) PROVE TypeOK'
  BY <1>14 DEF TypeOK, Expires, Ages
<1>15. ASSUME NEW h \in Hashes, ChainDecides(h) PROVE TypeOK'
  BY <1>15 DEF TypeOK, ChainDecides
<1>16. CASE UNCHANGED vars
  BY <1>16 DEF TypeOK, vars
<1> QED BY <1>1, <1>2, <1>3, <1>4, <1>5, <1>6, <1>7, <1>8, <1>9, <1>10, <1>11, <1>12, <1>13,
           <1>14, <1>15, <1>16 DEF Next

-----------------------------------------------------------------------------
(* The invariant, one lemma for each way the records and intents change. *)

LEMMA InitInv == Init => IInv
  BY InitTypes DEF Init, IInv, OneRecordPerTransaction, VerdictsAreTheChains, Exists, Verdicts,
                   ClaimsFit, Claims, AnswersFit, BroadcastsFit, Is

\* A write of the submission leaves the existing records and their verdicts alone.
LEMMA MarkKeeps ==
    ASSUME IInv, NEW i \in Intents, NEW s \in {"submitted", "unknown"}, Mark(i, s),
           UNCHANGED <<chain, broadcasts>>
    PROVE  /\ OneRecordPerTransaction' /\ VerdictsAreTheChains' /\ BroadcastsFit'
           /\ \A j \in Intents : Exists(j)' <=> Exists(j)
<1> USE DEF IInv
<1>1. CASE ~StillBroadcasting(i)
  BY <1>1 DEF Mark, OneRecordPerTransaction, VerdictsAreTheChains, BroadcastsFit, Exists, Is,
              Landed, Verdict
<1>2. CASE StillBroadcasting(i)
  <2>1. record[i] \in Records /\ intent[i] = "broadcasting"
    BY <1>2 DEF TypeOK, StillBroadcasting, Is, Exists, BroadcastsFit
  <2>2. [record[i] EXCEPT !.status = s] \in Records
    BY <2>1 DEF Records, RecordStatuses
  <2>3. record' = [record EXCEPT ![i] = [record[i] EXCEPT !.status = s]]
        /\ intent' = [intent EXCEPT ![i] = s]
    BY <1>2 DEF Mark
  <2>4. record'[i] # NoRecord /\ record'[i].status = s /\ intent'[i] = s
    BY <2>1, <2>2, <2>3, RecordIsSome DEF TypeOK, Records
  <2>5. \A j \in Intents \ {i} : record'[j] = record[j] /\ intent'[j] = intent[j]
    BY <2>3 DEF TypeOK
  <2>6. \A j \in Intents : Exists(j)' <=> Exists(j)
    BY <1>2, <2>4, <2>5 DEF Exists, StillBroadcasting, Is
  <2>7. OneRecordPerTransaction'
    BY <2>1, <2>4, <2>5, <2>6 DEF OneRecordPerTransaction
  <2>8. VerdictsAreTheChains'
    BY <2>4, <2>5 DEF VerdictsAreTheChains, Exists, Landed, Verdict, Verdicts
  <2>9. BroadcastsFit'
    BY <2>4, <2>5 DEF BroadcastsFit, Is, Exists
  <2> QED BY <2>6, <2>7, <2>8, <2>9
<1> QED BY <1>1, <1>2

\* A look-up writes what it was told, over whatever there was, and what it was
\* told of an end is the chain's.
LEMMA WriteKeeps ==
    ASSUME IInv, NEW w \in Workers, job[w] # Idle, job[w].says # "nothing", Writes(w),
           UNCHANGED <<chain, broadcasts>>
    PROVE  /\ OneRecordPerTransaction' /\ VerdictsAreTheChains' /\ BroadcastsFit'
           /\ \A j \in Intents : Exists(j)' <=> Exists(j)
<1> USE DEF IInv
<1> DEFINE i == job[w].key
           says == job[w].says
           row == Reconciled(i, says, job[w].attempt)
<1>1. i \in Intents /\ says \in Written /\ job[w].attempt \in 1..MaxAttempts
  BY JobTypes
<1>2. Exists(i) /\ (says \in Verdicts => Landed(i) /\ says = Verdict(i))
  BY <1>1 DEF AnswersFit
<1>3. /\ row \in Records /\ row.status \in Written
      /\ row.status \in Verdicts => row.status = says
      /\ says \in Verdicts => row.status = says
  BY <1>1, ReconciledTypes
<1>4. record' = [record EXCEPT ![i] = row]
      /\ intent' = [intent EXCEPT ![i] = IF says \in Verdicts THEN says ELSE intent[i]]
  BY DEF Writes
<1> HIDE DEF i, says, row
<1>5. row # NoRecord
  BY <1>3, RecordIsSome
<1>6. record'[i] = row /\ intent'[i] = IF says \in Verdicts THEN says ELSE intent[i]
  BY <1>1, <1>4 DEF TypeOK
<1>7. \A j \in Intents \ {i} : record'[j] = record[j] /\ intent'[j] = intent[j]
  BY <1>4 DEF TypeOK
<1>8. \A j \in Intents : Exists(j)' <=> Exists(j)
  BY <1>2, <1>5, <1>6, <1>7 DEF Exists
<1>9. OneRecordPerTransaction'
  <2>1. intent[i] # "awaiting" /\ intent'[i] # "awaiting"
    BY <1>1, <1>2, <1>6 DEF OneRecordPerTransaction, Verdicts
  <2>2. \A j \in Intents : intent'[j] # "awaiting" <=> intent[j] # "awaiting"
    BY <1>7, <2>1
  <2> QED BY <1>8, <2>2 DEF OneRecordPerTransaction
<1>10. VerdictsAreTheChains'
  <2>1. ASSUME NEW j \in Intents
        PROVE  /\ intent'[j] \in Verdicts => Landed(j) /\ intent'[j] = Verdict(j)
               /\ record'[j] # NoRecord /\ record'[j].status \in Verdicts
                    => record'[j].status = intent'[j]
    <3>1. CASE j = i
      BY <1>1, <1>2, <1>3, <1>6, <3>1 DEF VerdictsAreTheChains
    <3>2. CASE j # i
      BY <1>7, <3>2, <2>1 DEF VerdictsAreTheChains, Exists
    <3> QED BY <3>1, <3>2
  <2> QED BY <2>1 DEF VerdictsAreTheChains, Exists, Landed, Verdict
<1>11. BroadcastsFit'
  <2>1. row.status # "broadcasting"
    BY <1>3 DEF Written
  <2> QED BY <1>6, <1>7, <2>1 DEF BroadcastsFit, Is, Exists
<1> QED BY <1>8, <1>9, <1>10, <1>11

LEMMA NothingWritten ==
    ASSUME IInv, UNCHANGED <<intent, record, chain, broadcasts>>
    PROVE  /\ OneRecordPerTransaction' /\ VerdictsAreTheChains' /\ BroadcastsFit'
           /\ \A j \in Intents : Exists(j)' <=> Exists(j)
  BY DEF IInv, OneRecordPerTransaction, VerdictsAreTheChains, BroadcastsFit, Exists, Is, Landed,
         Verdict

\* Where no request gets further than before, the claims fit as before.
LEMMA ClaimsCarry ==
    ASSUME IInv, \A j \in Intents : Exists(j)' <=> Exists(j), UNCHANGED broadcasts,
           \A q \in Requests :
              request'[q] # Idle /\ request'[q].at # "verified" =>
                 /\ request[q] # Idle /\ request[q].at # "verified"
                 /\ request'[q].key = request[q].key
                 /\ request'[q].at = "claimed" => request[q].at = "claimed"
    PROVE  ClaimsFit'
  BY DEF IInv, ClaimsFit, Claims

\* Where no worker is told anything new, the answers fit as before.
LEMMA AnswersCarry ==
    ASSUME IInv, \A j \in Intents : Exists(j)' <=> Exists(j), UNCHANGED chain,
           \A v \in Workers :
              job'[v] # Idle => /\ job[v] # Idle /\ job'[v].key = job[v].key
                                /\ job'[v].says \in Verdicts => job'[v].says = job[v].says
    PROVE  AnswersFit'
  BY DEF IInv, AnswersFit, Landed, Verdict

LEMMA ClaimInv == ASSUME IInv, NEW r \in Requests, Claim(r) PROVE IInv'
<1> USE DEF IInv
<1> DEFINE i == request[r].key
<1>1. TypeOK'
  BY NextTypes DEF Next
<1>2. i \in Intents /\ request[r] \in Requested
  BY DEF TypeOK, Claim, Doing, Requested
<1>3. UNCHANGED <<chain, broadcasts, job>>
  BY DEF Claim
<1>4. CASE intent[i] = "awaiting" /\ ~expired[i] /\ HashIsFree(i)
  <2> DEFINE row == [status |-> "broadcasting", attempts |-> 0]
  <2>1. /\ intent' = [intent EXCEPT ![i] = "broadcasting"] /\ record' = [record EXCEPT ![i] = row]
        /\ request' = [request EXCEPT ![r].at = "claimed"]
    BY <1>4 DEF Claim, Becomes
  <2>2. row # NoRecord /\ row.status = "broadcasting"
    BY LifecycleAssumption DEF RecordStatuses
  <2> HIDE DEF row, i
  <2>3. record'[i] = row /\ intent'[i] = "broadcasting"
    BY <1>2, <2>1 DEF TypeOK
  <2>4. \A j \in Intents \ {i} : record'[j] = record[j] /\ intent'[j] = intent[j]
    BY <2>1 DEF TypeOK
  <2>5. ~Exists(i) /\ \A j \in Intents : Exists(j) => HashOf[j] # HashOf[i]
    BY <1>2, <1>4 DEF OneRecordPerTransaction, HashIsFree
  <2>6. \A j \in Intents : Exists(j)' <=> Exists(j) \/ j = i
    BY <2>2, <2>3, <2>4 DEF Exists
  <2>7. OneRecordPerTransaction'
    BY <2>3, <2>4, <2>5, <2>6 DEF OneRecordPerTransaction
  <2>8. VerdictsAreTheChains'
    BY <1>3, <2>2, <2>3, <2>4 DEF VerdictsAreTheChains, Verdicts, Exists, Landed, Verdict
  <2>9. BroadcastsFit'
    BY <1>3, <2>2, <2>3, <2>4 DEF BroadcastsFit, Is, Exists
  <2>10. ClaimsFit'
    <3>1. request[r].at = "verified" /\ request'[r].at = "claimed" /\ request'[r].key = i
      BY <1>2, <2>1 DEF Claim, Doing, TypeOK, Requested, i
    <3>2. \A q \in Requests \ {r} : request'[q] = request[q]
      BY <2>1 DEF TypeOK
    <3>3. \A j \in Intents : Claims(r, j)' => j = i
      BY <3>1 DEF Claims
    <3>4. \A q \in Requests \ {r}, j \in Intents : Claims(q, j)' => Claims(q, j) /\ j # i
      BY <2>5, <3>2 DEF Claims, ClaimsFit
    <3>5. broadcasts[i] = 0
      BY <1>2, <2>5 DEF ClaimsFit, TypeOK
    <3>6. ASSUME NEW j \in Intents
          PROVE  /\ broadcasts'[j] <= 1 /\ (broadcasts'[j] # 0 => Exists(j)')
                 /\ \A q \in Requests : Claims(q, j)' => Exists(j)'
      BY <1>3, <2>6, <3>3, <3>4 DEF ClaimsFit
    <3>7. ASSUME NEW j \in Intents, NEW q \in Requests, Claims(q, j)', request'[q].at = "claimed"
          PROVE  broadcasts'[j] = 0 /\ \A p \in Requests : Claims(p, j)' => p = q
      <4>1. CASE q = r
        BY <1>3, <3>3, <3>4, <3>5, <3>7, <4>1
      <4>2. CASE q # r
        BY <1>3, <3>2, <3>3, <3>4, <3>7, <4>2 DEF ClaimsFit
      <4> QED BY <4>1, <4>2
    <3> QED BY <3>6, <3>7 DEF ClaimsFit
  <2>11. AnswersFit'
    BY <1>3, <2>6 DEF AnswersFit, Landed, Verdict
  <2> QED BY <1>1, <2>7, <2>8, <2>9, <2>10, <2>11
<1>5. CASE ~(intent[i] = "awaiting" /\ ~expired[i] /\ HashIsFree(i))
  <2>1. UNCHANGED <<intent, record, chain, broadcasts, job>> /\ Done(r)
    BY <1>3, <1>5 DEF Claim
  <2>2. ClaimsFit'
    BY <2>1, NothingWritten, ClaimsCarry DEF Done, TypeOK
  <2>3. AnswersFit'
    BY <2>1, NothingWritten, AnswersCarry
  <2> QED BY <1>1, <2>1, <2>2, <2>3, NothingWritten
<1> QED BY <1>4, <1>5

LEMMA BroadcastInv == ASSUME IInv, NEW r \in Requests, Broadcast(r) PROVE IInv'
<1> USE DEF IInv
<1> DEFINE i == request[r].key
           h == HashOf[i]
<1>1. TypeOK'
  BY NextTypes DEF Next
<1>2. i \in Intents /\ h \in Hashes /\ Claims(r, i) /\ request[r].at = "claimed"
  BY LifecycleAssumption DEF TypeOK, Broadcast, Doing, Requested, Claims
<1>3. /\ UNCHANGED <<intent, record, job>>
      /\ broadcasts' = [broadcasts EXCEPT ![i] = broadcasts[i] + 1]
      /\ chain' = [chain EXCEPT ![h] = IF chain[h] = "absent" THEN "pending" ELSE chain[h]]
         \/ chain' = chain
      /\ \E at \in {"accepted", "uncertain"} : request' = [request EXCEPT ![r].at = at]
  BY DEF Broadcast, Becomes
<1> HIDE DEF i, h
<1>4. broadcasts[i] = 0 /\ \A q \in Requests : Claims(q, i) => q = r
  BY <1>2 DEF ClaimsFit
<1>5. Exists(i) /\ \A j \in Intents : Exists(j)' <=> Exists(j)
  BY <1>2, <1>3 DEF Exists, ClaimsFit
<1>6. broadcasts'[i] = 1 /\ \A j \in Intents \ {i} : broadcasts'[j] = broadcasts[j]
  BY <1>2, <1>3, <1>4 DEF TypeOK
<1>7. \A g \in Hashes : \/ chain'[g] = chain[g]
                        \/ g = h /\ chain[g] = "absent" /\ chain'[g] = "pending"
  BY <1>2, <1>3 DEF TypeOK
<1>8. \A j \in Intents : (Landed(j)' <=> Landed(j)) /\ (Landed(j) => Verdict(j)' = Verdict(j))
  <2> SUFFICES ASSUME NEW j \in Intents
               PROVE  (Landed(j)' <=> Landed(j)) /\ (Landed(j) => Verdict(j)' = Verdict(j))
    OBVIOUS
  <2>1. HashOf[j] \in Hashes
    BY LifecycleAssumption
  <2> QED BY <1>7, <2>1 DEF Landed, Verdict
<1>9. OneRecordPerTransaction'
  BY <1>3, <1>5 DEF OneRecordPerTransaction
<1>10. VerdictsAreTheChains'
  BY <1>3, <1>5, <1>8 DEF VerdictsAreTheChains
<1>11. AnswersFit'
  BY <1>3, <1>5, <1>8 DEF AnswersFit
<1>12. BroadcastsFit'
  <2>1. ASSUME NEW g \in Hashes, chain'[g] # "absent"
        PROVE  \E j \in Intents : HashOf[j] = g /\ broadcasts'[j] = 1
    <3>1. CASE g = h
      BY <1>2, <1>6, <3>1 DEF h
    <3>2. CASE g # h
      <4>1. PICK j \in Intents : HashOf[j] = g /\ broadcasts[j] = 1
        BY <1>7, <2>1, <3>2 DEF BroadcastsFit
      <4> QED BY <1>4, <1>6, <4>1
    <3> QED BY <3>1, <3>2
  <2> QED BY <1>3, <2>1 DEF BroadcastsFit, Is, Exists
<1>13. ClaimsFit'
  <2>1. /\ request'[r].at # "claimed"
        /\ \A q \in Requests \ {r} : request'[q] = request[q]
        /\ \A j \in Intents : Claims(r, j)' => j = i
    BY <1>2, <1>3 DEF TypeOK, Requested, Claims
  <2>2. \A q \in Requests, j \in Intents : Claims(q, j)' => Claims(q, j)
    BY <1>2, <2>1 DEF Claims
  <2>3. \A q \in Requests, j \in Intents :
           Claims(q, j)' /\ request'[q].at = "claimed" => request[q].at = "claimed" /\ j # i
    BY <1>4, <2>1, <2>2
  <2> QED BY <1>4, <1>5, <1>6, <2>2, <2>3 DEF ClaimsFit
<1> QED BY <1>1, <1>9, <1>10, <1>11, <1>12, <1>13

LEMMA NextInv == IInv /\ [Next]_vars => IInv'
<1> SUFFICES ASSUME IInv, [Next]_vars PROVE IInv'
  OBVIOUS
<1>t. TypeOK /\ TypeOK'
  BY NextTypes DEF IInv
<1>1. ASSUME NEW r \in Requests, NEW i \in Intents, SubmitReads(r, i) PROVE IInv'
  <2>1. ClaimsFit'
    BY <1>t, <1>1, NothingWritten, ClaimsCarry DEF SubmitReads, TypeOK
  <2>2. AnswersFit'
    BY <1>1, NothingWritten, AnswersCarry DEF SubmitReads
  <2> QED BY <1>t, <1>1, <2>1, <2>2, NothingWritten DEF SubmitReads, IInv
<1>2. ASSUME NEW r \in Requests, Claim(r) PROVE IInv'
  BY <1>2, ClaimInv
<1>3. ASSUME NEW r \in Requests, Broadcast(r) PROVE IInv'
  BY <1>3, BroadcastInv
<1>4. ASSUME NEW r \in Requests, MarkBroadcast(r) \/ MarkFails(r) \/ MarkUnknown(r) PROVE IInv'
  <2>1. request[r] \in Requested /\ request[r].at # "verified" /\ request[r].key \in Intents
    BY <1>t, <1>4 DEF MarkBroadcast, MarkFails, MarkUnknown, Doing, TypeOK, Requested
  <2>2. UNCHANGED <<chain, broadcasts, job>>
    BY <1>4 DEF MarkBroadcast, MarkFails, MarkUnknown
  <2>3. Mark(request[r].key, "submitted") \/ Mark(request[r].key, "unknown")
        \/ UNCHANGED <<record, intent>>
    BY <1>4 DEF MarkBroadcast, MarkFails, MarkUnknown
  <2>4. /\ OneRecordPerTransaction' /\ VerdictsAreTheChains' /\ BroadcastsFit'
        /\ \A j \in Intents : Exists(j)' <=> Exists(j)
    BY <2>1, <2>2, <2>3, MarkKeeps, NothingWritten
  <2>5. Done(r) \/ Becomes(r, "uncertain")
    BY <1>4 DEF MarkBroadcast, MarkFails, MarkUnknown
  <2>6. \A q \in Requests :
           request'[q] # Idle => \/ request'[q] = request[q]
                                 \/ /\ q = r /\ request[q] # Idle /\ request[q].at # "verified"
                                    /\ request'[q].key = request[q].key
                                    /\ request'[q].at = "uncertain"
    BY <1>t, <1>4, <2>1, <2>5
       DEF Done, Becomes, TypeOK, Requested, MarkBroadcast, MarkFails, MarkUnknown, Doing
  <2>7. ClaimsFit'
    BY <2>2, <2>4, <2>6, ClaimsCarry
  <2>8. AnswersFit'
    BY <2>2, <2>4, AnswersCarry
  <2> QED BY <1>t, <2>4, <2>7, <2>8 DEF IInv
<1>5. ASSUME NEW r \in Requests, RequestEnds(r) PROVE IInv'
  <2>1. ClaimsFit'
    BY <1>t, <1>5, NothingWritten, ClaimsCarry DEF RequestEnds, Done, TypeOK
  <2>2. AnswersFit'
    BY <1>5, NothingWritten, AnswersCarry DEF RequestEnds
  <2> QED BY <1>t, <1>5, <2>1, <2>2, NothingWritten DEF RequestEnds, IInv
<1>6. ASSUME NEW w \in Workers, NEW i \in Intents, TakeDue(w, i) PROVE IInv'
  <2>1. ClaimsFit'
    BY <1>6, NothingWritten, ClaimsCarry DEF TakeDue
  <2>2. job'[w].key = i /\ job'[w].says = "nothing" /\ \A v \in Workers \ {w} : job'[v] = job[v]
    BY <1>t, <1>6 DEF TakeDue, TypeOK
  <2>3. AnswersFit'
    BY <1>6, <2>2 DEF TakeDue, MayTry, IInv, AnswersFit, Exists, Landed, Verdict, Verdicts
  <2> QED BY <1>t, <1>6, <2>1, <2>3, NothingWritten DEF TakeDue, IInv
<1>7. ASSUME NEW w \in Workers, Ask(w) PROVE IInv'
  <2>1. ClaimsFit'
    BY <1>7, NothingWritten, ClaimsCarry DEF Ask
  <2>2. PICK a \in Answers(job[w].key, job[w].step) : job' = [job EXCEPT ![w].says = a]
    BY <1>7 DEF Ask
  <2>3. job[w] # Idle /\ job[w] \in Jobs /\ job[w].key \in Intents
    BY <1>t, <1>7, JobTypes DEF Ask, Asks
  <2>4. a \in Verdicts => Landed(job[w].key) /\ a = Verdict(job[w].key)
    BY <1>t, <2>3, JobTypes, AnswerTypes
  <2>5. /\ job'[w].key = job[w].key /\ job'[w].says = a
        /\ \A v \in Workers \ {w} : job'[v] = job[v]
    BY <1>t, <2>2, <2>3 DEF TypeOK, Jobs
  <2>6. ASSUME NEW v \in Workers, NEW i \in Intents, job'[v] # Idle, job'[v].key = i
        PROVE  Exists(i) /\ (job'[v].says \in Verdicts => Landed(i) /\ job'[v].says = Verdict(i))
    <3>1. CASE v = w
      BY <2>3, <2>4, <2>5, <2>6, <3>1 DEF IInv, AnswersFit
    <3>2. CASE v # w
      BY <2>5, <2>6, <3>2 DEF IInv, AnswersFit
    <3> QED BY <3>1, <3>2
  <2>7. AnswersFit'
    BY <1>7, <2>6 DEF Ask, AnswersFit, Exists, Landed, Verdict
  <2> QED BY <1>t, <1>7, <2>1, <2>7, NothingWritten DEF Ask, IInv
<1>8. ASSUME NEW w \in Workers, AskInVain(w) PROVE IInv'
  <2>1. ClaimsFit'
    BY <1>8, NothingWritten, ClaimsCarry DEF AskInVain
  <2>2. PICK next : job' = [job EXCEPT ![w].step = next]
    BY <1>8 DEF AskInVain
  <2>3. job[w] # Idle /\ job[w] \in Jobs
    BY <1>t, <1>8, JobTypes DEF AskInVain, Asks
  <2>4. AnswersFit'
    BY <1>t, <1>8, <2>2, <2>3, NothingWritten, AnswersCarry DEF AskInVain, TypeOK, Jobs
  <2> QED BY <1>t, <1>8, <2>1, <2>4, NothingWritten DEF AskInVain, IInv
<1>9. ASSUME NEW w \in Workers, Reconcile(w) \/ ReconcileFails(w) PROVE IInv'
  <2>1. /\ job[w] # Idle /\ job[w].says # "nothing" /\ job[w] \in Jobs
        /\ Writes(w) \/ UNCHANGED <<record, intent>>
        /\ UNCHANGED <<request, chain, broadcasts>>
    BY <1>t, <1>9, JobTypes DEF Reconcile, ReconcileFails
  <2>2. /\ OneRecordPerTransaction' /\ VerdictsAreTheChains' /\ BroadcastsFit'
        /\ \A j \in Intents : Exists(j)' <=> Exists(j)
    BY <2>1, WriteKeeps, NothingWritten
  <2>3. ClaimsFit'
    BY <2>1, <2>2, ClaimsCarry
  <2>4. AfterFailure(job[w]) = Idle \/ /\ AfterFailure(job[w]).key = job[w].key
                                       /\ AfterFailure(job[w]).says = "nothing"
    BY <2>1 DEF AfterFailure, Jobs
  <2>5. \A v \in Workers :
           job'[v] # Idle => \/ job'[v] = job[v]
                             \/ v = w /\ job'[v].key = job[v].key /\ job'[v].says = "nothing"
    BY <1>t, <1>9, <2>4 DEF Reconcile, ReconcileFails, TypeOK
  <2>6. AnswersFit'
    BY <2>1, <2>2, <2>5, AnswersCarry DEF Verdicts
  <2> QED BY <1>t, <2>2, <2>3, <2>6 DEF IInv
<1>10. ASSUME NEW w \in Workers, WorkerDies(w) PROVE IInv'
  <2>1. ClaimsFit'
    BY <1>10, NothingWritten, ClaimsCarry DEF WorkerDies
  <2>2. AnswersFit'
    BY <1>t, <1>10, NothingWritten, AnswersCarry DEF WorkerDies, TypeOK
  <2> QED BY <1>t, <1>10, <2>1, <2>2, NothingWritten DEF WorkerDies, IInv
<1>11. ASSUME NEW i \in Intents, Expires(i) \/ Ages(i) PROVE IInv'
  <2>1. ClaimsFit'
    BY <1>11, NothingWritten, ClaimsCarry DEF Expires, Ages
  <2>2. AnswersFit'
    BY <1>11, NothingWritten, AnswersCarry DEF Expires, Ages
  <2> QED BY <1>t, <1>11, <2>1, <2>2, NothingWritten DEF Expires, Ages, IInv
<1>12. ASSUME NEW h \in Hashes, ChainDecides(h) PROVE IInv'
  <2>1. UNCHANGED <<intent, record, request, job, broadcasts>>
    BY <1>12 DEF ChainDecides
  <2>2. chain[h] = "pending" /\ \A g \in Hashes \ {h} : chain'[g] = chain[g]
    BY <1>t, <1>12 DEF ChainDecides, TypeOK
  <2>3. ASSUME NEW j \in Intents, Landed(j) PROVE Landed(j)' /\ Verdict(j)' = Verdict(j)
    <3>1. HashOf[j] \in Hashes \ {h}
      BY <2>2, <2>3, LifecycleAssumption DEF Landed
    <3> QED BY <2>2, <2>3, <3>1 DEF Landed, Verdict
  <2>4. OneRecordPerTransaction' /\ ClaimsFit'
    BY <2>1 DEF IInv, OneRecordPerTransaction, ClaimsFit, Claims, Exists
  <2>5. VerdictsAreTheChains' /\ AnswersFit'
    BY <2>1, <2>3 DEF IInv, VerdictsAreTheChains, AnswersFit, Exists
  <2>6. BroadcastsFit'
    BY <2>1, <2>2 DEF IInv, BroadcastsFit, Is, Exists
  <2> QED BY <1>t, <2>4, <2>5, <2>6 DEF IInv
<1>13. CASE UNCHANGED vars
  BY <1>t, <1>13 DEF IInv, vars, OneRecordPerTransaction, VerdictsAreTheChains, ClaimsFit, Claims,
                     AnswersFit, BroadcastsFit, Exists, Is, Landed, Verdict
<1> QED BY <1>1, <1>2, <1>3, <1>4, <1>5, <1>6, <1>7, <1>8, <1>9, <1>10, <1>11, <1>12, <1>13
        DEF Next

-----------------------------------------------------------------------------
(* The theorems. *)

\* The invariant holds of every behaviour of submission and reconciliation.
THEOREM Invariant == Spec => []IInv
  BY InitInv, NextInv, PTL DEF Spec

\* Submission and reconciliation keep every record, request and look-up well
\* formed; in particular no look-up is past the last attempt.
THEOREM TypeCorrect == Spec => []TypeOK
<1>1. IInv => TypeOK
  BY DEF IInv
<1> QED BY <1>1, Invariant, PTL

\* A transaction goes to the network once, for however many requests and
\* intents that carry it (claim).
THEOREM SentOnceHolds == Spec => []SentOnce
<1>1. IInv => SentOnce
  BY DEF IInv, TypeOK, ClaimsFit, OneRecordPerTransaction, SentOnce
<1> QED BY <1>1, Invariant, PTL

\* A verdict is the chain's, for however many workers write late (one, reconcile).
THEOREM VerdictsHold == Spec => []VerdictsAreTheChains
<1>1. IInv => VerdictsAreTheChains
  BY DEF IInv
<1> QED BY <1>1, Invariant, PTL

\* An intent has a record exactly when it has been submitted, and no other has
\* the same transaction (claim).
THEOREM OneRecordHolds == Spec => []OneRecordPerTransaction
<1>1. IInv => OneRecordPerTransaction
  BY DEF IInv
<1> QED BY <1>1, Invariant, PTL

\* What a step of the code may do to the intents: nothing to one that has its
\* verdict, and to the others what TransferPromise lets happen.
LEMMA IntentSteps ==
    ASSUME IInv, [Next]_vars, NEW i \in Intents
    PROVE  \/ intent'[i] = intent[i]
           \/ intent[i] = "awaiting" /\ intent'[i] = "broadcasting"
           \/ intent[i] = "broadcasting" /\ intent'[i] \in {"submitted", "unknown"}
           \/ intent[i] # "awaiting" /\ intent'[i] \in Verdicts /\ Landed(i) /\ intent'[i] = Verdict(i)
<1>t. TypeOK
  BY DEF IInv
<1>1. ASSUME NEW j \in Intents, NEW s \in {"submitted", "unknown"}, Mark(j, s)
      PROVE  \/ intent'[i] = intent[i]
             \/ intent[i] = "broadcasting" /\ intent'[i] \in {"submitted", "unknown"}
  <2>1. StillBroadcasting(j) => intent[j] = "broadcasting"
    BY DEF IInv, BroadcastsFit, StillBroadcasting
  <2> QED BY <1>t, <1>1, <2>1 DEF Mark, TypeOK
<1>2. ASSUME NEW w \in Workers, job[w] # Idle, job[w].says # "nothing", Writes(w)
      PROVE  \/ intent'[i] = intent[i]
             \/ intent[i] # "awaiting" /\ intent'[i] \in Verdicts /\ Landed(i) /\ intent'[i] = Verdict(i)
  <2>1. job[w].key \in Intents
    BY <1>t, <1>2, JobTypes
  <2>2. Exists(job[w].key)
        /\ (job[w].says \in Verdicts => Landed(job[w].key) /\ job[w].says = Verdict(job[w].key))
    BY <1>2, <2>1 DEF IInv, AnswersFit
  <2>3. intent[job[w].key] # "awaiting"
    BY <2>1, <2>2 DEF IInv, OneRecordPerTransaction
  <2> QED BY <1>t, <1>2, <2>1, <2>2, <2>3 DEF Writes, TypeOK
<1>3. ASSUME NEW r \in Requests, Claim(r)
      PROVE  \/ intent'[i] = intent[i]
             \/ intent[i] = "awaiting" /\ intent'[i] = "broadcasting"
  BY <1>t, <1>3 DEF Claim, TypeOK
<1>4. ASSUME NEW r \in Requests, MarkBroadcast(r) \/ MarkFails(r) \/ MarkUnknown(r)
      PROVE  \/ intent'[i] = intent[i]
             \/ intent[i] = "broadcasting" /\ intent'[i] \in {"submitted", "unknown"}
  <2>1. request[r].key \in Intents
    BY <1>t, <1>4 DEF MarkBroadcast, MarkFails, MarkUnknown, Doing, TypeOK, Requested
  <2> QED BY <1>1, <1>4, <2>1 DEF MarkBroadcast, MarkFails, MarkUnknown
<1>5. ASSUME NEW w \in Workers, Reconcile(w) \/ ReconcileFails(w)
      PROVE  \/ intent'[i] = intent[i]
             \/ intent[i] # "awaiting" /\ intent'[i] \in Verdicts /\ Landed(i) /\ intent'[i] = Verdict(i)
  BY <1>2, <1>5 DEF Reconcile, ReconcileFails
<1>6. CASE UNCHANGED vars
  BY <1>6 DEF vars
<1> QED BY <1>3, <1>4, <1>5, <1>6
        DEF Next, SubmitReads, Broadcast, RequestEnds, TakeDue, Ask, AskInVain, WorkerDies,
            Expires, Ages, ChainDecides

\* An intent keeps its verdict, whatever is written over its record (markBroadcast,
\* reconcile).
THEOREM VerdictsAreFinal == Spec => IntentVerdictIsFinal
<1>1. IInv /\ [Next]_vars => [\A i \in Intents : intent[i] \in Verdicts => intent'[i] = intent[i]]_vars
  BY IntentSteps DEF IInv, VerdictsAreTheChains, Verdicts
<1> QED BY <1>1, Invariant, PTL DEF Spec, IntentVerdictIsFinal

-----------------------------------------------------------------------------
(* The promise is kept.  PhaseOf and VerdictOf are the mapping of Promise. *)

PhaseOf(i) == IF intent[i] = "awaiting" THEN "open"
              ELSE IF intent[i] \in Verdicts THEN intent[i] ELSE "out"
VerdictOf(i) == IF Exists(i) /\ Landed(i) THEN chain[HashOf[i]] ELSE "none"

LEMMA PromiseStutters ==
    ASSUME UNCHANGED broadcasts,
           \A i \in Intents : PhaseOf(i)' = PhaseOf(i) /\ VerdictOf(i)' = VerdictOf(i)
    PROVE  UNCHANGED Promise!vars
<1>1. [i \in Intents |-> PhaseOf(i)]' = [i \in Intents |-> PhaseOf(i)]
  OBVIOUS
<1>2. [i \in Intents |-> VerdictOf(i)]' = [i \in Intents |-> VerdictOf(i)]
  OBVIOUS
<1> QED BY <1>1, <1>2 DEF Promise!vars, PhaseOf, VerdictOf

\* A transaction on its chain was broadcast, by the one intent that has it.
LEMMA OnChain ==
    ASSUME IInv, NEW i \in Intents, Exists(i), chain[HashOf[i]] # "absent"
    PROVE  broadcasts[i] = 1
<1>1. PICK j \in Intents : HashOf[j] = HashOf[i] /\ broadcasts[j] = 1
  BY LifecycleAssumption DEF IInv, BroadcastsFit
<1>2. Exists(j)
  BY <1>1 DEF IInv, ClaimsFit
<1> QED BY <1>1, <1>2 DEF IInv, OneRecordPerTransaction

LEMMA ClaimKeeps ==
    ASSUME IInv, NEW r \in Requests, Claim(r)
    PROVE  \/ \E i \in Intents : Promise!Commit(i)
           \/ UNCHANGED <<intent, record, chain, broadcasts>>
<1>t. TypeOK
  BY DEF IInv
<1>1. PICK i \in Intents : i = request[r].key
  BY <1>t DEF TypeOK, Claim, Doing, Requested
<1>2. CASE intent[i] = "awaiting" /\ ~expired[i] /\ HashIsFree(i)
  <2> DEFINE row == [status |-> "broadcasting", attempts |-> 0]
  <2>1. /\ intent' = [intent EXCEPT ![i] = "broadcasting"] /\ record' = [record EXCEPT ![i] = row]
        /\ UNCHANGED <<chain, broadcasts>>
    BY <1>1, <1>2 DEF Claim
  <2> HIDE DEF row
  <2>2. chain[HashOf[i]] = "absent"
    <3>1. SUFFICES ASSUME chain[HashOf[i]] # "absent" PROVE FALSE
      OBVIOUS
    <3>2. PICK j \in Intents : HashOf[j] = HashOf[i] /\ broadcasts[j] = 1
      BY <1>1, <3>1, LifecycleAssumption DEF IInv, BroadcastsFit
    <3>3. Exists(j)
      BY <3>2 DEF IInv, ClaimsFit
    <3> QED BY <1>2, <3>2, <3>3 DEF HashIsFree
  <2>3. \A j \in Intents : VerdictOf(j)' = VerdictOf(j)
    <3>1. ASSUME NEW j \in Intents PROVE VerdictOf(j)' = VerdictOf(j)
      <4>1. CASE j = i
        BY <2>1, <2>2, <4>1 DEF VerdictOf, Landed
      <4>2. CASE j # i
        BY <1>t, <1>1, <2>1, <4>2 DEF VerdictOf, Exists, Landed, TypeOK
      <4> QED BY <4>1, <4>2
    <3> QED BY <3>1
  <2>4. PhaseOf(i) = "open" /\ \A j \in Intents : PhaseOf(j)' = IF j = i THEN "out" ELSE PhaseOf(j)
    BY <1>t, <1>1, <1>2, <2>1 DEF PhaseOf, TypeOK, Verdicts
  <2>5. [j \in Intents |-> PhaseOf(j)]' = [[j \in Intents |-> PhaseOf(j)] EXCEPT ![i] = "out"]
    BY <1>1, <2>4
  <2>6. [j \in Intents |-> VerdictOf(j)]' = [j \in Intents |-> VerdictOf(j)]
    BY <2>3
  <2>7. [j \in Intents |-> PhaseOf(j)][i] = "open"
    BY <1>1, <2>4
  <2> QED BY <2>1, <2>5, <2>6, <2>7 DEF Promise!Commit, PhaseOf, VerdictOf
<1>3. CASE ~(intent[i] = "awaiting" /\ ~expired[i] /\ HashIsFree(i))
  BY <1>1, <1>3 DEF Claim
<1> QED BY <1>2, <1>3

LEMMA BroadcastKeeps ==
    ASSUME IInv, NEW r \in Requests, Broadcast(r)
    PROVE  \E i \in Intents : Promise!Send(i)
<1>t. TypeOK
  BY DEF IInv
<1>1. PICK i \in Intents : i = request[r].key /\ Claims(r, i) /\ request[r].at = "claimed"
  BY <1>t DEF TypeOK, Broadcast, Doing, Requested, Claims
<1>2. broadcasts[i] = 0 /\ Exists(i)
  BY <1>1 DEF IInv, ClaimsFit
<1>3. /\ UNCHANGED <<intent, record>> /\ broadcasts' = [broadcasts EXCEPT ![i] = 1]
      /\ \/ chain' = [chain EXCEPT ![HashOf[i]] =
                         IF chain[HashOf[i]] = "absent" THEN "pending" ELSE chain[HashOf[i]]]
         \/ chain' = chain
  BY <1>1, <1>2 DEF Broadcast
<1>4. chain[HashOf[i]] = "absent"
  BY <1>1, <1>2, OnChain
<1>5. \A j \in Intents : VerdictOf(j)' = VerdictOf(j)
  <2>1. ASSUME NEW j \in Intents PROVE VerdictOf(j)' = VerdictOf(j)
    <3>1. HashOf[j] \in Hashes
      BY LifecycleAssumption
    <3>2. CASE HashOf[j] = HashOf[i]
      <4>1. chain[HashOf[j]] = "absent" /\ chain'[HashOf[j]] \in {"absent", "pending"}
        BY <1>t, <1>3, <1>4, <3>1, <3>2 DEF TypeOK
      <4> QED BY <4>1 DEF VerdictOf, Landed
    <3>3. CASE HashOf[j] # HashOf[i]
      <4>1. chain'[HashOf[j]] = chain[HashOf[j]]
        BY <1>t, <1>3, <3>1, <3>3 DEF TypeOK
      <4> QED BY <1>3, <4>1 DEF VerdictOf, Landed, Exists
    <3> QED BY <3>2, <3>3
  <2> QED BY <2>1
<1>6. PhaseOf(i) = "out"
  BY <1>1, <1>2, <1>4 DEF PhaseOf, IInv, OneRecordPerTransaction, VerdictsAreTheChains, Landed
<1>7. \A j \in Intents : PhaseOf(j)' = PhaseOf(j)
  BY <1>3 DEF PhaseOf
<1>8. /\ [j \in Intents |-> VerdictOf(j)]' = [j \in Intents |-> VerdictOf(j)]
      /\ [j \in Intents |-> PhaseOf(j)]' = [j \in Intents |-> PhaseOf(j)]
      /\ [j \in Intents |-> PhaseOf(j)][i] = "out"
  BY <1>1, <1>5, <1>6, <1>7
<1> QED BY <1>2, <1>3, <1>8 DEF Promise!Send, PhaseOf, VerdictOf

\* A write of a look-up concludes its intent or is a stutter of the promise.
LEMMA WriteConcludes ==
    ASSUME IInv, NEW w \in Workers, job[w] # Idle, job[w].says # "nothing", Writes(w),
           UNCHANGED <<chain, broadcasts>>
    PROVE  (\E i \in Intents : Promise!Conclude(i)) \/ UNCHANGED Promise!vars
<1> DEFINE says == job[w].says
<1>t. TypeOK
  BY DEF IInv
<1>1. PICK i \in Intents : i = job[w].key
  BY <1>t, JobTypes
<1>2. Exists(i) /\ intent[i] # "awaiting"
      /\ (says \in Verdicts => Landed(i) /\ says = Verdict(i))
  BY <1>1 DEF IInv, AnswersFit, OneRecordPerTransaction
<1>3. \A j \in Intents : VerdictOf(j)' = VerdictOf(j)
  BY WriteKeeps DEF VerdictOf, Landed
<1>4. intent' = [intent EXCEPT ![i] = IF says \in Verdicts THEN says ELSE intent[i]]
  BY <1>1 DEF Writes
<1> HIDE DEF says
<1>5. CASE says \in Verdicts /\ intent[i] \notin Verdicts
  <2>1. PhaseOf(i) = "out" /\ \A j \in Intents : PhaseOf(j)' = IF j = i THEN says ELSE PhaseOf(j)
    BY <1>t, <1>1, <1>2, <1>4, <1>5 DEF PhaseOf, TypeOK, Verdicts
  <2>2. [j \in Intents |-> PhaseOf(j)]' = [[j \in Intents |-> PhaseOf(j)] EXCEPT ![i] = says]
    BY <1>1, <2>1
  <2>3. /\ [j \in Intents |-> VerdictOf(j)]' = [j \in Intents |-> VerdictOf(j)]
        /\ [j \in Intents |-> PhaseOf(j)][i] = "out"
    BY <1>1, <1>3, <2>1
  <2>4. \/ VerdictOf(i) = "success" /\ says = "confirmed"
        \/ VerdictOf(i) = "reverted" /\ says = "failed"
    BY <1>2, <1>5 DEF VerdictOf, Landed, Verdict
  <2>5. \/ [j \in Intents |-> VerdictOf(j)][i] = "success" /\ says = "confirmed"
        \/ [j \in Intents |-> VerdictOf(j)][i] = "reverted" /\ says = "failed"
    BY <1>1, <2>4
  <2> QED BY <2>2, <2>3, <2>5 DEF Promise!Conclude, PhaseOf, VerdictOf
<1>6. CASE ~(says \in Verdicts /\ intent[i] \notin Verdicts)
  <2>1. intent'[i] = intent[i]
    BY <1>t, <1>1, <1>2, <1>4, <1>6 DEF TypeOK, IInv, VerdictsAreTheChains
  <2>2. \A j \in Intents : PhaseOf(j)' = PhaseOf(j)
    BY <1>t, <1>4, <2>1 DEF PhaseOf, TypeOK
  <2> QED BY <1>3, <2>2, PromiseStutters
<1> QED BY <1>5, <1>6

LEMMA ChainLands ==
    ASSUME IInv, NEW h \in Hashes, ChainDecides(h)
    PROVE  (\E i \in Intents : Promise!Land(i)) \/ UNCHANGED Promise!vars
<1>t. TypeOK
  BY DEF IInv
<1>1. PICK v \in {"success", "reverted", "gone"} : chain' = [chain EXCEPT ![h] = v]
  BY DEF ChainDecides
<1>2. UNCHANGED <<intent, record, broadcasts>> /\ chain[h] = "pending"
  BY DEF ChainDecides
<1>3. PICK i \in Intents : HashOf[i] = h /\ broadcasts[i] = 1
  BY <1>2 DEF IInv, BroadcastsFit
<1>4. Exists(i) /\ \A j \in Intents \ {i} : Exists(j) => HashOf[j] # h
  BY <1>3 DEF IInv, ClaimsFit, OneRecordPerTransaction
<1>5. chain'[h] = v /\ \A g \in Hashes \ {h} : chain'[g] = chain[g]
  BY <1>t, <1>1 DEF TypeOK
<1>6. \A j \in Intents : PhaseOf(j)' = PhaseOf(j)
  BY <1>2 DEF PhaseOf
<1>7. \A j \in Intents \ {i} : VerdictOf(j)' = VerdictOf(j)
  <2>1. ASSUME NEW j \in Intents \ {i}, Exists(j) PROVE HashOf[j] \in Hashes \ {h}
    BY <1>4, <2>1, LifecycleAssumption
  <2> QED BY <1>2, <1>5, <2>1 DEF VerdictOf, Exists, Landed
<1>8. VerdictOf(i) = "none" /\ VerdictOf(i)' = IF v = "gone" THEN "none" ELSE v
  BY <1>2, <1>3, <1>4, <1>5 DEF VerdictOf, Exists, Landed
<1>9. CASE v = "gone"
  BY <1>2, <1>6, <1>7, <1>8, <1>9, PromiseStutters
<1>10. CASE v # "gone"
  <2>1. /\ [j \in Intents |-> VerdictOf(j)]' = [[j \in Intents |-> VerdictOf(j)] EXCEPT ![i] = v]
        /\ [j \in Intents |-> VerdictOf(j)][i] = "none"
        /\ [j \in Intents |-> PhaseOf(j)]' = [j \in Intents |-> PhaseOf(j)]
    BY <1>6, <1>7, <1>8, <1>10
  <2>2. v \in {"success", "reverted"}
    BY <1>10
  <2>3. Promise!Land(i)
    BY <1>2, <1>3, <2>1, <2>2 DEF Promise!Land, PhaseOf, VerdictOf
  <2> QED BY <2>3
<1> QED BY <1>9, <1>10

LEMMA PromiseSteps == IInv /\ [Next]_vars => [Promise!Next]_(Promise!vars)
<1> SUFFICES ASSUME IInv, [Next]_vars PROVE Promise!Next \/ UNCHANGED Promise!vars
  OBVIOUS
<1>t. TypeOK
  BY DEF IInv
<1>1. ASSUME UNCHANGED <<intent, record, chain, broadcasts>> PROVE UNCHANGED Promise!vars
  BY <1>1, PromiseStutters DEF PhaseOf, VerdictOf, Exists, Landed
<1>2. ASSUME NEW r \in Requests, Claim(r) PROVE Promise!Next \/ UNCHANGED Promise!vars
  BY <1>1, <1>2, ClaimKeeps DEF Promise!Next
<1>3. ASSUME NEW r \in Requests, Broadcast(r) PROVE Promise!Next \/ UNCHANGED Promise!vars
  BY <1>3, BroadcastKeeps DEF Promise!Next
<1>4. ASSUME NEW r \in Requests, MarkBroadcast(r) \/ MarkFails(r) \/ MarkUnknown(r)
      PROVE  UNCHANGED Promise!vars
  <2>1. request[r].key \in Intents /\ UNCHANGED <<chain, broadcasts>>
        /\ (\/ \E s \in {"submitted", "unknown"} : Mark(request[r].key, s)
            \/ UNCHANGED <<record, intent>>)
    BY <1>t, <1>4 DEF MarkBroadcast, MarkFails, MarkUnknown, Doing, TypeOK, Requested
  <2>2. ASSUME NEW i \in Intents, NEW s \in {"submitted", "unknown"}, Mark(i, s)
        PROVE  \A j \in Intents : PhaseOf(j)' = PhaseOf(j)
    <3>1. StillBroadcasting(i) => intent[i] = "broadcasting"
      BY DEF IInv, BroadcastsFit, StillBroadcasting
    <3> QED BY <1>t, <2>2, <3>1 DEF Mark, PhaseOf, TypeOK, Verdicts
  <2>3. \A j \in Intents : Exists(j)' <=> Exists(j)
    BY <2>1, MarkKeeps, NothingWritten
  <2>4. \A j \in Intents : VerdictOf(j)' = VerdictOf(j)
    BY <2>1, <2>3 DEF VerdictOf, Landed
  <2>5. \A j \in Intents : PhaseOf(j)' = PhaseOf(j)
    BY <2>1, <2>2 DEF PhaseOf
  <2> QED BY <2>1, <2>4, <2>5, PromiseStutters
<1>5. ASSUME NEW w \in Workers, Reconcile(w) \/ ReconcileFails(w)
      PROVE  Promise!Next \/ UNCHANGED Promise!vars
  <2>1. /\ job[w] # Idle /\ job[w].says # "nothing" /\ UNCHANGED <<chain, broadcasts>>
        /\ Writes(w) \/ UNCHANGED <<record, intent>>
    BY <1>5 DEF Reconcile, ReconcileFails
  <2>2. CASE Writes(w)
    BY <2>1, <2>2, WriteConcludes DEF Promise!Next
  <2>3. CASE UNCHANGED <<record, intent>>
    BY <1>1, <2>1, <2>3
  <2> QED BY <2>1, <2>2, <2>3
<1>6. ASSUME NEW h \in Hashes, ChainDecides(h) PROVE Promise!Next \/ UNCHANGED Promise!vars
  BY <1>6, ChainLands DEF Promise!Next
<1>7. CASE UNCHANGED vars
  BY <1>1, <1>7 DEF vars
<1> QED BY <1>1, <1>2, <1>3, <1>4, <1>5, <1>6, <1>7
        DEF Next, SubmitReads, RequestEnds, TakeDue, Ask, AskInVain, WorkerDies, Expires, Ages

\* Submission and reconciliation implement TransferPromise: one commitment and one
\* broadcast for every intent, and the verdict of the chain or none.
THEOREM PromiseKept == Spec => PromiseIsKept
<1>1. Init => Promise!Init
  BY LifecycleAssumption DEF Init, Promise!Init, Exists
<1> QED BY <1>1, PromiseSteps, Invariant, PTL DEF Spec, PromiseIsKept, Promise!Spec
=============================================================================
