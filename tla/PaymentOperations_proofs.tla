---------------------- MODULE PaymentOperations_proofs ----------------------
(***************************************************************************)
(* Theorems about PaymentOperations, for every set of keys, quotes,        *)
(* requests and workers, every choice of words and every ceiling.          *)
(***************************************************************************)
EXTENDS PaymentOperations, FiniteSetTheorems, TLAPS

-----------------------------------------------------------------------------
(* Rows and words. *)

\* A row that is there is one, and the others have nothing.
LEMMA RowTypes ==
    ASSUME TypeOK, NEW k \in Keys
    PROVE  /\ Exists(k) => row[k] \in Rows
           /\ ~Exists(k) => row[k] = NoRow
           /\ row[k].named \/ row[k].leased \/ row[k].confirmLeased \/ row[k].linked => Exists(k)
<1>1. row[k] \in Rows \/ row[k] = NoRow
  BY DEF TypeOK
<1>2. NoRow.status = "none" /\ ~NoRow.named /\ ~NoRow.leased /\ ~NoRow.confirmLeased /\ ~NoRow.linked
  BY DEF NoRow, Created
<1>3. \A v \in Rows : v.status # "none"
  BY DEF Rows, Statuses
<1> QED BY <1>1, <1>2, <1>3 DEF Exists

LEMMA CreatedIsRow == Created \in Rows
  BY PaymentAssumption DEF Created, Rows, Statuses

\* What a word stands for is a status, and never one of a payment that the
\* provider has not yet got.
LEMMA WordTypes ==
    ASSUME NEW k \in Keys, NEW word \in Announced
    PROVE  /\ normalizeProviderStatus(word, KindOf(k)) \in Statuses
           /\ normalizeProviderStatus(word, KindOf(k)) \notin {"created", "quoted", "initiating",
                                                              "chain_submitted", "manual_review"}
  BY PaymentAssumption DEF normalizeProviderStatus, providerStatuses, ProviderStatuses, Statuses

\* The end of a payment is final, but for a reversal; and there is no way back
\* to its beginning.
LEMMA GraphFacts ==
    ASSUME NEW from \in Statuses, NEW to \in Statuses, canTransitionPayment(from, to)
    PROVE  /\ isPaymentTerminal(from) => isPaymentTerminal(to)
           /\ to = "created" => from = "created"
           /\ from = "manual_review" => to = from
           /\ from # to => to \in allowedNext[from]
  BY DEF canTransitionPayment, allowedNext, Outcomes, isPaymentTerminal, Statuses

\* A person may be called from everywhere but the end.
LEMMA ReviewIsAnEdge ==
    ASSUME NEW from \in Statuses, ~isPaymentTerminal(from)
    PROVE  canTransitionPayment(from, "manual_review")
  BY DEF canTransitionPayment, allowedNext, Outcomes, isPaymentTerminal, Statuses

\* A write that keeps a row in order: what it may do to the old one, and what
\* must hold of the new one.
KeepsOrder(old, new) ==
    /\ new \in Rows /\ canTransitionPayment(old.status, new.status)
    /\ new.polls = ~isPaymentTerminal(new.status)
    /\ new.confirms => new.confirmTries < MaxAttempts
    /\ new.linked => \/ new.acknowledged \/ new.confirms
                     \/ new.status = "manual_review" \/ isPaymentTerminal(new.status)
    /\ new.named => new.status # "created"

\* What the invariant says of the row of an existing payment.
LEMMA OldRow ==
    ASSUME IInv, NEW k \in Keys, Exists(k)
    PROVE  KeepsOrder(row[k], row[k])
  BY RowTypes DEF IInv, KeepsOrder, PollsUntilTerminal, ConfirmsUntilAcknowledged, RowsFit,
                  canTransitionPayment

-----------------------------------------------------------------------------
(* The rows each action writes. *)

\* Leases, polls made and instructions are none of its business.
LEMMA SameOrder ==
    ASSUME NEW old, NEW f \in Rows, NEW g \in Rows, KeepsOrder(old, f),
           g.status = f.status, g.polls = f.polls, g.confirms = f.confirms,
           g.confirmTries = f.confirmTries, g.linked = f.linked,
           g.acknowledged = f.acknowledged, g.named = f.named
    PROVE  KeepsOrder(old, g)
  BY DEF KeepsOrder

\* The provider's word is followed where the graph has the edge.
LEMMA FollowingKeeps ==
    ASSUME NEW old \in Rows, KeepsOrder(old, old), NEW next \in Statuses, next # "created",
           canTransitionPayment(old.status, next), NEW known \in BOOLEAN
    PROVE  /\ KeepsOrder(old, Following(old, next, known))
           /\ KeepsOrder(old, [Following(old, next, known) EXCEPT !.tries = 0])
           /\ KeepsOrder(old, [Following(old, next, known) EXCEPT !.tries = 0, !.leased = FALSE])
           /\ KeepsOrder(old, [old EXCEPT !.status = next, !.tries = 0,
                                          !.polls = ~isPaymentTerminal(next)])
<1>0. 0 \in 0..MaxAttempts
  BY PaymentAssumption
<1>1. isPaymentTerminal(old.status) => isPaymentTerminal(next)
  BY GraphFacts DEF Rows
<1>2. old.status = "manual_review" => next = "manual_review"
  BY GraphFacts DEF Rows
<1>3. isPaymentTerminal(next) \in BOOLEAN
  BY DEF isPaymentTerminal
<1>4. Following(old, next, known) \in Rows
  BY <1>3 DEF Following, Rows
<1>5. KeepsOrder(old, Following(old, next, known))
  BY <1>1, <1>2, <1>3, <1>4 DEF Following, Rows, KeepsOrder
<1>6. KeepsOrder(old, [old EXCEPT !.status = next, !.tries = 0, !.polls = ~isPaymentTerminal(next)])
  <2> DEFINE g == [old EXCEPT !.status = next, !.tries = 0, !.polls = ~isPaymentTerminal(next)]
  <2>1. g \in Rows
    BY <1>0, <1>3 DEF Rows
  <2>2. /\ g.status = next /\ g.polls = ~isPaymentTerminal(next) /\ g.confirms = old.confirms
        /\ g.confirmTries = old.confirmTries /\ g.linked = old.linked
        /\ g.acknowledged = old.acknowledged /\ g.named = old.named
    BY DEF Rows
  <2> HIDE DEF g
  <2>3. KeepsOrder(old, g)
    BY <1>1, <1>2, <2>1, <2>2 DEF KeepsOrder
  <2> QED BY <2>3 DEF g
<1> DEFINE f == Following(old, next, known)
<1>7. f \in Rows /\ KeepsOrder(old, f)
  BY <1>4, <1>5
<1> HIDE DEF f
<1>8. KeepsOrder(old, [f EXCEPT !.tries = 0])
  <2>1. [f EXCEPT !.tries = 0] \in Rows
    BY <1>0, <1>7 DEF Rows
  <2> QED BY <1>7, <2>1, SameOrder DEF Rows
<1>9. KeepsOrder(old, [f EXCEPT !.tries = 0, !.leased = FALSE])
  <2>1. [f EXCEPT !.tries = 0, !.leased = FALSE] \in Rows
    BY <1>0, <1>7 DEF Rows
  <2> QED BY <1>7, <2>1, SameOrder DEF Rows
<1> QED BY <1>5, <1>6, <1>8, <1>9 DEF f

LEMMA BeginKeeps ==
    ASSUME NEW old \in Rows, KeepsOrder(old, old), old.status = "created"
    PROVE  KeepsOrder(old, [old EXCEPT !.status = "initiating", !.named = TRUE, !.polls = TRUE])
<1> DEFINE g == [old EXCEPT !.status = "initiating", !.named = TRUE, !.polls = TRUE]
<1>1. g \in Rows
  BY DEF Rows, Statuses
<1>2. /\ g.status = "initiating" /\ g.polls = TRUE /\ g.confirms = old.confirms
      /\ g.confirmTries = old.confirmTries /\ g.linked = old.linked
      /\ g.acknowledged = old.acknowledged
  BY DEF Rows
<1>3. canTransitionPayment("created", "initiating") /\ ~isPaymentTerminal("initiating")
  BY DEF canTransitionPayment, allowedNext, isPaymentTerminal
<1> HIDE DEF g
<1>4. KeepsOrder(old, g)
  BY <1>1, <1>2, <1>3 DEF KeepsOrder, isPaymentTerminal
<1> QED BY <1>4 DEF g

LEMMA FailureKeeps ==
    ASSUME NEW old \in Rows, KeepsOrder(old, old), old.status = "initiating",
           NEW next \in {"unknown", "failed"}
    PROVE  KeepsOrder(old, [old EXCEPT !.status = next, !.tries = 0, !.polls = (next = "unknown")])
<1>1. canTransitionPayment(old.status, next) /\ next \in Statuses
  BY DEF canTransitionPayment, allowedNext, Outcomes, Statuses
<1>2. (next = "unknown") = ~isPaymentTerminal(next)
  BY DEF isPaymentTerminal
<1>3. KeepsOrder(old, [old EXCEPT !.status = next, !.tries = 0, !.polls = ~isPaymentTerminal(next)])
  BY <1>1, FollowingKeeps
<1> QED BY <1>2, <1>3

LEMMA LinkKeeps ==
    ASSUME NEW old \in Rows, KeepsOrder(old, old), canTransitionPayment(old.status, "chain_submitted")
    PROVE  KeepsOrder(old, [old EXCEPT !.status = "chain_submitted", !.linked = TRUE,
                                       !.confirms = TRUE, !.confirmTries = 0,
                                       !.acknowledged = FALSE, !.polls = TRUE])
<1> DEFINE g == [old EXCEPT !.status = "chain_submitted", !.linked = TRUE, !.confirms = TRUE,
                            !.confirmTries = 0, !.acknowledged = FALSE, !.polls = TRUE]
<1>0. 0 \in 0..MaxAttempts /\ 0 < MaxAttempts
  BY PaymentAssumption
<1>1. g \in Rows
  BY <1>0 DEF Rows, Statuses
<1>2. /\ g.status = "chain_submitted" /\ g.polls = TRUE /\ g.confirms = TRUE
      /\ g.confirmTries = 0
  BY DEF Rows
<1>3. ~isPaymentTerminal("chain_submitted")
  BY DEF isPaymentTerminal
<1> HIDE DEF g
<1>4. KeepsOrder(old, g)
  BY <1>0, <1>1, <1>2, <1>3 DEF KeepsOrder
<1> QED BY <1>4 DEF g

\* Leases and the binding of a transfer leave the order alone.
LEMMA LeasesKeep ==
    ASSUME NEW old \in Rows, KeepsOrder(old, old), NEW b \in BOOLEAN
    PROVE  /\ KeepsOrder(old, [old EXCEPT !.bound = b])
           /\ KeepsOrder(old, [old EXCEPT !.leased = b])
           /\ KeepsOrder(old, [old EXCEPT !.confirmLeased = b])
<1>1. KeepsOrder(old, [old EXCEPT !.bound = b])
  <2>1. [old EXCEPT !.bound = b] \in Rows
    BY DEF Rows
  <2> QED BY <2>1, SameOrder DEF Rows
<1>2. KeepsOrder(old, [old EXCEPT !.leased = b])
  <2>1. [old EXCEPT !.leased = b] \in Rows
    BY DEF Rows
  <2> QED BY <2>1, SameOrder DEF Rows
<1>3. KeepsOrder(old, [old EXCEPT !.confirmLeased = b])
  <2>1. [old EXCEPT !.confirmLeased = b] \in Rows
    BY DEF Rows
  <2> QED BY <2>1, SameOrder DEF Rows
<1> QED BY <1>1, <1>2, <1>3

\* The answer to a confirmation is written whatever the row has become.
LEMMA ConfirmKeeps ==
    ASSUME NEW old \in Rows, KeepsOrder(old, old), NEW attempt \in 0..MaxAttempts
    PROVE  LET tried == [old EXCEPT !.confirmTries = attempt, !.confirmLeased = FALSE] IN
           /\ KeepsOrder(old, [tried EXCEPT !.acknowledged = TRUE, !.confirms = FALSE])
           /\ KeepsOrder(old, NotConfirmed(tried, attempt))
           /\ NotConfirmed(tried, attempt).status \in {old.status, "manual_review"}
<1> DEFINE tried == [old EXCEPT !.confirmTries = attempt, !.confirmLeased = FALSE]
<1>1. tried \in Rows
  BY DEF Rows
<1>2. /\ tried.status = old.status /\ tried.polls = old.polls /\ tried.linked = old.linked
      /\ tried.acknowledged = old.acknowledged /\ tried.named = old.named
      /\ tried.confirmTries = attempt
  BY DEF Rows
<1> HIDE DEF tried
<1>3. KeepsOrder(old, [tried EXCEPT !.acknowledged = TRUE, !.confirms = FALSE])
  <2> DEFINE g == [tried EXCEPT !.acknowledged = TRUE, !.confirms = FALSE]
  <2>1. g \in Rows
    BY <1>1 DEF Rows
  <2>2. /\ g.status = old.status /\ g.polls = old.polls /\ g.acknowledged = TRUE
        /\ g.confirms = FALSE /\ g.named = old.named
    BY <1>1, <1>2 DEF Rows
  <2> HIDE DEF g
  <2>3. KeepsOrder(old, g)
    BY <2>1, <2>2 DEF KeepsOrder
  <2> QED BY <2>3 DEF g
<1>4. KeepsOrder(old, NotConfirmed(tried, attempt))
      /\ NotConfirmed(tried, attempt).status \in {old.status, "manual_review"}
  <2> DEFINE status == IF attempt >= MaxAttempts /\ ~isPaymentTerminal(tried.status)
                       THEN "manual_review" ELSE tried.status
             more == attempt < MaxAttempts
             g == [tried EXCEPT !.confirms = more, !.status = status]
  <2>1. more \in BOOLEAN /\ (~more => attempt >= MaxAttempts)
    BY PaymentAssumption
  <2>2. status \in Statuses
    BY <1>1 DEF Rows, Statuses
  <2>3. /\ status = old.status \/ (status = "manual_review" /\ ~isPaymentTerminal(old.status))
        /\ ~more => status = "manual_review" \/ isPaymentTerminal(status)
    BY <1>2, <2>1
  <2>4. NotConfirmed(tried, attempt) = g
    BY DEF NotConfirmed
  <2>5. canTransitionPayment(old.status, status) /\ isPaymentTerminal(status) = isPaymentTerminal(old.status)
    BY <2>2, <2>3, ReviewIsAnEdge DEF Rows, canTransitionPayment, isPaymentTerminal
  <2>6. more => attempt < MaxAttempts
    OBVIOUS
  <2> HIDE DEF status, more
  <2>7. g \in Rows
    BY <1>1, <2>1, <2>2 DEF Rows
  <2>8. /\ g.status = status /\ g.confirms = more /\ g.polls = old.polls /\ g.linked = old.linked
        /\ g.acknowledged = old.acknowledged /\ g.named = old.named /\ g.confirmTries = attempt
    BY <1>1, <1>2 DEF Rows
  <2> HIDE DEF g
  <2>9. KeepsOrder(old, g)
    BY <2>3, <2>5, <2>6, <2>7, <2>8 DEF KeepsOrder
  <2> QED BY <2>3, <2>4, <2>8, <2>9
<1> QED BY <1>3, <1>4 DEF tried

\* The answer to a poll moves the status where it may, and counts in any case.
LEMMA PollKeeps ==
    ASSUME NEW old \in Rows, KeepsOrder(old, old), NEW next \in Statuses,
           next # "created" \/ old.status = "created",
           NEW attempt \in 0..MaxAttempts, NEW known \in BOOLEAN
    PROVE  LET moved == IF canTransitionPayment(old.status, next) THEN next ELSE old.status IN
           /\ KeepsOrder(old, Polled(old, next, moved, attempt, known))
           /\ Polled(old, next, moved, attempt, known).status = moved
<1> DEFINE moved == IF canTransitionPayment(old.status, next) THEN next ELSE old.status
           f == Following(old, next, known)
           on == ~isPaymentTerminal(moved)
           g == [f EXCEPT !.status = moved, !.polls = on, !.tries = attempt, !.leased = FALSE]
<1>1. moved \in Statuses /\ canTransitionPayment(old.status, moved)
  BY DEF Rows, canTransitionPayment
<1>2. /\ isPaymentTerminal(old.status) => isPaymentTerminal(moved)
      /\ old.status = "manual_review" => moved = "manual_review"
      /\ moved = "created" => old.status = "created"
  BY <1>1, GraphFacts DEF Rows
<1>3. f \in Rows /\ on \in BOOLEAN
  BY DEF Following, isPaymentTerminal, Rows
<1>4. /\ f.confirms = old.confirms /\ f.confirmTries = old.confirmTries /\ f.linked = old.linked
      /\ f.acknowledged = old.acknowledged /\ f.named = old.named
  BY DEF Following, Rows
<1>5. Polled(old, next, moved, attempt, known) = g
  BY DEF Polled
<1>6. on = ~isPaymentTerminal(moved)
  OBVIOUS
<1> HIDE DEF moved, f, on
<1>7. g \in Rows
  BY <1>1, <1>3 DEF Rows
<1>8. /\ g.status = moved /\ g.polls = on /\ g.confirms = old.confirms
      /\ g.confirmTries = old.confirmTries /\ g.linked = old.linked
      /\ g.acknowledged = old.acknowledged /\ g.named = old.named
  BY <1>3, <1>4 DEF Rows
<1> HIDE DEF g
<1>9. KeepsOrder(old, g)
  BY <1>1, <1>2, <1>6, <1>7, <1>8 DEF KeepsOrder
<1> QED BY <1>5, <1>8, <1>9 DEF moved

-----------------------------------------------------------------------------
(* What a write of one row, or none, does to the table. *)

\* The part of the invariant that is about the table and the quotes.
TableFits == /\ row \in [Keys -> Rows \cup {NoRow}] /\ consumed \in [Quotes -> BOOLEAN]
             /\ RowsFit /\ PollsUntilTerminal /\ ConfirmsUntilAcknowledged
             /\ QuoteBacksOneOperation /\ ActiveWithinCap

\* No payment vanishes or returns to its beginning, and every move is an edge.
TableMoves ==
    \A k \in Keys :
        /\ Exists(k) => row'[k].status # "none"
        /\ row'[k].status = "created" => row[k].status = "created" \/ ~Exists(k)
        /\ row'[k].status # row[k].status =>
              IF Exists(k) THEN row'[k].status \in allowedNext[row[k].status]
              ELSE row'[k].status = "created"

LEMMA TableStays ==
    ASSUME IInv, UNCHANGED <<row, consumed>>
    PROVE  TableFits' /\ TableMoves
  BY DEF IInv, TypeOK, TableFits, TableMoves, RowsFit, PollsUntilTerminal,
         ConfirmsUntilAcknowledged, QuoteBacksOneOperation, ActiveWithinCap, Exists, Active

\* Fewer active payments are still within the cap.
LEMMA CapKept ==
    ASSUME IInv, \A k \in Keys : Active(k)' => Active(k)
    PROVE  ActiveWithinCap'
<1> DEFINE A == {k \in Keys : Active(k)}
           B == {k \in Keys : Active(k)'}
<1>1. A \subseteq Keys /\ IsFiniteSet(A)
  BY PaymentAssumption, FS_Subset
<1>2. B \subseteq A
  OBVIOUS
<1>3. Cardinality(B) <= Cardinality(A) /\ IsFiniteSet(B)
  BY <1>1, <1>2, FS_Subset
<1>4. Cardinality(A) <= MaxActive
  BY DEF IInv, ActiveWithinCap
<1>5. Cardinality(A) \in Nat /\ Cardinality(B) \in Nat
  BY <1>1, <1>3, FS_CardinalityType
<1> HIDE DEF A
<1>6. Cardinality(B) <= MaxActive
  BY <1>3, <1>4, <1>5, PaymentAssumption
<1> QED BY <1>6 DEF ActiveWithinCap

LEMMA TableWrites ==
    ASSUME IInv, NEW k \in Keys, Exists(k), NEW v, KeepsOrder(row[k], v),
           row' = [row EXCEPT ![k] = v], UNCHANGED consumed
    PROVE  TableFits' /\ TableMoves
<1>1. row \in [Keys -> Rows \cup {NoRow}] /\ row[k] \in Rows /\ v \in Rows
  BY RowTypes DEF IInv, TypeOK, KeepsOrder
<1>2. row'[k] = v /\ \A j \in Keys \ {k} : row'[j] = row[j]
  BY <1>1
<1>3. row' \in [Keys -> Rows \cup {NoRow}] /\ consumed' \in [Quotes -> BOOLEAN]
  BY <1>1 DEF IInv, TypeOK
<1>4. v.status \in Statuses /\ row[k].status \in Statuses /\ v.status # "none"
  BY <1>1 DEF Rows, Statuses
<1>5. canTransitionPayment(row[k].status, v.status)
  BY DEF KeepsOrder
<1>6. /\ v.status = "created" => row[k].status = "created"
      /\ v.status # row[k].status => v.status \in allowedNext[row[k].status]
  BY <1>4, <1>5, GraphFacts
<1>13. TableMoves
  <2> SUFFICES ASSUME NEW j \in Keys
               PROVE  /\ Exists(j) => row'[j].status # "none"
                      /\ row'[j].status = "created" => row[j].status = "created" \/ ~Exists(j)
                      /\ row'[j].status # row[j].status =>
                            IF Exists(j) THEN row'[j].status \in allowedNext[row[j].status]
                            ELSE row'[j].status = "created"
    BY DEF TableMoves
  <2>1. CASE j = k
    BY <1>2, <1>4, <1>6, <2>1
  <2>2. CASE j # k
    BY <1>2, <2>2 DEF Exists
  <2> QED BY <2>1, <2>2
<1>7. \A j \in Keys : Exists(j)' <=> Exists(j)
  BY <1>2, <1>4 DEF Exists
<1>8. RowsFit'
  BY <1>2, <1>7 DEF IInv, RowsFit, KeepsOrder
<1>9. PollsUntilTerminal' /\ ConfirmsUntilAcknowledged'
  BY <1>2, <1>7 DEF IInv, PollsUntilTerminal, ConfirmsUntilAcknowledged, KeepsOrder
<1>10. QuoteBacksOneOperation'
  BY <1>7 DEF IInv, QuoteBacksOneOperation
<1>11. isPaymentTerminal(row[k].status) => isPaymentTerminal(v.status)
  BY <1>4, <1>5, GraphFacts
<1>12. \A j \in Keys : Active(j)' => Active(j)
  BY <1>2, <1>7, <1>11 DEF Active
<1> QED BY <1>3, <1>13, <1>8, <1>9, <1>10, <1>12, CapKept DEF TableFits

LEMMA TableGrows ==
    ASSUME IInv, NEW k \in Keys, ~Exists(k), RoomUnderCap, QuoteIsFree(k),
           row' = [row EXCEPT ![k] = Created], consumed' = [consumed EXCEPT ![QuoteOf[k]] = TRUE]
    PROVE  TableFits' /\ TableMoves
<1>1. row'[k] = Created /\ \A j \in Keys \ {k} : row'[j] = row[j]
  BY DEF IInv, TypeOK
<1>2. QuoteOf[k] \in Quotes /\ \A j \in Keys : QuoteOf[j] \in Quotes
  BY PaymentAssumption
<1>3. consumed'[QuoteOf[k]] = TRUE /\ \A q \in Quotes : consumed[q] => consumed'[q]
  BY <1>2 DEF IInv, TypeOK
<1>4. row' \in [Keys -> Rows \cup {NoRow}] /\ consumed' \in [Quotes -> BOOLEAN]
  BY CreatedIsRow DEF IInv, TypeOK
<1>5. /\ Created.status = "created" /\ ~Created.named /\ ~Created.confirms /\ ~Created.linked
      /\ Created.polls = ~isPaymentTerminal(Created.status) /\ ~isPaymentTerminal("created")
  BY DEF Created, isPaymentTerminal
<1>6. \A j \in Keys : Exists(j)' <=> Exists(j) \/ j = k
  BY <1>1, <1>5 DEF Exists
<1>7. TableMoves
  BY <1>1, <1>5 DEF TableMoves, Exists
<1>8. RowsFit'
  BY <1>1, <1>2, <1>3, <1>5, <1>6 DEF IInv, RowsFit
<1>9. PollsUntilTerminal' /\ ConfirmsUntilAcknowledged'
  <2>1. \A j \in Keys : Exists(j)' => row'[j].polls = ~isPaymentTerminal(row'[j].status)
    BY <1>1, <1>5, <1>6 DEF IInv, PollsUntilTerminal
  <2>2. \A j \in Keys : row'[j].linked => row[j].linked /\ row'[j] = row[j]
    BY <1>1, <1>5
  <2> QED BY <2>1, <2>2 DEF IInv, PollsUntilTerminal, ConfirmsUntilAcknowledged
<1>10. \A j \in Keys : Exists(j) => QuoteOf[j] # QuoteOf[k]
  BY DEF IInv, RowsFit, QuoteIsFree
<1>11. QuoteBacksOneOperation'
  BY <1>6, <1>10 DEF IInv, QuoteBacksOneOperation
<1>12. ActiveWithinCap'
  <2> DEFINE A == {j \in Keys : Active(j)}
             B == {j \in Keys : Active(j)'}
  <2>1. A \subseteq Keys /\ IsFiniteSet(A) /\ k \notin A
    BY PaymentAssumption, FS_Subset DEF Active
  <2>2. B = A \cup {k}
    BY <1>1, <1>5, <1>6 DEF Active
  <2>3. Cardinality(B) = Cardinality(A) + 1
    BY <2>1, <2>2, FS_AddElement
  <2>4. Cardinality(A) \in Nat /\ Cardinality(A) < MaxActive
    BY <2>1, FS_CardinalityType DEF RoomUnderCap
  <2> HIDE DEF A
  <2>5. Cardinality(B) <= MaxActive
    BY <2>3, <2>4, PaymentAssumption
  <2> QED BY <2>5 DEF ActiveWithinCap
<1> QED BY <1>4, <1>7, <1>8, <1>9, <1>11, <1>12 DEF TableFits

-----------------------------------------------------------------------------
(* Requests, workers and the provider. *)

\* The part of the types that is not about the table.
WorkTypes ==
    /\ request \in [Requests -> Requested \cup {Idle}]
    /\ job \in [Workers -> Jobs \cup {Idle}]
    /\ refreshes \in [Keys -> 0..MaxRefreshes]
    /\ transferred \in [Keys -> BOOLEAN]
    /\ remote \in [Keys -> Announced \cup {"none"}]
    /\ posts \in [Keys -> Nat]
    /\ event \in [Keys -> [Announced -> {"unsent", "sent", "pending", "processed"}]]

LEMMA WorkTyped == ASSUME IInv PROVE WorkTypes
  BY DEF IInv, TypeOK, WorkTypes

\* What a request takes on other than a payment to post: only a payment that
\* exists, if it is past the first look, and only a word that was announced.
TakesOn(v) ==
    /\ v.at \notin Begun
    /\ v.at # "cleared" => row'[v.key].status # "none"
    /\ v.at = "refreshing" => v.says # "silent"
    /\ v.says # "silent" => event'[v.key][v.says] # "unsent"

RequestsFollow ==
    \A r \in Requests : request'[r] \in {request[r], Idle} \/ TakesOn(request'[r])

JobsFollow ==
    \A w \in Workers :
       \/ job'[w] \in {job[w], Idle}
       \/ /\ row'[job'[w].key].status # "none"
          /\ job'[w].says # "silent" => event'[job'[w].key][job'[w].says] # "unsent"

\* What was announced stays so, and a payment that was never posted stays
\* unknown to the provider.
WorldGrows ==
    \A k \in Keys :
       /\ \A s \in Announced : event[k][s] # "unsent" => event'[k][s] # "unsent"
       /\ remote[k] = "none" => remote'[k] = "none"
       /\ posts[k] = 0 => \A s \in Announced : event[k][s] = "unsent" => event'[k][s] = "unsent"
       /\ remote'[k] # "none" => event'[k][remote'[k]] # "unsent"

\* Statuses that say nothing of what the provider did.
Neutral == {"none", "created", "initiating", "quoted", "awaiting_fiat", "awaiting_chain",
            "chain_submitted", "unknown", "manual_review"}

\* Whatever else a status becomes, the provider announced it, or it rejected
\* the payment.
StatusesTold ==
    \A k \in Keys :
       \/ row'[k].status = row[k].status
       \/ row'[k].status \in Neutral
       \/ \E s \in Announced : /\ event[k][s] # "unsent"
                               /\ row'[k].status = normalizeProviderStatus(s, KindOf(k))
       \/ row'[k].status = "failed" /\ remote[k] = "none" /\ posts[k] = 1

LEMMA WorkStays == UNCHANGED <<remote, posts, event>> /\ IInv => WorldGrows
  BY DEF IInv, PostsFit, WorldGrows

LEMMA WorkKept ==
    ASSUME IInv, TableMoves, WorldGrows, RequestsFollow, JobsFollow, UNCHANGED posts,
           WorkTypes'
    PROVE  WorkFits'
<1>1. ASSUME NEW r \in Requests, NEW k \in Keys, request'[r] # Idle, request'[r].key = k
      PROVE  /\ request'[r].at # "cleared" => row'[k].status # "none"
             /\ request'[r].at \in Begun => row'[k].status # "created"
             /\ request'[r].at \in Begun \ {"begun"} => posts'[k] = 1
             /\ request'[r].at = "begun" =>
                   /\ posts'[k] = 0
                   /\ \A q \in Requests : request'[q] # Idle /\ request'[q].key = k
                                          /\ request'[q].at \in Begun => q = r
             /\ request'[r].at = "rejected" => remote'[k] = "none"
             /\ request'[r].at \in {"answered", "refreshing"} => request'[r].says # "silent"
             /\ request'[r].says # "silent" => event'[k][request'[r].says] # "unsent"
  <2>1. CASE request'[r] = request[r]
    <3>1. Has(r, k) /\ request[r].says \in Announced \cup {"silent"}
      BY <1>1, <2>1, WorkTyped DEF Has, WorkTypes, Requested
    <3>2. /\ request[r].at # "cleared" => Exists(k)
          /\ request[r].at \in Begun => row[k].status # "created"
          /\ request[r].at \in Begun \ {"begun"} => posts[k] = 1
          /\ request[r].at = "begun" =>
                posts[k] = 0 /\ \A q \in Requests : Has(q, k) /\ request[q].at \in Begun => q = r
          /\ request[r].at = "rejected" => remote[k] = "none"
          /\ request[r].at \in {"answered", "refreshing"} => request[r].says # "silent"
          /\ request[r].says # "silent" => event[k][request[r].says] # "unsent"
      BY <3>1 DEF IInv, WorkFits
    <3>3. request[r].at \in Begun => Exists(k)
      BY <3>2 DEF Begun
    <3>4. \A q \in Requests : request'[q] # Idle /\ request'[q].at \in Begun => request'[q] = request[q]
      BY DEF RequestsFollow, TakesOn
    <3>5. ASSUME NEW q \in Requests, request'[q] # Idle, request'[q].key = k, request'[q].at \in Begun
          PROVE  Has(q, k) /\ request[q].at \in Begun
      BY <3>4, <3>5 DEF Has
    <3> QED BY <2>1, <3>1, <3>2, <3>3, <3>5 DEF TableMoves, WorldGrows
  <2>2. CASE TakesOn(request'[r])
    BY <1>1, <2>2 DEF TakesOn, Begun
  <2> QED BY <1>1, <2>1, <2>2 DEF RequestsFollow
<1>2. ASSUME NEW w \in Workers, NEW k \in Keys, job'[w] # Idle, job'[w].key = k
      PROVE  /\ row'[k].status # "none"
             /\ job'[w].says # "silent" => event'[k][job'[w].says] # "unsent"
  <2>1. CASE job'[w] = job[w]
    <3>1. job[w].says \in Announced \cup {"silent"}
      BY <1>2, <2>1, WorkTyped DEF WorkTypes, Jobs
    <3>2. Exists(k) /\ (job[w].says # "silent" => event[k][job[w].says] # "unsent")
      BY <1>2, <2>1 DEF IInv, WorkFits
    <3> QED BY <2>1, <3>1, <3>2 DEF TableMoves, WorldGrows
  <2>2. CASE job'[w] # job[w]
    BY <1>2, <2>2 DEF JobsFollow
  <2> QED BY <2>1, <2>2
<1> QED BY <1>1, <1>2 DEF WorkFits, Has, Exists

LEMMA PostsKept ==
    ASSUME IInv, TableMoves, WorldGrows, StatusesTold, UNCHANGED posts
    PROVE  PostsFit'
<1> SUFFICES ASSUME NEW k \in Keys
             PROVE  /\ posts[k] \in {0, 1}
                    /\ posts[k] = 0 => /\ remote'[k] = "none" /\ row'[k].status # "failed"
                                       /\ \A s \in Announced : event'[k][s] = "unsent"
                    /\ row'[k].status \in {"none", "created"} => posts[k] = 0
                    /\ remote'[k] # "none" => event'[k][remote'[k]] # "unsent"
  BY DEF PostsFit
<1>1. /\ posts[k] \in {0, 1}
      /\ posts[k] = 0 => /\ remote[k] = "none" /\ row[k].status # "failed"
                         /\ \A s \in Announced : event[k][s] = "unsent"
      /\ row[k].status \in {"none", "created"} => posts[k] = 0
  BY DEF IInv, PostsFit
<1>2. posts[k] = 0 => row'[k].status # "failed"
  BY <1>1 DEF StatusesTold, Neutral
<1>3. row'[k].status \in {"none", "created"} => row[k].status \in {"none", "created"}
  BY DEF TableMoves, Exists
<1> QED BY <1>1, <1>2, <1>3 DEF WorldGrows

LEMMA ToldKept ==
    ASSUME IInv, WorldGrows, StatusesTold
    PROVE  NothingSynthesized'
<1> DEFINE T(k, status) == \E s \in Announced :
                event'[k][s] # "unsent" /\ normalizeProviderStatus(s, KindOf(k)) = status
<1> SUFFICES ASSUME NEW k \in Keys
             PROVE  /\ row'[k].status \in {"processing", "completed", "expired", "blocked",
                                           "scheduled", "reversed"} => T(k, row'[k].status)
                    /\ row'[k].status = "failed" => remote'[k] = "none" \/ T(k, "failed")
  BY DEF NothingSynthesized, Told
<1>1. \A status : Told(k, status) => T(k, status)
  BY DEF Told, WorldGrows
<1>2. /\ row[k].status \in {"processing", "completed", "expired", "blocked", "scheduled",
                            "reversed"} => Told(k, row[k].status)
      /\ row[k].status = "failed" => remote[k] = "none" \/ Told(k, "failed")
  BY DEF IInv, NothingSynthesized
<1>3. CASE row'[k].status = row[k].status
  BY <1>1, <1>2, <1>3 DEF WorldGrows
<1>4. CASE row'[k].status \in Neutral
  BY <1>4 DEF Neutral
<1>5. CASE \E s \in Announced : /\ event[k][s] # "unsent"
                               /\ row'[k].status = normalizeProviderStatus(s, KindOf(k))
  BY <1>5 DEF WorldGrows
<1>6. CASE row'[k].status = "failed" /\ remote[k] = "none" /\ posts[k] = 1
  BY <1>6 DEF WorldGrows
<1> QED BY <1>3, <1>4, <1>5, <1>6 DEF StatusesTold

\* The parts of a step that posts nothing and begins nothing, put together.
LEMMA StepKept ==
    ASSUME IInv, TableFits', TableMoves, WorkTypes', WorldGrows, RequestsFollow, JobsFollow,
           StatusesTold, UNCHANGED posts
    PROVE  IInv' /\ TableMoves
<1>1. WorkFits' /\ PostsFit' /\ NothingSynthesized'
  BY WorkKept, PostsKept, ToldKept
<1>2. TypeOK'
  BY DEF TableFits, WorkTypes, TypeOK
<1> QED BY <1>1, <1>2 DEF IInv, TableFits

-----------------------------------------------------------------------------
(* Steps by what they leave alone. *)

\* What a write may say of a payment.
Truth(k, status) ==
    \/ status = row[k].status
    \/ status \in Neutral
    \/ \E s \in Announced : event[k][s] # "unsent" /\ status = normalizeProviderStatus(s, KindOf(k))
    \/ status = "failed" /\ remote[k] = "none" /\ posts[k] = 1

LEMMA RowsStay ==
    ASSUME IInv, UNCHANGED <<row, consumed>>
    PROVE  TableFits' /\ TableMoves /\ StatusesTold
<1>1. StatusesTold
  BY DEF StatusesTold
<1> QED BY <1>1, TableStays

LEMMA RowWritten ==
    ASSUME IInv, NEW k \in Keys, Exists(k), NEW v, KeepsOrder(row[k], v), Truth(k, v.status),
           row' = [row EXCEPT ![k] = v], UNCHANGED consumed
    PROVE  TableFits' /\ TableMoves /\ StatusesTold
<1>1. row'[k] = v /\ \A j \in Keys \ {k} : row'[j] = row[j]
  BY DEF IInv, TypeOK
<1>2. StatusesTold
  BY <1>1 DEF StatusesTold, Truth
<1> QED BY <1>2, TableWrites

LEMMA RequestStep ==
    ASSUME IInv, TableFits', TableMoves, StatusesTold, RequestsFollow,
           request' \in [Requests -> Requested \cup {Idle}],
           UNCHANGED <<job, transferred, remote, posts, event>>,
           refreshes' \in [Keys -> 0..MaxRefreshes]
    PROVE  IInv' /\ TableMoves
<1>1. WorkTypes'
  BY WorkTyped DEF WorkTypes
<1>2. WorldGrows
  BY WorkStays
<1>3. JobsFollow
  BY DEF JobsFollow
<1> QED BY <1>1, <1>2, <1>3, StepKept

LEMMA WorkerStep ==
    ASSUME IInv, TableFits', TableMoves, StatusesTold, JobsFollow,
           job' \in [Workers -> Jobs \cup {Idle}],
           UNCHANGED <<request, refreshes, transferred, remote, posts, event>>
    PROVE  IInv' /\ TableMoves
<1>1. WorkTypes'
  BY WorkTyped DEF WorkTypes
<1>2. WorldGrows
  BY WorkStays
<1>3. RequestsFollow
  BY DEF RequestsFollow
<1> QED BY <1>1, <1>2, <1>3, StepKept

LEMMA WorldStep ==
    ASSUME IInv, TableFits', TableMoves, StatusesTold, WorldGrows, WorkTypes',
           UNCHANGED <<request, job, posts>>
    PROVE  IInv' /\ TableMoves
<1>1. RequestsFollow /\ JobsFollow
  BY DEF RequestsFollow, JobsFollow
<1> QED BY <1>1, StepKept

\* A request is done.
LEMMA DoneFollows ==
    ASSUME IInv, NEW r \in Requests, Done(r)
    PROVE  RequestsFollow /\ request' \in [Requests -> Requested \cup {Idle}]
<1>1. request \in [Requests -> Requested \cup {Idle}]
  BY DEF IInv, TypeOK
<1> QED BY <1>1 DEF Done, RequestsFollow

\* A request begins.
LEMMA StartFollows ==
    ASSUME IInv, NEW r \in Requests, NEW step \in {"cleared", "refreshing", "drafted"},
           NEW k \in Keys, NEW says \in Announced \cup {"silent"}, NEW details \in BOOLEAN,
           Starts(r, step, k, says, details), UNCHANGED <<row, event>>,
           step # "cleared" => Exists(k), step = "refreshing" => says # "silent",
           says # "silent" => event[k][says] # "unsent"
    PROVE  RequestsFollow /\ request' \in [Requests -> Requested \cup {Idle}]
<1> DEFINE v == [at |-> step, key |-> k, says |-> says, details |-> details]
<1>1. request \in [Requests -> Requested \cup {Idle}] /\ request' = [request EXCEPT ![r] = v]
  BY DEF IInv, TypeOK, Starts
<1>2. v \in Requested
  BY DEF Requested
<1>3. v.at = step /\ v.key = k /\ v.says = says
  OBVIOUS
<1> HIDE DEF v
<1>4. TakesOn(v)
  BY <1>3 DEF TakesOn, Begun, Exists
<1>5. request'[r] = v /\ \A q \in Requests \ {r} : request'[q] = request[q]
  BY <1>1
<1> QED BY <1>1, <1>2, <1>4, <1>5 DEF RequestsFollow

\* A worker is done, or dies.
LEMMA JobDoneFollows ==
    ASSUME IInv, NEW w \in Workers, JobDone(w)
    PROVE  JobsFollow /\ job' \in [Workers -> Jobs \cup {Idle}]
<1>1. job \in [Workers -> Jobs \cup {Idle}]
  BY DEF IInv, TypeOK
<1> QED BY <1>1 DEF JobDone, JobsFollow

\* A worker takes a row.
LEMMA TakesFollows ==
    ASSUME IInv, NEW w \in Workers, NEW step \in {"linking", "confirming", "polling"},
           NEW k \in Keys, NEW attempt \in 0..MaxAttempts, Takes(w, step, k, attempt),
           row'[k].status # "none"
    PROVE  JobsFollow /\ job' \in [Workers -> Jobs \cup {Idle}]
<1> DEFINE v == [at |-> step, key |-> k, attempt |-> attempt, says |-> "silent",
                 details |-> FALSE]
<1>1. job \in [Workers -> Jobs \cup {Idle}] /\ job' = [job EXCEPT ![w] = v]
  BY DEF IInv, TypeOK, Takes
<1>2. v \in Jobs
  BY DEF Jobs
<1>3. v.key = k /\ v.says = "silent"
  OBVIOUS
<1> HIDE DEF v
<1>4. job'[w] = v /\ \A q \in Workers \ {w} : job'[q] = job[q]
  BY <1>1
<1> QED BY <1>1, <1>2, <1>3, <1>4 DEF JobsFollow

\* Who holds what.
LEMMA RequestHolds ==
    ASSUME IInv, NEW r \in Requests, request[r] # Idle
    PROVE  /\ request[r] \in Requested /\ request[r].key \in Keys /\ Has(r, request[r].key)
           /\ request[r].at # "cleared" => Exists(request[r].key)
  BY DEF IInv, TypeOK, WorkFits, Has, Requested

LEMMA JobHolds ==
    ASSUME IInv, NEW w \in Workers, job[w] # Idle
    PROVE  /\ job[w] \in Jobs /\ job[w].key \in Keys /\ Exists(job[w].key)
           /\ job[w].says # "silent" => event[job[w].key][job[w].says] # "unsent"
  BY DEF IInv, TypeOK, WorkFits, Jobs

-----------------------------------------------------------------------------
(* The requests. *)

LEMMA RequestReadsKept ==
    ASSUME IInv, NEW r \in Requests, NEW k \in Keys, RequestReads(r, k)
    PROVE  IInv' /\ TableMoves
<1>1. RequestsFollow /\ request' \in [Requests -> Requested \cup {Idle}]
  BY StartFollows DEF RequestReads
<1>2. TableFits' /\ TableMoves /\ StatusesTold
  BY RowsStay DEF RequestReads
<1> QED BY <1>1, <1>2, WorkTyped, RequestStep DEF RequestReads, WorkTypes

LEMMA RefreshAskKept ==
    ASSUME IInv, NEW r \in Requests, NEW k \in Keys, RefreshAsk(r, k)
    PROVE  IInv' /\ TableMoves
<1>1. /\ Exists(k) /\ remote[k] \in Announced /\ event[k][remote[k]] # "unsent"
      /\ remote[k] # "silent"
  BY RowTypes, PaymentAssumption DEF RefreshAsk, IInv, TypeOK, PostsFit, ProviderStatuses
<1>2. PICK details \in BOOLEAN : Starts(r, "refreshing", k, remote[k], details)
  BY DEF RefreshAsk
<1>3. RequestsFollow /\ request' \in [Requests -> Requested \cup {Idle}]
  BY <1>1, <1>2, StartFollows DEF RefreshAsk
<1>4. refreshes' \in [Keys -> 0..MaxRefreshes]
  BY PaymentAssumption DEF RefreshAsk, IInv, TypeOK
<1>5. TableFits' /\ TableMoves /\ StatusesTold
  BY RowsStay DEF RefreshAsk
<1> QED BY <1>3, <1>4, <1>5, RequestStep DEF RefreshAsk

LEMMA DraftTransferKept ==
    ASSUME IInv, NEW r \in Requests, NEW k \in Keys, DraftTransfer(r, k)
    PROVE  IInv' /\ TableMoves
<1>1. RequestsFollow /\ request' \in [Requests -> Requested \cup {Idle}]
  BY StartFollows DEF DraftTransfer, Exists
<1>2. TableFits' /\ TableMoves /\ StatusesTold
  BY RowsStay DEF DraftTransfer
<1> QED BY <1>1, <1>2, WorkTyped, RequestStep DEF DraftTransfer, WorkTypes

LEMMA RequestEndsKept ==
    ASSUME IInv, NEW r \in Requests, RequestEnds(r)
    PROVE  IInv' /\ TableMoves
<1>1. RequestsFollow /\ request' \in [Requests -> Requested \cup {Idle}]
  BY DoneFollows DEF RequestEnds
<1>2. TableFits' /\ TableMoves /\ StatusesTold
  BY RowsStay DEF RequestEnds
<1> QED BY <1>1, <1>2, WorkTyped, RequestStep DEF RequestEnds, WorkTypes

LEMMA CreateOperationKept ==
    ASSUME IInv, NEW r \in Requests, CreateOperation(r)
    PROVE  IInv' /\ TableMoves
<1> DEFINE k == request[r].key
<1>1. request[r] # Idle /\ request[r].at = "cleared"
  BY DEF CreateOperation, Doing
<1>2. request[r] \in Requested /\ k \in Keys /\ Has(r, k)
  BY <1>1, RequestHolds
<1>3. UNCHANGED <<job, refreshes, transferred, remote, posts, event>>
  BY DEF CreateOperation
<1>4. /\ refreshes' \in [Keys -> 0..MaxRefreshes]
      /\ request \in [Requests -> Requested \cup {Idle}]
  BY <1>3, WorkTyped DEF WorkTypes
<1>5. ASSUME Becomes(r, "created"), row'[k].status # "none"
      PROVE  RequestsFollow /\ request' \in [Requests -> Requested \cup {Idle}]
  <2> DEFINE v == [request[r] EXCEPT !.at = "created"]
  <2>1. v \in Requested /\ v.at = "created" /\ v.key = k /\ v.says = request[r].says
    BY <1>2 DEF Requested
  <2>2. request' = [request EXCEPT ![r] = v]
    BY <1>5 DEF Becomes
  <2> HIDE DEF v
  <2>3. request[r].says # "silent" => event[k][request[r].says] # "unsent"
    BY <1>2 DEF IInv, WorkFits
  <2>4. TakesOn(v)
    BY <1>3, <1>5, <2>1, <2>3 DEF TakesOn, Begun
  <2>5. request'[r] = v /\ \A q \in Requests \ {r} : request'[q] = request[q]
    BY <1>4, <2>2
  <2> QED BY <1>4, <2>1, <2>2, <2>4, <2>5 DEF RequestsFollow
<1>6. CASE Exists(k) /\ UNCHANGED <<row, consumed>>
  <2>1. Becomes(r, "created") \/ Done(r)
    BY <1>6 DEF CreateOperation
  <2>2. RequestsFollow /\ request' \in [Requests -> Requested \cup {Idle}]
    BY <1>5, <1>6, <2>1, DoneFollows DEF Exists
  <2>3. TableFits' /\ TableMoves /\ StatusesTold
    BY <1>6, RowsStay
  <2> QED BY <1>3, <1>4, <2>2, <2>3, RequestStep
<1>7. CASE /\ ~Exists(k) /\ RoomUnderCap /\ QuoteIsFree(k) /\ Becomes(r, "created")
           /\ row' = [row EXCEPT ![k] = Created]
           /\ consumed' = [consumed EXCEPT ![QuoteOf[k]] = TRUE]
  <2>1. TableFits' /\ TableMoves
    BY <1>2, <1>7, TableGrows
  <2>2. row'[k].status = "created" /\ \A j \in Keys \ {k} : row'[j] = row[j]
    BY <1>2, <1>7 DEF IInv, TypeOK, Created
  <2>3. StatusesTold
    BY <2>2 DEF StatusesTold, Neutral
  <2>4. RequestsFollow /\ request' \in [Requests -> Requested \cup {Idle}]
    BY <1>5, <1>7, <2>2
  <2> QED BY <1>3, <1>4, <2>1, <2>3, <2>4, RequestStep
<1> QED BY <1>6, <1>7 DEF CreateOperation

\* The one request that finds the payment created may post it; no other has
\* got so far.
LEMMA BeginInitiationKept ==
    ASSUME IInv, NEW r \in Requests, BeginInitiation(r)
    PROVE  IInv' /\ TableMoves
<1> DEFINE k == request[r].key
<1>1. request[r] # Idle /\ request[r].at = "created"
  BY DEF BeginInitiation, Doing
<1>2. request[r] \in Requested /\ k \in Keys /\ Has(r, k) /\ Exists(k)
  BY <1>1, RequestHolds
<1>3. UNCHANGED <<consumed, job, refreshes, transferred, remote, posts, event>>
  BY DEF BeginInitiation
<1>4. /\ refreshes' \in [Keys -> 0..MaxRefreshes]
      /\ request \in [Requests -> Requested \cup {Idle}]
  BY <1>3, WorkTyped DEF WorkTypes
<1>5. CASE ~MayBegin(k)
  <2>1. RequestsFollow /\ request' \in [Requests -> Requested \cup {Idle}]
    BY <1>5, DoneFollows DEF BeginInitiation
  <2>2. TableFits' /\ TableMoves /\ StatusesTold
    BY <1>3, <1>5, RowsStay DEF BeginInitiation
  <2> QED BY <1>3, <1>4, <2>1, <2>2, RequestStep
<1>6. CASE MayBegin(k)
  <2> DEFINE v == [row[k] EXCEPT !.status = "initiating", !.named = TRUE, !.polls = TRUE]
             w == [request[r] EXCEPT !.at = "begun"]
  <2>1. row[k].status = "created" /\ row[k] \in Rows /\ KeepsOrder(row[k], row[k])
    BY <1>2, <1>6, RowTypes, OldRow DEF MayBegin, IInv
  <2>2. KeepsOrder(row[k], v)
    BY <2>1, BeginKeeps
  <2>3. v.status = "initiating"
    BY <2>1 DEF Rows
  <2>4. row' = [row EXCEPT ![k] = v] /\ request' = [request EXCEPT ![r] = w]
    BY <1>6 DEF BeginInitiation, Becomes
  <2>5. w \in Requested /\ w.at = "begun" /\ w.key = k /\ w.says = request[r].says
    BY <1>2 DEF Requested
  <2> HIDE DEF v, w
  <2>6. Truth(k, v.status)
    BY <2>3 DEF Truth, Neutral
  <2>7. TableFits' /\ TableMoves /\ StatusesTold
    BY <1>2, <1>3, <2>2, <2>4, <2>6, RowWritten
  <2>8. WorkTypes'
    BY <1>3, <1>4, <2>4, <2>5, WorkTyped DEF WorkTypes
  <2>9. WorldGrows
    BY <1>3, WorkStays
  <2>10. PostsFit' /\ NothingSynthesized'
    BY <1>3, <2>7, <2>9, PostsKept, ToldKept
  <2>11. /\ row'[k].status = "initiating" /\ \A j \in Keys \ {k} : row'[j] = row[j]
         /\ request'[r] = w /\ \A q \in Requests \ {r} : request'[q] = request[q]
    BY <1>2, <1>4, <2>3, <2>4 DEF IInv, TypeOK
  <2>12. posts[k] = 0 /\ \A q \in Requests : ~(Has(q, k) /\ request[q].at \in Begun)
    BY <1>2, <2>1 DEF IInv, PostsFit, WorkFits
  <2>13. ASSUME NEW q \in Requests, NEW j \in Keys, request'[q] # Idle, request'[q].key = j
         PROVE  /\ request'[q].at # "cleared" => row'[j].status # "none"
                /\ request'[q].at \in Begun => row'[j].status # "created"
                /\ request'[q].at \in Begun \ {"begun"} => posts[j] = 1
                /\ request'[q].at = "begun" =>
                      /\ posts[j] = 0
                      /\ \A p \in Requests : request'[p] # Idle /\ request'[p].key = j
                                             /\ request'[p].at \in Begun => p = q
                /\ request'[q].at = "rejected" => remote[j] = "none"
                /\ request'[q].at \in {"answered", "refreshing"} => request'[q].says # "silent"
                /\ request'[q].says # "silent" => event[j][request'[q].says] # "unsent"
    <3>1. CASE q = r
      <4>1. j = k
        BY <2>5, <2>11, <2>13, <3>1
      <4>2. request[r].says # "silent" => event[k][request[r].says] # "unsent"
        BY <1>2 DEF IInv, WorkFits
      <4>3. ASSUME NEW p \in Requests, p # r
            PROVE  ~(request'[p] # Idle /\ request'[p].key = k /\ request'[p].at \in Begun)
        BY <2>11, <2>12, <4>3 DEF Has
      <4> QED BY <2>5, <2>11, <2>12, <3>1, <4>1, <4>2, <4>3 DEF Begun
    <3>2. CASE q # r
      <4>1. request'[q] = request[q] /\ Has(q, j)
        BY <2>11, <2>13, <3>2 DEF Has
      <4>2. request[q].at \in Begun => j # k /\ row'[j] = row[j]
        BY <2>11, <2>12, <4>1
      <4>3. /\ request[q].at # "cleared" => Exists(j)
            /\ request[q].at \in Begun => row[j].status # "created"
            /\ request[q].at \in Begun \ {"begun"} => posts[j] = 1
            /\ request[q].at = "begun" =>
                  posts[j] = 0 /\ \A p \in Requests : Has(p, j) /\ request[p].at \in Begun => p = q
            /\ request[q].at = "rejected" => remote[j] = "none"
            /\ request[q].at \in {"answered", "refreshing"} => request[q].says # "silent"
            /\ request[q].says # "silent" => event[j][request[q].says] # "unsent"
        BY <4>1 DEF IInv, WorkFits
      <4>4. ASSUME NEW p \in Requests, j # k, request'[p] # Idle, request'[p].key = j
            PROVE  request'[p] = request[p] /\ Has(p, j)
        BY <2>5, <2>11, <4>4 DEF Has
      <4>5. Exists(j) => row'[j].status # "none"
        BY <2>7 DEF TableMoves
      <4> QED BY <4>1, <4>2, <4>3, <4>4, <4>5 DEF Begun
    <3> QED BY <3>1, <3>2
  <2>14. ASSUME NEW q \in Workers, NEW j \in Keys, job[q] # Idle, job[q].key = j
         PROVE  row'[j].status # "none" /\ (job[q].says # "silent" => event[j][job[q].says] # "unsent")
    BY <2>7, <2>14 DEF IInv, WorkFits, TableMoves
  <2>15. WorkFits'
    BY <1>3, <2>13, <2>14 DEF WorkFits, Has, Exists
  <2>16. TypeOK'
    BY <2>7, <2>8 DEF TableFits, WorkTypes, TypeOK
  <2> QED BY <2>7, <2>10, <2>15, <2>16 DEF IInv, TableFits
<1> QED BY <1>5, <1>6

\* The one who may post does, and has the right no more.
LEMMA PostInitiateKept ==
    ASSUME IInv, NEW r \in Requests, PostInitiate(r)
    PROVE  IInv' /\ TableMoves
<1> DEFINE k == request[r].key
<1>1. request[r] # Idle /\ request[r].at = "begun"
  BY DEF PostInitiate, Doing
<1>2. request[r] \in Requested /\ k \in Keys /\ Has(r, k) /\ Exists(k)
  BY <1>1, RequestHolds
<1>3. UNCHANGED <<row, consumed, job, refreshes, transferred>>
  BY DEF PostInitiate
<1>4. /\ posts[k] = 0 /\ row[k].status # "created"
      /\ \A q \in Requests \ {r} : ~(Has(q, k) /\ request[q].at \in Begun)
      /\ request[r].at \in {"answered", "refreshing"} => request[r].says # "silent"
      /\ request[r].says # "silent" => event[k][request[r].says] # "unsent"
  BY <1>1, <1>2 DEF IInv, WorkFits, Begun
<1>5. remote[k] = "none" /\ row[k].status # "failed" /\ \A s \in Announced : event[k][s] = "unsent"
  BY <1>2, <1>4 DEF IInv, PostsFit
<1>6. request[r].says = "silent"
  BY <1>2, <1>4, <1>5 DEF Requested
<1>7. \A word \in Announced : word # "silent"
  BY PaymentAssumption DEF ProviderStatuses
<1>8. posts'[k] = 1 /\ (\A j \in Keys \ {k} : posts'[j] = posts[j]) /\ posts' \in [Keys -> Nat]
  BY <1>2, <1>4, WorkTyped DEF PostInitiate, WorkTypes
<1>9. /\ remote' \in [Keys -> Announced \cup {"none"}]
      /\ event' \in [Keys -> [Announced -> {"unsent", "sent", "pending", "processed"}]]
      /\ \A j \in Keys \ {k} : remote'[j] = remote[j] /\ event'[j] = event[j]
      /\ remote'[k] # "none" => event'[k][remote'[k]] # "unsent"
  <2>1. CASE UNCHANGED <<remote, event>>
    BY <1>5, <2>1, WorkTyped DEF WorkTypes
  <2>2. CASE \E word \in Announced : /\ remote' = [remote EXCEPT ![k] = word]
                                     /\ event' = [event EXCEPT ![k][word] = "sent"]
    BY <1>2, <2>2, WorkTyped DEF WorkTypes
  <2> QED BY <2>1, <2>2 DEF PostInitiate
<1>10. \E v \in Requested :
          /\ request' = [request EXCEPT ![r] = v] /\ v.key = k
          /\ v.at \in {"answered", "uncertain", "rejected"}
          /\ v.at = "answered" => v.says # "silent"
          /\ v.at = "rejected" => remote'[k] = "none"
          /\ v.says # "silent" => event'[k][v.says] # "unsent"
  <2> DEFINE a(word) == [request[r] EXCEPT !.at = "answered", !.says = word]
             u == [request[r] EXCEPT !.at = "uncertain"]
             x == [request[r] EXCEPT !.at = "rejected"]
  <2>1. /\ \A word \in Announced :
              a(word) \in Requested /\ a(word).key = k /\ a(word).at = "answered"
              /\ a(word).says = word
        /\ u \in Requested /\ u.key = k /\ u.at = "uncertain" /\ u.says = "silent"
        /\ x \in Requested /\ x.key = k /\ x.at = "rejected" /\ x.says = "silent"
    BY <1>2, <1>6, <1>7 DEF Requested
  <2>2. CASE \E word \in Announced : /\ request' = [request EXCEPT ![r] = a(word)]
                                     /\ event' = [event EXCEPT ![k][word] = "sent"]
    <3> HIDE DEF a
    <3>1. PICK word \in Announced : /\ request' = [request EXCEPT ![r] = a(word)]
                                    /\ event' = [event EXCEPT ![k][word] = "sent"]
      BY <2>2
    <3>2. event'[k][word] = "sent"
      BY <1>2, <3>1, WorkTyped DEF WorkTypes
    <3> QED BY <1>7, <2>1, <3>1, <3>2
  <2>3. CASE request' = [request EXCEPT ![r] = u]
    <3> HIDE DEF u
    <3> QED BY <2>1, <2>3
  <2>4. CASE request' = [request EXCEPT ![r] = x] /\ UNCHANGED remote
    <3> HIDE DEF x
    <3> QED BY <1>5, <2>1, <2>4
  <2> QED BY <2>2, <2>3, <2>4 DEF PostInitiate, Becomes
<1>11. PICK v \in Requested :
          /\ request' = [request EXCEPT ![r] = v] /\ v.key = k
          /\ v.at \in {"answered", "uncertain", "rejected"}
          /\ v.at = "answered" => v.says # "silent"
          /\ v.at = "rejected" => remote'[k] = "none"
          /\ v.says # "silent" => event'[k][v.says] # "unsent"
  BY <1>10
<1>12. /\ request' \in [Requests -> Requested \cup {Idle}] /\ request'[r] = v
       /\ \A q \in Requests \ {r} : request'[q] = request[q]
  BY <1>11, WorkTyped DEF WorkTypes
<1>13. TableFits' /\ TableMoves
  BY <1>3, RowsStay
<1>14. ASSUME NEW j \in Keys, NEW s \in Announced, event[j][s] # "unsent"
       PROVE  event'[j][s] # "unsent"
  BY <1>5, <1>9, <1>14
<1>15. ASSUME NEW q \in Requests, NEW j \in Keys, request'[q] # Idle, request'[q].key = j
       PROVE  /\ request'[q].at # "cleared" => row[j].status # "none"
              /\ request'[q].at \in Begun => row[j].status # "created"
              /\ request'[q].at \in Begun \ {"begun"} => posts'[j] = 1
              /\ request'[q].at = "begun" =>
                    /\ posts'[j] = 0
                    /\ \A p \in Requests : request'[p] # Idle /\ request'[p].key = j
                                           /\ request'[p].at \in Begun => p = q
              /\ request'[q].at = "rejected" => remote'[j] = "none"
              /\ request'[q].at \in {"answered", "refreshing"} => request'[q].says # "silent"
              /\ request'[q].says # "silent" => event'[j][request'[q].says] # "unsent"
  <2>1. CASE q = r
    BY <1>2, <1>4, <1>8, <1>11, <1>12, <1>15, <2>1 DEF Exists
  <2>2. CASE q # r
    <3>1. request'[q] = request[q] /\ Has(q, j) /\ request[q].says \in Announced \cup {"silent"}
      BY <1>12, <1>15, <2>2, RequestHolds DEF Has, Requested
    <3>2. request[q].at \in Begun => j # k
      BY <1>4, <2>2, <3>1
    <3>3. /\ request[q].at # "cleared" => Exists(j)
          /\ request[q].at \in Begun => row[j].status # "created"
          /\ request[q].at \in Begun \ {"begun"} => posts[j] = 1
          /\ request[q].at = "begun" =>
                posts[j] = 0 /\ \A p \in Requests : Has(p, j) /\ request[p].at \in Begun => p = q
          /\ request[q].at = "rejected" => remote[j] = "none"
          /\ request[q].at \in {"answered", "refreshing"} => request[q].says # "silent"
          /\ request[q].says # "silent" => event[j][request[q].says] # "unsent"
      BY <3>1 DEF IInv, WorkFits
    <3>4. ASSUME NEW p \in Requests, j # k, request'[p] # Idle, request'[p].key = j
          PROVE  request'[p] = request[p] /\ Has(p, j)
      BY <1>11, <1>12, <3>4 DEF Has
    <3> QED BY <1>8, <1>9, <1>14, <3>1, <3>2, <3>3, <3>4 DEF Exists, Begun
  <2> QED BY <2>1, <2>2
<1>16. ASSUME NEW q \in Workers, NEW j \in Keys, job[q] # Idle, job[q].key = j
       PROVE  row[j].status # "none" /\ (job[q].says # "silent" => event'[j][job[q].says] # "unsent")
  <2>1. job[q].says \in Announced \cup {"silent"}
    BY <1>16, JobHolds DEF Jobs
  <2> QED BY <1>14, <1>16, <2>1, JobHolds DEF Exists
<1>17. WorkFits'
  BY <1>3, <1>15, <1>16 DEF WorkFits, Has, Exists
<1>18. PostsFit'
  BY <1>3, <1>2, <1>4, <1>8, <1>9 DEF IInv, PostsFit, Exists
<1>19. NothingSynthesized'
  <2>1. \A j \in Keys : row[j].status = "failed" /\ remote[j] = "none" => remote'[j] = "none"
    BY <1>5, <1>9
  <2>2. \A j \in Keys : \A status : Told(j, status) => \E s \in Announced :
              event'[j][s] # "unsent" /\ normalizeProviderStatus(s, KindOf(j)) = status
    BY <1>14 DEF Told
  <2> QED BY <1>3, <2>1, <2>2 DEF IInv, NothingSynthesized, Told
<1>20. TypeOK'
  BY <1>3, <1>8, <1>9, <1>12 DEF IInv, TypeOK
<1> QED BY <1>13, <1>17, <1>18, <1>19, <1>20 DEF IInv, TableFits

\* A word that was announced is true of the payment.
LEMMA WordIsTrue ==
    ASSUME IInv, NEW k \in Keys, NEW word \in Announced, event[k][word] # "unsent"
    PROVE  /\ Truth(k, normalizeProviderStatus(word, KindOf(k)))
           /\ normalizeProviderStatus(word, KindOf(k)) \in Statuses
           /\ normalizeProviderStatus(word, KindOf(k)) # "created"
  BY WordTypes DEF Truth

LEMMA CompleteInitiationKept ==
    ASSUME IInv, NEW r \in Requests, CompleteInitiation(r)
    PROVE  IInv' /\ TableMoves
<1> DEFINE k == request[r].key
           next == normalizeProviderStatus(request[r].says, KindOf(k))
           v == [Following(row[k], next, TRUE) EXCEPT !.tries = 0]
<1>1. request[r] # Idle /\ request[r].at = "answered"
  BY DEF CompleteInitiation, Doing
<1>2. request[r] \in Requested /\ k \in Keys /\ Has(r, k) /\ Exists(k)
  BY <1>1, RequestHolds
<1>3. request[r].says \in Announced /\ event[k][request[r].says] # "unsent"
  BY <1>1, <1>2 DEF IInv, WorkFits, Requested
<1>4. Truth(k, next) /\ next \in Statuses /\ next # "created"
  BY <1>2, <1>3, WordIsTrue
<1>5. row[k] \in Rows /\ KeepsOrder(row[k], row[k])
  BY <1>2, RowTypes, OldRow DEF IInv
<1>6. canTransitionPayment(row[k].status, next) /\ row' = [row EXCEPT ![k] = v]
  BY DEF CompleteInitiation
<1>7. KeepsOrder(row[k], v)
  BY <1>4, <1>5, <1>6, FollowingKeeps
<1>8. v.status = next
  BY <1>5 DEF Following, Rows
<1> HIDE DEF v
<1>9. TableFits' /\ TableMoves /\ StatusesTold
  BY <1>2, <1>4, <1>6, <1>7, <1>8, RowWritten DEF CompleteInitiation
<1>10. RequestsFollow /\ request' \in [Requests -> Requested \cup {Idle}]
  BY DoneFollows DEF CompleteInitiation
<1> QED BY <1>9, <1>10, WorkTyped, RequestStep DEF CompleteInitiation, WorkTypes

\* A payment is failed here only when the provider rejected it.
LEMMA RecordInitiationFailureKept ==
    ASSUME IInv, NEW r \in Requests, RecordInitiationFailure(r)
    PROVE  IInv' /\ TableMoves
<1> DEFINE k == request[r].key
           next == StatusAfterFailure(request[r].at)
           v == [row[k] EXCEPT !.status = next, !.tries = 0, !.polls = (next = "unknown")]
<1>1. request[r] # Idle /\ request[r].at \in {"uncertain", "rejected"}
  BY DEF RecordInitiationFailure, Doing
<1>2. request[r] \in Requested /\ k \in Keys /\ Has(r, k) /\ Exists(k)
  BY <1>1, RequestHolds
<1>3. next \in {"unknown", "failed"} /\ (next = "failed" => request[r].at = "rejected")
  BY <1>1 DEF StatusAfterFailure
<1>4. posts[k] = 1 /\ (request[r].at = "rejected" => remote[k] = "none")
  BY <1>1, <1>2 DEF IInv, WorkFits, Begun
<1>5. Truth(k, next)
  BY <1>3, <1>4 DEF Truth, Neutral
<1>6. RequestsFollow /\ request' \in [Requests -> Requested \cup {Idle}]
  BY DoneFollows DEF RecordInitiationFailure
<1>7. CASE row[k].status = "initiating"
  <2>1. row[k] \in Rows /\ KeepsOrder(row[k], row[k])
    BY <1>2, RowTypes, OldRow DEF IInv
  <2>2. KeepsOrder(row[k], v)
    BY <1>3, <1>7, <2>1, FailureKeeps
  <2>3. v.status = next
    BY <2>1 DEF Rows
  <2>4. row' = [row EXCEPT ![k] = v]
    BY <1>7 DEF RecordInitiationFailure
  <2> HIDE DEF v, next
  <2>5. TableFits' /\ TableMoves /\ StatusesTold
    BY <1>2, <1>5, <2>2, <2>3, <2>4, RowWritten DEF RecordInitiationFailure
  <2> QED BY <1>6, <2>5, WorkTyped, RequestStep DEF RecordInitiationFailure, WorkTypes
<1>8. CASE row[k].status # "initiating"
  <2>1. UNCHANGED row
    BY <1>8 DEF RecordInitiationFailure
  <2>2. TableFits' /\ TableMoves /\ StatusesTold
    BY <2>1, RowsStay DEF RecordInitiationFailure
  <2> QED BY <1>6, <2>2, WorkTyped, RequestStep DEF RecordInitiationFailure, WorkTypes
<1> QED BY <1>7, <1>8

LEMMA RefreshApplyKept ==
    ASSUME IInv, NEW r \in Requests, RefreshApply(r)
    PROVE  IInv' /\ TableMoves
<1> DEFINE k == request[r].key
           next == normalizeProviderStatus(request[r].says, KindOf(k))
           v == [Following(row[k], next, request[r].details) EXCEPT !.tries = 0, !.leased = FALSE]
<1>1. request[r] # Idle /\ request[r].at = "refreshing"
  BY DEF RefreshApply, Doing
<1>2. request[r] \in Requested /\ k \in Keys /\ Has(r, k) /\ Exists(k)
  BY <1>1, RequestHolds
<1>3. request[r].says \in Announced /\ event[k][request[r].says] # "unsent"
  BY <1>1, <1>2 DEF IInv, WorkFits, Requested
<1>4. Truth(k, next) /\ next \in Statuses /\ next # "created"
  BY <1>2, <1>3, WordIsTrue
<1>5. row[k] \in Rows /\ KeepsOrder(row[k], row[k]) /\ request[r].details \in BOOLEAN
  BY <1>2, RowTypes, OldRow DEF IInv, Requested
<1>6. RequestsFollow /\ request' \in [Requests -> Requested \cup {Idle}]
  BY DoneFollows DEF RefreshApply
<1>7. CASE canTransitionPayment(row[k].status, next)
  <2>1. row' = [row EXCEPT ![k] = v]
    BY <1>7 DEF RefreshApply
  <2>2. KeepsOrder(row[k], v)
    BY <1>4, <1>5, <1>7, FollowingKeeps
  <2>3. v.status = next
    BY <1>5 DEF Following, Rows
  <2> HIDE DEF v
  <2>4. TableFits' /\ TableMoves /\ StatusesTold
    BY <1>2, <1>4, <2>1, <2>2, <2>3, RowWritten DEF RefreshApply
  <2> QED BY <1>6, <2>4, WorkTyped, RequestStep DEF RefreshApply, WorkTypes
<1>8. CASE ~canTransitionPayment(row[k].status, next)
  <2>1. UNCHANGED row
    BY <1>8 DEF RefreshApply
  <2>2. TableFits' /\ TableMoves /\ StatusesTold
    BY <2>1, RowsStay DEF RefreshApply
  <2> QED BY <1>6, <2>2, WorkTyped, RequestStep DEF RefreshApply, WorkTypes
<1> QED BY <1>7, <1>8

LEMMA BindTransferKept ==
    ASSUME IInv, NEW r \in Requests, BindTransfer(r)
    PROVE  IInv' /\ TableMoves
<1> DEFINE k == request[r].key
           v == [row[k] EXCEPT !.bound = TRUE]
<1>1. request[r] # Idle /\ request[r].at = "drafted"
  BY DEF BindTransfer, Doing
<1>2. request[r] \in Requested /\ k \in Keys /\ Has(r, k) /\ Exists(k)
  BY <1>1, RequestHolds
<1>3. row[k] \in Rows /\ KeepsOrder(row[k], row[k])
  BY <1>2, RowTypes, OldRow DEF IInv
<1>4. KeepsOrder(row[k], v)
  BY <1>3, LeasesKeep
<1>5. v.status = row[k].status
  BY <1>3 DEF Rows
<1>6. row' = [row EXCEPT ![k] = v]
  BY DEF BindTransfer
<1> HIDE DEF v
<1>7. TableFits' /\ TableMoves /\ StatusesTold
  BY <1>2, <1>4, <1>5, <1>6, RowWritten DEF BindTransfer, Truth
<1>8. RequestsFollow /\ request' \in [Requests -> Requested \cup {Idle}]
  BY DoneFollows DEF BindTransfer
<1> QED BY <1>7, <1>8, WorkTyped, RequestStep DEF BindTransfer, WorkTypes

-----------------------------------------------------------------------------
(* The provider, its webhooks and the chain. *)

LEMMA RemoteMovesKept ==
    ASSUME IInv, NEW k \in Keys, NEW s \in Announced, RemoteMoves(k, s)
    PROVE  IInv' /\ TableMoves
<1>1. WorkTypes'
  BY WorkTyped DEF RemoteMoves, WorkTypes
<1>2. /\ remote[k] # "none" /\ posts[k] # 0
      /\ remote' = [remote EXCEPT ![k] = s] /\ event' = [event EXCEPT ![k][s] = "sent"]
      /\ UNCHANGED posts
  BY DEF RemoteMoves, IInv, PostsFit
<1>3. WorldGrows
  <2>1. \A j \in Keys \ {k} : remote'[j] = remote[j] /\ event'[j] = event[j]
    BY <1>2, WorkTyped DEF WorkTypes
  <2>2. /\ remote'[k] = s /\ event'[k][s] = "sent"
        /\ \A t \in Announced \ {s} : event'[k][t] = event[k][t]
    BY <1>2, WorkTyped DEF WorkTypes
  <2>3. \A j \in Keys : remote[j] # "none" => event[j][remote[j]] # "unsent"
    BY DEF IInv, PostsFit
  <2> QED BY <1>2, <2>1, <2>2, <2>3 DEF WorldGrows
<1>4. TableFits' /\ TableMoves /\ StatusesTold
  BY RowsStay DEF RemoteMoves
<1> QED BY <1>1, <1>3, <1>4, WorldStep DEF RemoteMoves

\* An announcement that moves on from one state to the next was sent before.
LEMMA EventGrows ==
    ASSUME IInv, NEW k \in Keys, NEW s \in Announced, event[k][s] # "unsent",
           NEW to \in {"pending", "processed"}, event' = [event EXCEPT ![k][s] = to],
           UNCHANGED <<request, job, refreshes, transferred, remote, posts>>
    PROVE  WorldGrows /\ WorkTypes'
<1>1. WorkTypes'
  BY WorkTyped DEF WorkTypes
<1>2. /\ \A j \in Keys \ {k} : event'[j] = event[j]
      /\ event'[k][s] = to /\ \A t \in Announced \ {s} : event'[k][t] = event[k][t]
  BY WorkTyped DEF WorkTypes
<1>3. \A j \in Keys : remote[j] # "none" => event[j][remote[j]] # "unsent" /\ remote[j] \in Announced
  BY WorkTyped DEF IInv, PostsFit, WorkTypes
<1>4. WorldGrows
  BY <1>2, <1>3 DEF WorldGrows
<1> QED BY <1>1, <1>4

LEMMA DeliverKept ==
    ASSUME IInv, NEW k \in Keys, NEW s \in Announced, Deliver(k, s)
    PROVE  IInv' /\ TableMoves
<1>1. WorldGrows /\ WorkTypes'
  BY EventGrows DEF Deliver
<1>2. TableFits' /\ TableMoves /\ StatusesTold
  BY RowsStay DEF Deliver
<1> QED BY <1>1, <1>2, WorldStep DEF Deliver

LEMMA ProcessEventKept ==
    ASSUME IInv, NEW k \in Keys, NEW s \in Announced, ProcessEvent(k, s)
    PROVE  IInv' /\ TableMoves
<1> DEFINE next == normalizeProviderStatus(s, KindOf(k))
           v == [row[k] EXCEPT !.status = next, !.tries = 0, !.polls = ~isPaymentTerminal(next)]
<1>1. event[k][s] # "unsent"
  BY DEF ProcessEvent
<1>2. WorldGrows /\ WorkTypes'
  BY <1>1, EventGrows DEF ProcessEvent
<1>3. Truth(k, next) /\ next \in Statuses /\ next # "created"
  BY <1>1, WordIsTrue
<1>4. CASE next # row[k].status /\ canTransitionPayment(row[k].status, next)
  <2>1. Exists(k)
    <3>1. event[k][s] = "pending" /\ posts[k] # 0
      BY <1>1 DEF ProcessEvent, IInv, PostsFit
    <3> QED BY <3>1 DEF IInv, PostsFit, Exists
  <2>2. row[k] \in Rows /\ KeepsOrder(row[k], row[k])
    BY <2>1, RowTypes, OldRow DEF IInv
  <2>3. row' = [row EXCEPT ![k] = v]
    BY <1>4 DEF ProcessEvent
  <2>4. KeepsOrder(row[k], v)
    <3>1. TRUE \in BOOLEAN
      OBVIOUS
    <3> QED BY <1>3, <1>4, <2>2, <3>1, FollowingKeeps
  <2>5. v.status = next
    BY <2>2 DEF Rows
  <2> HIDE DEF v
  <2>6. TableFits' /\ TableMoves /\ StatusesTold
    BY <1>3, <2>1, <2>3, <2>4, <2>5, RowWritten DEF ProcessEvent
  <2> QED BY <1>2, <2>6, WorldStep DEF ProcessEvent
<1>5. CASE ~(next # row[k].status /\ canTransitionPayment(row[k].status, next))
  <2>1. UNCHANGED row
    BY <1>5 DEF ProcessEvent
  <2>2. TableFits' /\ TableMoves /\ StatusesTold
    BY <2>1, RowsStay DEF ProcessEvent
  <2> QED BY <1>2, <2>2, WorldStep DEF ProcessEvent
<1> QED BY <1>4, <1>5

LEMMA TransferConfirmsKept ==
    ASSUME IInv, NEW k \in Keys, TransferConfirms(k)
    PROVE  IInv' /\ TableMoves
<1>1. WorldGrows
  BY WorkStays DEF TransferConfirms
<1>2. WorkTypes'
  BY WorkTyped DEF TransferConfirms, WorkTypes
<1>3. TableFits' /\ TableMoves /\ StatusesTold
  BY RowsStay DEF TransferConfirms
<1> QED BY <1>1, <1>2, <1>3, WorldStep DEF TransferConfirms

LEMMA LeaseLapsesKept ==
    ASSUME IInv, NEW k \in Keys, LeaseLapses(k) \/ ConfirmLeaseLapses(k)
    PROVE  IInv' /\ TableMoves
<1>1. UNCHANGED <<consumed, request, job, refreshes, transferred, remote, posts, event>>
  BY DEF LeaseLapses, ConfirmLeaseLapses
<1>2. Exists(k)
  BY RowTypes DEF LeaseLapses, ConfirmLeaseLapses, IInv
<1>3. row[k] \in Rows /\ KeepsOrder(row[k], row[k])
  BY <1>2, RowTypes, OldRow DEF IInv
<1>4. PICK v \in {[row[k] EXCEPT !.leased = FALSE], [row[k] EXCEPT !.confirmLeased = FALSE]} :
         row' = [row EXCEPT ![k] = v]
  BY DEF LeaseLapses, ConfirmLeaseLapses
<1>5. KeepsOrder(row[k], v)
  BY <1>3, LeasesKeep
<1>6. v.status = row[k].status
  BY <1>3 DEF Rows
<1>7. TableFits' /\ TableMoves /\ StatusesTold
  BY <1>1, <1>2, <1>4, <1>5, <1>6, RowWritten DEF Truth
<1>8. WorldGrows /\ WorkTypes'
  BY <1>1, WorkStays, WorkTyped DEF WorkTypes
<1> QED BY <1>1, <1>7, <1>8, WorldStep

-----------------------------------------------------------------------------
(* The workers. *)

LEMMA FindTransferKept ==
    ASSUME IInv, NEW w \in Workers, NEW k \in Keys, FindTransfer(w, k)
    PROVE  IInv' /\ TableMoves
<1>1. 0 \in 0..MaxAttempts
  BY PaymentAssumption
<1>2. JobsFollow /\ job' \in [Workers -> Jobs \cup {Idle}]
  BY <1>1, TakesFollows DEF FindTransfer
<1>3. TableFits' /\ TableMoves /\ StatusesTold
  BY RowsStay DEF FindTransfer
<1> QED BY <1>2, <1>3, WorkerStep DEF FindTransfer

LEMMA LinkTransferKept ==
    ASSUME IInv, NEW w \in Workers, LinkTransfer(w)
    PROVE  IInv' /\ TableMoves
<1> DEFINE k == job[w].key
           v == [row[k] EXCEPT !.status = "chain_submitted", !.linked = TRUE, !.confirms = TRUE,
                               !.confirmTries = 0, !.acknowledged = FALSE, !.polls = TRUE]
<1>1. k \in Keys /\ Exists(k)
  BY JobHolds DEF LinkTransfer, Working
<1>2. JobsFollow /\ job' \in [Workers -> Jobs \cup {Idle}]
  BY JobDoneFollows DEF LinkTransfer
<1>3. CASE MayLink(k)
  <2>1. row[k] \in Rows /\ KeepsOrder(row[k], row[k])
    BY <1>1, RowTypes, OldRow DEF IInv
  <2>2. row' = [row EXCEPT ![k] = v]
    BY <1>3 DEF LinkTransfer
  <2>3. KeepsOrder(row[k], v)
    BY <1>3, <2>1, LinkKeeps DEF MayLink
  <2>4. v.status = "chain_submitted"
    BY <2>1 DEF Rows
  <2> HIDE DEF v
  <2>5. Truth(k, v.status)
    BY <2>4 DEF Truth, Neutral
  <2>6. TableFits' /\ TableMoves /\ StatusesTold
    BY <1>1, <2>2, <2>3, <2>5, RowWritten DEF LinkTransfer
  <2> QED BY <1>2, <2>6, WorkerStep DEF LinkTransfer
<1>4. CASE ~MayLink(k)
  <2>1. UNCHANGED row
    BY <1>4 DEF LinkTransfer
  <2>2. TableFits' /\ TableMoves /\ StatusesTold
    BY <2>1, RowsStay DEF LinkTransfer
  <2> QED BY <1>2, <2>2, WorkerStep DEF LinkTransfer
<1> QED BY <1>3, <1>4

LEMMA ClaimConfirmKept ==
    ASSUME IInv, NEW w \in Workers, NEW k \in Keys, ClaimConfirm(w, k)
    PROVE  IInv' /\ TableMoves
<1> DEFINE v == [row[k] EXCEPT !.confirmLeased = TRUE]
<1>1. Exists(k) /\ row[k].confirms /\ row[k].confirmTries < MaxAttempts
  BY RowTypes DEF ClaimConfirm, ConfirmIsDue, IInv, RowsFit
<1>2. row[k] \in Rows /\ KeepsOrder(row[k], row[k])
  BY <1>1, RowTypes, OldRow DEF IInv
<1>3. row[k].confirmTries \in 0..MaxAttempts
  BY <1>2 DEF Rows
<1>4. row[k].confirmTries + 1 \in 0..MaxAttempts
  BY <1>1, <1>3, PaymentAssumption
<1>5. row' = [row EXCEPT ![k] = v]
  BY DEF ClaimConfirm
<1>6. KeepsOrder(row[k], v)
  BY <1>2, LeasesKeep
<1>7. v.status = row[k].status
  BY <1>2 DEF Rows
<1> HIDE DEF v
<1>8. TableFits' /\ TableMoves /\ StatusesTold
  BY <1>1, <1>5, <1>6, <1>7, RowWritten DEF ClaimConfirm, Truth
<1>9. row'[k].status # "none"
  BY <1>1, <1>8 DEF TableMoves
<1>10. JobsFollow /\ job' \in [Workers -> Jobs \cup {Idle}]
  BY <1>4, <1>9, TakesFollows DEF ClaimConfirm
<1> QED BY <1>8, <1>10, WorkerStep DEF ClaimConfirm

LEMMA ClaimPollKept ==
    ASSUME IInv, NEW w \in Workers, NEW k \in Keys, ClaimPoll(w, k)
    PROVE  IInv' /\ TableMoves
<1> DEFINE v == [row[k] EXCEPT !.leased = TRUE]
           attempt == IF row[k].tries < MaxAttempts THEN row[k].tries + 1 ELSE MaxAttempts
<1>1. Exists(k)
  BY RowTypes DEF ClaimPoll, IInv
<1>2. row[k] \in Rows /\ KeepsOrder(row[k], row[k])
  BY <1>1, RowTypes, OldRow DEF IInv
<1>3. row[k].tries \in 0..MaxAttempts
  BY <1>2 DEF Rows
<1>4. attempt \in 0..MaxAttempts
  BY <1>3, PaymentAssumption
<1>5. row' = [row EXCEPT ![k] = v]
  BY DEF ClaimPoll
<1>6. KeepsOrder(row[k], v)
  BY <1>2, LeasesKeep
<1>7. v.status = row[k].status
  BY <1>2 DEF Rows
<1> HIDE DEF v
<1>8. TableFits' /\ TableMoves /\ StatusesTold
  BY <1>1, <1>5, <1>6, <1>7, RowWritten DEF ClaimPoll, Truth
<1>9. row'[k].status # "none"
  BY <1>1, <1>8 DEF TableMoves
<1>10. JobsFollow /\ job' \in [Workers -> Jobs \cup {Idle}]
  <2>1. Takes(w, "polling", k, attempt)
    BY DEF ClaimPoll
  <2> HIDE DEF attempt
  <2> QED BY <1>4, <1>9, <2>1, TakesFollows
<1> QED BY <1>8, <1>10, WorkerStep DEF ClaimPoll

\* A worker goes on with the row it has, having heard nothing or what the
\* provider says.
LEMMA JobGoesOn ==
    ASSUME IInv, NEW w \in Workers, job[w] # Idle, NEW v \in Jobs, v.key = job[w].key,
           job' = [job EXCEPT ![w] = v], UNCHANGED <<row, event>>,
           v.says \in {"silent", job[w].says} \/ v.says = remote[v.key]
    PROVE  JobsFollow /\ job' \in [Workers -> Jobs \cup {Idle}]
<1>1. /\ Exists(v.key) /\ v.key \in Keys
      /\ job[w].says # "silent" => event[v.key][job[w].says] # "unsent"
  BY JobHolds
<1>2. v.says # "silent" => event[v.key][v.says] # "unsent"
  <2>1. v.says # "none"
    BY PaymentAssumption DEF Jobs, ProviderStatuses
  <2>2. v.says = remote[v.key] => event[v.key][v.says] # "unsent"
    BY <1>1, <2>1 DEF IInv, PostsFit
  <2> QED BY <1>1, <2>2
<1>3. job \in [Workers -> Jobs \cup {Idle}]
  BY DEF IInv, TypeOK
<1>4. job'[w] = v /\ \A q \in Workers \ {w} : job'[q] = job[q]
  BY <1>3
<1> QED BY <1>1, <1>2, <1>3, <1>4 DEF JobsFollow, Exists

LEMMA PostConfirmKept ==
    ASSUME IInv, NEW w \in Workers, PostConfirm(w)
    PROVE  IInv' /\ TableMoves
<1>1. PICK answer \in {"accepted", "refused"} : job' = [job EXCEPT ![w].at = answer]
  BY DEF PostConfirm
<1> DEFINE v == [job[w] EXCEPT !.at = answer]
<1>2. job[w] # Idle /\ job[w] \in Jobs
  BY JobHolds DEF PostConfirm, Working
<1>3. v \in Jobs /\ v.key = job[w].key /\ v.says = job[w].says
  BY <1>2 DEF Jobs
<1>4. job' = [job EXCEPT ![w] = v]
  BY <1>1
<1> HIDE DEF v
<1>5. JobsFollow /\ job' \in [Workers -> Jobs \cup {Idle}]
  BY <1>2, <1>3, <1>4, JobGoesOn DEF PostConfirm
<1>6. TableFits' /\ TableMoves /\ StatusesTold
  BY RowsStay DEF PostConfirm
<1> QED BY <1>5, <1>6, WorkerStep DEF PostConfirm

LEMMA RecordConfirmKept ==
    ASSUME IInv, NEW w \in Workers, RecordConfirm(w)
    PROVE  IInv' /\ TableMoves
<1> DEFINE k == job[w].key
           attempt == job[w].attempt
           tried == [row[k] EXCEPT !.confirmTries = attempt, !.confirmLeased = FALSE]
           yes == [tried EXCEPT !.acknowledged = TRUE, !.confirms = FALSE]
           no == NotConfirmed(tried, attempt)
<1>1. job[w] # Idle
  BY DEF RecordConfirm, Working
<1>2. k \in Keys /\ Exists(k) /\ attempt \in 0..MaxAttempts
  BY <1>1, JobHolds DEF Jobs
<1>3. JobsFollow /\ job' \in [Workers -> Jobs \cup {Idle}]
  BY JobDoneFollows DEF RecordConfirm
<1>4. row[k] \in Rows /\ KeepsOrder(row[k], row[k])
  BY <1>2, RowTypes, OldRow DEF IInv
<1>5. KeepsOrder(row[k], yes) /\ KeepsOrder(row[k], no) /\ no.status \in {row[k].status, "manual_review"}
  BY <1>2, <1>4, ConfirmKeeps
<1>6. yes.status = row[k].status
  BY <1>4 DEF Rows
<1>7. row' = [row EXCEPT ![k] = yes] \/ row' = [row EXCEPT ![k] = no]
  BY DEF RecordConfirm
<1>8. Truth(k, yes.status) /\ Truth(k, no.status)
  BY <1>5, <1>6 DEF Truth, Neutral
<1> HIDE DEF yes, no
<1>9. TableFits' /\ TableMoves /\ StatusesTold
  BY <1>2, <1>5, <1>7, <1>8, RowWritten DEF RecordConfirm
<1> QED BY <1>3, <1>9, WorkerStep DEF RecordConfirm

LEMMA AskStatusKept ==
    ASSUME IInv, NEW w \in Workers, AskStatus(w)
    PROVE  IInv' /\ TableMoves
<1> DEFINE k == job[w].key
<1>1. job[w] # Idle /\ job[w] \in Jobs /\ k \in Keys
  BY JobHolds DEF AskStatus, Working
<1>2. remote[k] \in Announced \cup {"none"}
  BY <1>1, WorkTyped DEF WorkTypes
<1>3. \E v \in Jobs : /\ v.key = job[w].key /\ job' = [job EXCEPT ![w] = v]
                      /\ v.says \in {"silent", job[w].says} \/ v.says = remote[v.key]
  <2>1. CASE job' = [job EXCEPT ![w].at = "asked"]
    <3> DEFINE v == [job[w] EXCEPT !.at = "asked"]
    <3>1. v \in Jobs /\ v.key = k /\ v.says = job[w].says
      BY <1>1 DEF Jobs
    <3>2. job' = [job EXCEPT ![w] = v]
      BY <2>1
    <3> HIDE DEF v
    <3> QED BY <3>1, <3>2
  <2>2. ASSUME NEW details \in BOOLEAN, remote[k] # "none",
               job' = [job EXCEPT ![w].at = "asked", ![w].says = remote[k], ![w].details = details]
        PROVE  \E v \in Jobs : /\ v.key = job[w].key /\ job' = [job EXCEPT ![w] = v]
                               /\ v.says \in {"silent", job[w].says} \/ v.says = remote[v.key]
    <3> DEFINE v == [job[w] EXCEPT !.at = "asked", !.says = remote[k], !.details = details]
    <3>1. v \in Jobs /\ v.key = k /\ v.says = remote[k]
      BY <1>1, <1>2, <2>2 DEF Jobs
    <3>2. job' = [job EXCEPT ![w] = v]
      BY <1>1, <2>2
    <3> HIDE DEF v
    <3> QED BY <3>1, <3>2
  <2> QED BY <2>1, <2>2 DEF AskStatus
<1>4. JobsFollow /\ job' \in [Workers -> Jobs \cup {Idle}]
  BY <1>1, <1>3, JobGoesOn DEF AskStatus
<1>5. TableFits' /\ TableMoves /\ StatusesTold
  BY RowsStay DEF AskStatus
<1> QED BY <1>4, <1>5, WorkerStep DEF AskStatus

LEMMA RecordPollKept ==
    ASSUME IInv, NEW w \in Workers, RecordPoll(w)
    PROVE  IInv' /\ TableMoves
<1> DEFINE k == job[w].key
           said == IF job[w].says = "silent" THEN row[k].status
                   ELSE normalizeProviderStatus(job[w].says, KindOf(k))
           next == IF job[w].attempt = MaxAttempts /\ ~isPaymentTerminal(said)
                   THEN "manual_review" ELSE said
           moved == IF canTransitionPayment(row[k].status, next) THEN next ELSE row[k].status
           v == Polled(row[k], next, moved, job[w].attempt, job[w].details)
<1>1. job[w] # Idle
  BY DEF RecordPoll, Working
<1>2. /\ k \in Keys /\ Exists(k) /\ job[w].attempt \in 0..MaxAttempts /\ job[w].details \in BOOLEAN
      /\ job[w].says \in Announced \cup {"silent"}
      /\ job[w].says # "silent" => event[k][job[w].says] # "unsent"
  BY <1>1, JobHolds DEF Jobs
<1>3. JobsFollow /\ job' \in [Workers -> Jobs \cup {Idle}]
  BY JobDoneFollows DEF RecordPoll
<1>4. row[k] \in Rows /\ KeepsOrder(row[k], row[k]) /\ row[k].status \in Statuses
  BY <1>2, RowTypes, OldRow DEF IInv, Rows
<1>5. Truth(k, said) /\ said \in Statuses /\ (said # "created" \/ row[k].status = "created")
  <2>1. CASE job[w].says = "silent"
    BY <1>4, <2>1 DEF Truth
  <2>2. CASE job[w].says # "silent"
    BY <1>2, <2>2, WordIsTrue
  <2> QED BY <2>1, <2>2
<1>6. Truth(k, next) /\ next \in Statuses /\ (next # "created" \/ row[k].status = "created")
  BY <1>5 DEF Truth, Neutral, Statuses
<1>7. row' = [row EXCEPT ![k] = v]
  BY DEF RecordPoll
<1> HIDE DEF said, next
<1>8. KeepsOrder(row[k], v) /\ v.status = moved
  BY <1>2, <1>4, <1>6, PollKeeps
<1>9. Truth(k, v.status)
  BY <1>6, <1>8 DEF Truth
<1> HIDE DEF v
<1>10. TableFits' /\ TableMoves /\ StatusesTold
  BY <1>2, <1>7, <1>8, <1>9, RowWritten DEF RecordPoll
<1> QED BY <1>3, <1>10, WorkerStep DEF RecordPoll

LEMMA WorkerDiesKept ==
    ASSUME IInv, NEW w \in Workers, WorkerDies(w)
    PROVE  IInv' /\ TableMoves
<1>1. JobsFollow /\ job' \in [Workers -> Jobs \cup {Idle}]
  BY JobDoneFollows DEF WorkerDies
<1>2. TableFits' /\ TableMoves /\ StatusesTold
  BY RowsStay DEF WorkerDies
<1> QED BY <1>1, <1>2, WorkerStep DEF WorkerDies

-----------------------------------------------------------------------------
(* The theorems. *)

LEMMA InitInv == Init => IInv
<1> SUFFICES ASSUME Init PROVE IInv
  OBVIOUS
<1>1. 0 \in 0..MaxAttempts /\ 0 \in 0..MaxRefreshes /\ 0 \in Nat
  BY PaymentAssumption
<1>2. \A k \in Keys : row[k] = NoRow
  BY DEF Init
<1>3. /\ NoRow.status = "none" /\ ~NoRow.named /\ ~NoRow.confirms /\ ~NoRow.linked
  BY DEF NoRow, Created
<1>4. \A k \in Keys : ~Exists(k) /\ ~Active(k)
  BY <1>2, <1>3 DEF Exists, Active
<1>5. TypeOK
  BY <1>1 DEF Init, TypeOK
<1>6. RowsFit /\ ConfirmsUntilAcknowledged
  BY <1>2, <1>3, <1>4 DEF RowsFit, ConfirmsUntilAcknowledged
<1>7. PollsUntilTerminal /\ QuoteBacksOneOperation
  BY <1>4 DEF PollsUntilTerminal, QuoteBacksOneOperation
<1>8. ActiveWithinCap
  <2>1. {k \in Keys : Active(k)} = {}
    BY <1>4
  <2> QED BY <2>1, FS_EmptySet, PaymentAssumption DEF ActiveWithinCap
<1>9. WorkFits
  BY DEF Init, WorkFits, Has
<1>10. PostsFit
  BY <1>2, <1>3 DEF Init, PostsFit
<1>11. NothingSynthesized
  BY <1>2, <1>3 DEF NothingSynthesized
<1> QED BY <1>5, <1>6, <1>7, <1>8, <1>9, <1>10, <1>11 DEF IInv

LEMMA NextInv == IInv /\ [Next]_vars => IInv' /\ TableMoves
<1> SUFFICES ASSUME IInv, [Next]_vars PROVE IInv' /\ TableMoves
  OBVIOUS
<1>1. ASSUME NEW r \in Requests,
             \/ CreateOperation(r) \/ BeginInitiation(r) \/ PostInitiate(r)
             \/ CompleteInitiation(r) \/ RecordInitiationFailure(r) \/ RequestEnds(r)
             \/ RefreshApply(r) \/ BindTransfer(r)
             \/ \E k \in Keys : RequestReads(r, k) \/ RefreshAsk(r, k) \/ DraftTransfer(r, k)
      PROVE  IInv' /\ TableMoves
  BY <1>1, CreateOperationKept, BeginInitiationKept, PostInitiateKept, CompleteInitiationKept,
     RecordInitiationFailureKept, RequestEndsKept, RefreshApplyKept, BindTransferKept,
     RequestReadsKept, RefreshAskKept, DraftTransferKept
<1>2. ASSUME NEW k \in Keys,
             \/ TransferConfirms(k) \/ LeaseLapses(k) \/ ConfirmLeaseLapses(k)
             \/ \E s \in Announced : RemoteMoves(k, s) \/ Deliver(k, s) \/ ProcessEvent(k, s)
      PROVE  IInv' /\ TableMoves
  BY <1>2, TransferConfirmsKept, LeaseLapsesKept, RemoteMovesKept, DeliverKept, ProcessEventKept
<1>3. ASSUME NEW w \in Workers,
             \/ LinkTransfer(w) \/ PostConfirm(w) \/ RecordConfirm(w)
             \/ AskStatus(w) \/ RecordPoll(w) \/ WorkerDies(w)
             \/ \E k \in Keys : FindTransfer(w, k) \/ ClaimConfirm(w, k) \/ ClaimPoll(w, k)
      PROVE  IInv' /\ TableMoves
  BY <1>3, LinkTransferKept, PostConfirmKept, RecordConfirmKept, AskStatusKept, RecordPollKept,
     WorkerDiesKept, FindTransferKept, ClaimConfirmKept, ClaimPollKept
<1>4. CASE UNCHANGED vars
  <2>1. TableFits' /\ TableMoves /\ StatusesTold
    BY <1>4, RowsStay DEF vars
  <2>2. WorldGrows /\ WorkTypes'
    BY <1>4, WorkStays, WorkTyped DEF vars, WorkTypes
  <2> QED BY <1>4, <2>1, <2>2, WorldStep DEF vars
<1> QED BY <1>1, <1>2, <1>3, <1>4 DEF Next

\* Every reachable state satisfies the inductive invariant: rows, requests,
\* workers and provider stay in step whatever the order of their writes.
THEOREM Invariant == Spec => []IInv
  BY InitInv, NextInv, PTL DEF Spec

\* Every value stays in its type (the columns of payment_operations).
THEOREM TypeCorrect == Spec => []TypeOK
<1>1. IInv => TypeOK
  BY DEF IInv
<1> QED BY <1>1, Invariant, PTL

\* The provider is asked to start a payment at most once (beginInitiation).
THEOREM InitiatedOnceHolds == Spec => []InitiatedOnce
<1>1. IInv => InitiatedOnce
  BY DEF IInv, PostsFit, InitiatedOnce
<1> QED BY <1>1, Invariant, PTL

\* A quote is spent on at most one payment (createOperation).
THEOREM QuoteBacksOneHolds == Spec => []QuoteBacksOneOperation
<1>1. IInv => QuoteBacksOneOperation
  BY DEF IInv
<1> QED BY <1>1, Invariant, PTL

\* The payments under way never exceed the cap (createOperation).
THEOREM CapHolds == Spec => []ActiveWithinCap
<1>1. IInv => ActiveWithinCap
  BY DEF IInv
<1> QED BY <1>1, Invariant, PTL

\* What a payment is said to have reached was announced, and a lost answer
\* fails nothing (normalizeProviderStatus, recordInitiationFailure).
THEOREM NothingSynthesizedHolds == Spec => []NothingSynthesized
<1>1. IInv => NothingSynthesized
  BY DEF IInv
<1> QED BY <1>1, Invariant, PTL

\* A poll is due exactly until the payment is terminal, whoever wrote its row
\* last (recordReconciliation, processWebhookBatch, applyProviderStatus).
THEOREM PollsHold == Spec => []PollsUntilTerminal
<1>1. IInv => PollsUntilTerminal
  BY DEF IInv
<1> QED BY <1>1, Invariant, PTL

\* A linked transfer is confirmed until it is acknowledged, over or before a
\* person (recordConfirmationAttempt).
THEOREM ConfirmsHold == Spec => []ConfirmsUntilAcknowledged
<1>1. IInv => ConfirmsUntilAcknowledged
  BY DEF IInv
<1> QED BY <1>1, Invariant, PTL

\* Every status change is an edge of the state graph, also one written without
\* a look at it (allowedNext).
THEOREM GraphHolds == Spec => MovesAlongTheGraph
<1> DEFINE Moves == \A k \in Keys :
          row'[k].status # row[k].status =>
             IF Exists(k) THEN row'[k].status \in allowedNext[row[k].status]
             ELSE row'[k].status = "created"
<1>1. IInv /\ [Next]_vars => [Moves]_vars
  BY NextInv DEF TableMoves
<1> QED BY <1>1, Invariant, PTL DEF Spec, MovesAlongTheGraph
=============================================================================
