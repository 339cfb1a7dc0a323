------------------------- MODULE AccountServices_proofs -----------------------
(***************************************************************************)
(* Theorems about AuthSessions, for every number of sessions, links,       *)
(* requests and passwords, and about FloorPosts, for any finite number of  *)
(* posts and users and any number of transactions at once.                 *)
(***************************************************************************)
EXTENDS AuthSessions, FloorPosts, FiniteSetTheorems, TLAPS

-----------------------------------------------------------------------------
(* AuthSessions: the inductive invariant. *)

Accounts == [status : {"pending", "active"}, password : Nat, outdated : BOOLEAN,
             version : Nat, failures : Nat, locked : BOOLEAN]

Requested == [step : {"login"}, typed : Nat, seen : Accounts]
             \cup [step : {"open"}, typed : Nat, seen : [version : Nat]]
             \cup [step : {"change"}]

Typed ==
    /\ account \in Accounts
    /\ request \in [Requests -> Requested \cup {Idle}]
    /\ latest \in Nat

Shapes ==
    /\ Typed
    /\ session \in [Sessions -> Rows \cup {NoRow}]
    /\ reused \subseteq Sessions

\* A family has a first row, of which it is named.
Founded ==
    /\ \A s \in Sessions : session[s] # NoRow => session[session[s].family] # NoRow
    /\ \A f \in reused : session[f] # NoRow

\* The rows of a family form a chain: all but the last are rotated.  And when a
\* rotated token came again all were revoked.
Chained ==
    /\ \A s, t \in Sessions :
          /\ session[s] # NoRow /\ session[t] # NoRow /\ session[s].family = session[t].family
          /\ ~session[s].rotated /\ ~session[t].rotated
          => s = t
    /\ \A s \in Sessions : session[s] # NoRow /\ session[s].family \in reused => session[s].revoked

FamilyInv == Shapes /\ Founded /\ Chained

\* What a login that read the present version typed, and what a row of it typed, is
\* the password set last, unless a rehash has written another back.
LoginsAreCurrent ==
    \A r \in Requests : request[r] # Idle /\ request[r].step \in {"login", "open"} =>
        /\ request[r].seen.version <= account.version
        /\ request[r].seen.version = account.version =>
              overlapped \/ latest = (IF request[r].step = "login" THEN request[r].seen.password
                                      ELSE request[r].typed)

PasswordOK == LoginsAreCurrent /\ NoSessionOutlivesThePassword

\* The logins whose refusal still counts: they read the account unlocked.
Counting == {r \in Requests : /\ request[r] # Idle /\ request[r].step = "login"
                              /\ ~request[r].seen.locked}

\* While the account is unlocked every guess is a recorded failure, and the last that
\* it takes locks; while it is locked each login that still counts may be one more.
GuessesOK ==
    /\ guesses \in Nat
    /\ ~account.locked => \/ guesses = 0
                          \/ guesses <= account.failures /\ account.failures < MaxFailures
    /\ account.locked => guesses + Cardinality(Counting) <= MaxFailures + Cardinality(Requests) - 1

-----------------------------------------------------------------------------
(* Lemmas about rows. *)

\* A row that is revoked, or rotated, is a row.
LEMMA ChangedRow ==
    ASSUME NEW row \in Rows
    PROVE  /\ row # NoRow
           /\ [row EXCEPT !.revoked = TRUE] \in Rows
           /\ [row EXCEPT !.rotated = TRUE] \in Rows
           /\ \A n \in Nat : [row EXCEPT !.rotated = FALSE, !.token = n] \in Rows
  BY SessionsAssumption DEF Rows

\* What Revoked leaves as it is.
LEMMA RevokedRows ==
    ASSUME Shapes, NEW S
    PROVE  /\ Revoked(S) \in [Sessions -> Rows \cup {NoRow}]
           /\ \A s \in Sessions :
                 /\ Revoked(S)[s] = NoRow <=> session[s] = NoRow
                 /\ session[s] # NoRow =>
                       /\ Revoked(S)[s].family = session[s].family
                       /\ Revoked(S)[s].rotated = session[s].rotated
                       /\ Revoked(S)[s].born = session[s].born
                       /\ Revoked(S)[s].password = session[s].password
                       /\ Revoked(S)[s].read = session[s].read
                       /\ session[s].revoked => Revoked(S)[s].revoked
                       /\ s \in S => Revoked(S)[s].revoked
                       /\ s \notin S => Revoked(S)[s] = session[s]
<1> SUFFICES ASSUME NEW s \in Sessions
             PROVE  /\ Revoked(S)[s] \in Rows \cup {NoRow}
                    /\ Revoked(S)[s] = NoRow <=> session[s] = NoRow
                    /\ session[s] # NoRow =>
                          /\ Revoked(S)[s].family = session[s].family
                          /\ Revoked(S)[s].rotated = session[s].rotated
                          /\ Revoked(S)[s].born = session[s].born
                          /\ Revoked(S)[s].password = session[s].password
                          /\ Revoked(S)[s].read = session[s].read
                          /\ session[s].revoked => Revoked(S)[s].revoked
                          /\ s \in S => Revoked(S)[s].revoked
                          /\ s \notin S => Revoked(S)[s] = session[s]
  BY DEF Revoked
<1>1. CASE session[s] = NoRow
  BY <1>1 DEF Revoked
<1>2. CASE session[s] # NoRow /\ s \notin S
  BY <1>2 DEF Revoked, Shapes
<1>3. CASE session[s] # NoRow /\ s \in S
  <2>1. session[s] \in Rows /\ Revoked(S)[s] = [session[s] EXCEPT !.revoked = TRUE]
    BY <1>3 DEF Revoked, Shapes
  <2>2. Revoked(S)[s] \in Rows /\ Revoked(S)[s] # NoRow
    BY <2>1, ChangedRow
  <2> QED BY <1>3, <2>1, <2>2 DEF Rows
<1> QED BY <1>1, <1>2, <1>3

-----------------------------------------------------------------------------
(* The account and the requests keep their types. *)

LEMMA SetPasswordTyped ==
    ASSUME Typed, NEW unlocks \in BOOLEAN, SetPassword(unlocks)
    PROVE  account' \in Accounts /\ latest' \in Nat
<1> DEFINE failures == IF unlocks THEN 0 ELSE account.failures
           locked == account.locked /\ ~unlocks
<1>1. /\ latest' = latest + 1
      /\ account' = [account EXCEPT !.password = latest + 1, !.outdated = FALSE,
                                    !.version = account.version + 1,
                                    !.failures = failures, !.locked = locked]
  BY DEF SetPassword
<1>2. failures \in Nat /\ locked \in BOOLEAN
  BY DEF Typed, Accounts
<1> HIDE DEF failures, locked
<1>3. account' = [status |-> account.status, password |-> latest + 1, outdated |-> FALSE,
                  version |-> account.version + 1, failures |-> failures, locked |-> locked]
  BY <1>1 DEF Typed, Accounts
<1>4. latest + 1 \in Nat /\ account.version + 1 \in Nat /\ account.status \in {"pending", "active"}
  BY DEF Typed, Accounts
<1> QED BY <1>1, <1>2, <1>3, <1>4 DEF Accounts

LEMMA LinksTyped ==
    ASSUME Typed, NEW l \in Links,
           SendLink(l) \/ LinkExpires(l) \/ VerifyEmail(l) \/ ResetPassword(l)
    PROVE  Typed'
<1>1. CASE SendLink(l) \/ LinkExpires(l)
  BY <1>1 DEF SendLink, LinkExpires, Typed
<1>2. CASE VerifyEmail(l)
  BY <1>2 DEF VerifyEmail, Typed, Accounts
<1>3. CASE ResetPassword(l)
  BY <1>3, SetPasswordTyped DEF ResetPassword, Typed
<1> QED BY <1>1, <1>2, <1>3

LEMMA LoginTyped ==
    ASSUME Typed, NEW r \in Requests, NEW typed \in 0..MaxPasswords, LoginReads(r, typed)
    PROVE  Typed'
<1>1. [account EXCEPT !.failures = 0] \in Accounts /\ typed \in Nat
  BY SessionsAssumption DEF Typed, Accounts
<1>2. [step |-> "login", typed |-> typed, seen |-> [account EXCEPT !.failures = 0]] \in Requested
  BY <1>1 DEF Requested
<1> QED BY <1>2 DEF LoginReads, Typed

LEMMA RefusedTyped ==
    ASSUME Typed, NEW r \in Requests, LoginRefused(r)
    PROVE  Typed'
<1>1. account' \in Accounts
  <2>1. CASE UNCHANGED account
    BY <2>1 DEF Typed
  <2>2. CASE account' = [account EXCEPT !.failures = IF @ > MaxFailures THEN @ ELSE @ + 1,
                                        !.locked = @ \/ Locks(account.failures + 1)]
    <3> DEFINE failures == IF account.failures > MaxFailures THEN account.failures
                           ELSE account.failures + 1
               locked == account.locked \/ Locks(account.failures + 1)
    <3>1. account' = [account EXCEPT !.failures = failures, !.locked = locked]
      BY <2>2
    <3>2. failures \in Nat
      BY DEF Typed, Accounts
    <3>3. locked \in BOOLEAN
      BY DEF Typed, Accounts, Locks
    <3> HIDE DEF failures, locked
    <3> QED BY <3>1, <3>2, <3>3 DEF Typed, Accounts
  <2> QED BY <2>1, <2>2 DEF LoginRefused
<1> QED BY <1>1 DEF LoginRefused, Typed

LEMMA AcceptedTyped ==
    ASSUME Typed, NEW r \in Requests, LoginAccepted(r)
    PROVE  /\ Typed'
           /\ request[r] \in [step : {"login"}, typed : Nat, seen : Accounts]
           /\ request'[r] = [step |-> "open", typed |-> request[r].typed,
                             seen |-> [version |-> request[r].seen.version]]
<1>1. request[r] \in [step : {"login"}, typed : Nat, seen : Accounts]
  BY DEF LoginAccepted, At, Typed, Requested
<1>2. account' \in Accounts
  BY <1>1 DEF LoginAccepted, Typed, Accounts
<1>3. request'[r] = [step |-> "open", typed |-> request[r].typed,
                     seen |-> [version |-> request[r].seen.version]]
  BY <1>1 DEF LoginAccepted, Typed
<1>4. request'[r] \in Requested
  BY <1>1, <1>3 DEF Requested, Accounts
<1>5. request' = [request EXCEPT ![r] = request'[r]]
  BY DEF LoginAccepted, Typed
<1> QED BY <1>1, <1>2, <1>3, <1>4, <1>5 DEF LoginAccepted, Typed

LEMMA RequestsTyped ==
    ASSUME Typed, NEW r \in Requests,
           ChangeWrites(r) \/ \E s \in Sessions : LoginOpens(r, s) \/ ChangeReads(r, s)
    PROVE  Typed'
<1>1. CASE ChangeWrites(r)
  BY <1>1, SetPasswordTyped DEF ChangeWrites, Typed
<1>2. CASE \E s \in Sessions : LoginOpens(r, s)
  BY <1>2 DEF LoginOpens, Typed
<1>3. CASE \E s \in Sessions : ChangeReads(r, s)
  BY <1>3 DEF ChangeReads, Typed, Requested
<1> QED BY <1>1, <1>2, <1>3

LEMMA NextTyped ==
    ASSUME Typed, [Next]_authVars
    PROVE  Typed'
<1>1. CASE LockExpires
  BY <1>1 DEF LockExpires, Typed, Accounts
<1>2. CASE UNCHANGED authVars
  BY <1>2 DEF authVars, Typed
<1>3. CASE \E s \in Sessions : Reuse(s) \/ Logout(s) \/ SessionExpires(s)
                               \/ \E t \in Sessions : Rotate(s, t)
  BY <1>3 DEF Reuse, Logout, SessionExpires, Rotate, Typed
<1> QED
  BY <1>1, <1>2, <1>3, LinksTyped, LoginTyped, RefusedTyped, AcceptedTyped, RequestsTyped DEF Next

-----------------------------------------------------------------------------
(* What becomes of the rows keeps the families. *)

LEMMA FamiliesRest ==
    ASSUME FamilyInv, Typed', UNCHANGED <<session, reused>>
    PROVE  FamilyInv'
  BY DEF FamilyInv, Shapes, Founded, Chained

LEMMA FamiliesRevoked ==
    ASSUME FamilyInv, Typed', NEW S, session' = Revoked(S),
           UNCHANGED reused \/ (\E s \in Sessions : /\ S = WholeFamily(s) /\ session[s] # NoRow
                                                    /\ reused' = reused \cup {session[s].family})
    PROVE  FamilyInv'
<1>1. /\ session' \in [Sessions -> Rows \cup {NoRow}]
      /\ \A s \in Sessions :
            /\ session'[s] = NoRow <=> session[s] = NoRow
            /\ session[s] # NoRow =>
                  /\ session'[s].family = session[s].family
                  /\ session'[s].rotated = session[s].rotated
                  /\ session[s].revoked => session'[s].revoked
                  /\ s \in S => session'[s].revoked
  BY RevokedRows DEF FamilyInv
<1>2. \A s \in Sessions : session[s] # NoRow => session[s].family \in Sessions
  BY DEF FamilyInv, Shapes, Rows
<1>3. reused' \subseteq Sessions /\ \A f \in reused' : session[f] # NoRow
  BY <1>2 DEF FamilyInv, Shapes, Founded
<1>4. \A s \in Sessions : session'[s] # NoRow /\ session'[s].family \in reused' => session'[s].revoked
  BY <1>1, <1>2 DEF FamilyInv, Chained, WholeFamily, Family
<1>5. Founded'
  BY <1>1, <1>2, <1>3 DEF FamilyInv, Founded
<1>6. Chained'
  BY <1>1, <1>4 DEF FamilyInv, Chained
<1> QED BY <1>1, <1>3, <1>5, <1>6 DEF FamilyInv, Shapes

LEMMA FamiliesOpened ==
    ASSUME FamilyInv, Typed', NEW r \in Requests, NEW s \in Sessions, LoginOpens(r, s)
    PROVE  FamilyInv'
<1> DEFINE row == [family |-> s, rotated |-> FALSE, revoked |-> FALSE,
                   token |-> request[r].seen.version, password |-> request[r].typed,
                   read |-> request[r].seen.version, born |-> account.version]
<1>1. request[r].seen.version \in Nat /\ request[r].typed \in Nat /\ account.version \in Nat
  BY DEF LoginOpens, At, FamilyInv, Shapes, Typed, Requested, Accounts
<1>2. /\ row \in Rows /\ row # NoRow
      /\ row.family = s /\ ~row.rotated /\ ~row.revoked
  <2>1. row \in Rows
    BY <1>1 DEF Rows
  <2>2. row # NoRow
    BY <2>1, SessionsAssumption
  <2> QED BY <2>1, <2>2
<1>3. session[s] = NoRow /\ session' = [session EXCEPT ![s] = row] /\ UNCHANGED reused
  BY DEF LoginOpens
<1> HIDE DEF row
<1>4. session' \in [Sessions -> Rows \cup {NoRow}] /\ session'[s] = row
      /\ \A t \in Sessions : t # s => session'[t] = session[t]
  BY <1>2, <1>3 DEF FamilyInv, Shapes
<1>5. \A t \in Sessions : session[t] # NoRow => session[t].family \in Sessions \ {s}
  BY <1>3 DEF FamilyInv, Shapes, Founded, Rows
<1>6. s \notin reused
  BY <1>3 DEF FamilyInv, Founded
<1>7. Founded'
  BY <1>2, <1>3, <1>4, <1>5 DEF FamilyInv, Shapes, Founded
<1>8. Chained'
  BY <1>2, <1>3, <1>4, <1>5, <1>6 DEF FamilyInv, Chained
<1> QED BY <1>3, <1>4, <1>7, <1>8 DEF FamilyInv, Shapes

LEMMA FamiliesRotated ==
    ASSUME FamilyInv, Typed', NEW s \in Sessions, NEW t \in Sessions, Rotate(s, t)
    PROVE  FamilyInv'
<1> DEFINE old == [session[s] EXCEPT !.rotated = TRUE]
           new == [session[s] EXCEPT !.rotated = FALSE, !.token = account.version]
<1>1. /\ session[s] \in Rows /\ session[s] # NoRow /\ session[t] = NoRow /\ s # t
      /\ ~session[s].rotated /\ ~session[s].revoked /\ account.version \in Nat
  BY DEF Rotate, MayRotate, FamilyInv, Shapes, Typed, Accounts
<1>2. /\ old \in Rows /\ old # NoRow /\ new \in Rows /\ new # NoRow
      /\ old.family = session[s].family /\ new.family = session[s].family
      /\ old.rotated /\ ~new.rotated
  <2>1. old \in Rows /\ new \in Rows
    BY <1>1, ChangedRow
  <2>2. old # NoRow /\ new # NoRow
    BY <2>1, SessionsAssumption
  <2> QED BY <1>1, <2>1, <2>2 DEF Rows
<1>3. /\ session'[s] = old /\ session'[t] = new
      /\ session' \in [Sessions -> Rows \cup {NoRow}]
      /\ \A u \in Sessions \ {s, t} : session'[u] = session[u]
      /\ UNCHANGED reused
  <2>1. session' = [session EXCEPT ![s] = old, ![t] = new] /\ UNCHANGED reused
    BY DEF Rotate
  <2> HIDE DEF old, new
  <2> QED BY <1>1, <1>2, <2>1 DEF FamilyInv, Shapes
<1> HIDE DEF old, new
<1>4. session[s].family \notin reused
  BY <1>1 DEF FamilyInv, Chained
<1>5. Founded'
  <2>1. \A u \in Sessions : session'[u] # NoRow <=> session[u] # NoRow \/ u = t
    BY <1>1, <1>2, <1>3
  <2>2. \A u \in Sessions : session[u] # NoRow => session[u].family \in Sessions
    BY DEF FamilyInv, Shapes, Rows
  <2> QED BY <1>1, <1>2, <1>3, <2>1, <2>2 DEF FamilyInv, Shapes, Founded
<1>6. Chained'
  <2>1. \A u \in Sessions : /\ session[u] # NoRow /\ session[u].family = session[s].family
                            /\ ~session[u].rotated
                            => u = s
    BY <1>1 DEF FamilyInv, Chained
  <2> QED BY <1>1, <1>2, <1>3, <1>4, <2>1 DEF FamilyInv, Chained
<1> QED BY <1>3, <1>5, <1>6 DEF FamilyInv, Shapes

LEMMA FamiliesKept ==
    ASSUME FamilyInv, [Next]_authVars
    PROVE  FamilyInv'
<1>1. Typed'
  BY NextTyped DEF FamilyInv, Shapes
<1>2. CASE UNCHANGED <<session, reused>>
  BY <1>1, <1>2, FamiliesRest
<1>3. ASSUME NEW S, session' = Revoked(S), UNCHANGED reused
      PROVE  FamilyInv'
  BY <1>1, <1>3, FamiliesRevoked
<1>4. CASE UNCHANGED authVars
  BY <1>2, <1>4 DEF authVars
<1>5. CASE LockExpires
  BY <1>2, <1>5 DEF LockExpires
<1>6. ASSUME NEW l \in Links,
             SendLink(l) \/ LinkExpires(l) \/ VerifyEmail(l) \/ ResetPassword(l)
      PROVE  FamilyInv'
  BY <1>2, <1>3, <1>6 DEF SendLink, LinkExpires, VerifyEmail, ResetPassword, SetPassword
<1>7. ASSUME NEW r \in Requests,
             \/ \E typed \in 0..MaxPasswords : LoginReads(r, typed)
             \/ LoginRefused(r) \/ LoginAccepted(r) \/ ChangeWrites(r)
             \/ \E s \in Sessions : ChangeReads(r, s)
      PROVE  FamilyInv'
  BY <1>2, <1>3, <1>7
     DEF LoginReads, LoginRefused, LoginAccepted, ChangeWrites, ChangeReads, SetPassword
<1>8. ASSUME NEW r \in Requests, NEW s \in Sessions, LoginOpens(r, s)
      PROVE  FamilyInv'
  BY <1>1, <1>8, FamiliesOpened
<1>9. ASSUME NEW s \in Sessions, Reuse(s)
      PROVE  FamilyInv'
  BY <1>1, <1>9, FamiliesRevoked DEF Reuse
<1>10. ASSUME NEW s \in Sessions, Logout(s) \/ SessionExpires(s)
       PROVE  FamilyInv'
  BY <1>3, <1>10 DEF Logout, SessionExpires
<1>11. ASSUME NEW s \in Sessions, NEW t \in Sessions, Rotate(s, t)
       PROVE  FamilyInv'
  BY <1>1, <1>11, FamiliesRotated
<1> QED BY <1>4, <1>5, <1>6, <1>7, <1>8, <1>9, <1>10, <1>11 DEF Next

LEMMA FamiliesInit == Init => FamilyInv
  BY SessionsAssumption
     DEF Init, FamilyInv, Shapes, Typed, Accounts, Founded, Chained

-----------------------------------------------------------------------------
(* The steps keep PasswordOK beside the families. *)

\* A step that opens no session, and changes no account but by unlocking it.
LEMMA PasswordRests ==
    ASSUME FamilyInv, PasswordOK,
           account'.version = account.version /\ account'.password = account.password,
           UNCHANGED <<latest, overlapped>>,
           \A r \in Requests : request'[r] = request[r] \/ request'[r] = Idle
                               \/ request'[r] = [step |-> "change"],
           UNCHANGED session \/ \E S : session' = Revoked(S)
    PROVE  PasswordOK'
<1>1. LoginsAreCurrent'
  BY DEF PasswordOK, LoginsAreCurrent
<1>2. \A s \in Sessions : Live(s)' => /\ Live(s) /\ session'[s].born = session[s].born
                                     /\ session'[s].password = session[s].password
                                     /\ session'[s].read = session[s].read
  BY RevokedRows DEF Live, FamilyInv
<1>3. NoSessionOutlivesThePassword'
  BY <1>2 DEF PasswordOK, NoSessionOutlivesThePassword
<1> QED BY <1>1, <1>3 DEF PasswordOK

\* A new password: every session is revoked, and what logins have read is outdated.
LEMMA PasswordSet ==
    ASSUME FamilyInv, PasswordOK, NEW unlocks \in BOOLEAN, SetPassword(unlocks),
           \A r \in Requests : request'[r] = request[r] \/ request'[r] = Idle
    PROVE  PasswordOK'
<1>1. /\ account'.version = account.version + 1 /\ account'.password = latest'
      /\ account.version \in Nat /\ session' = Revoked(Sessions)
  BY DEF SetPassword, EverySession, FamilyInv, Shapes, Typed, Accounts
<1>2. LoginsAreCurrent'
  <2> SUFFICES ASSUME NEW r \in Requests, request'[r] # Idle, request'[r].step \in {"login", "open"}
               PROVE  /\ request'[r].seen.version <= account'.version
                      /\ request'[r].seen.version # account'.version
    BY DEF LoginsAreCurrent
  <2>1. request'[r] = request[r] /\ request[r].seen.version <= account.version
    BY DEF PasswordOK, LoginsAreCurrent
  <2>2. request[r].seen.version \in Nat
    BY <2>1 DEF FamilyInv, Shapes, Typed, Requested, Accounts
  <2> QED BY <1>1, <2>1, <2>2
<1>3. \A s \in Sessions : ~Live(s)'
  BY <1>1, RevokedRows DEF Live, FamilyInv
<1>4. NoSessionOutlivesThePassword'
  BY <1>1, <1>3 DEF NoSessionOutlivesThePassword
<1> QED BY <1>2, <1>4 DEF PasswordOK

\* A login reads the account: its password is the last one, or was written back.
LEMMA PasswordRead ==
    ASSUME FamilyInv, PasswordOK, NEW r \in Requests, NEW typed, LoginReads(r, typed)
    PROVE  PasswordOK'
<1>1. /\ request'[r].step = "login" /\ request'[r].seen.version = account.version
      /\ request'[r].seen.password = account.password
      /\ \A q \in Requests \ {r} : request'[q] = request[q]
  BY DEF LoginReads, FamilyInv, Shapes, Typed, Accounts
<1>2. account.version \in Nat
  BY DEF FamilyInv, Shapes, Typed, Accounts
<1>3. LoginsAreCurrent'
  BY <1>1, <1>2 DEF PasswordOK, LoginsAreCurrent, NoSessionOutlivesThePassword, LoginReads
<1>4. NoSessionOutlivesThePassword'
  BY DEF PasswordOK, NoSessionOutlivesThePassword, LoginReads, Live
<1> QED BY <1>3, <1>4 DEF PasswordOK

\* A login is accepted: of the version it read, what was typed is the last password;
\* of an earlier one, a rehash is told by "overlapped".
LEMMA PasswordAccepted ==
    ASSUME FamilyInv, PasswordOK, NEW r \in Requests, LoginAccepted(r)
    PROVE  PasswordOK'
<1>1. /\ request[r] # Idle /\ request[r].step = "login"
      /\ request[r].typed = request[r].seen.password
      /\ request[r].seen.version \in Nat /\ account.version \in Nat
      /\ request[r].seen.version <= account.version
  BY DEF LoginAccepted, At, RightPassword, FamilyInv, Shapes, Typed, Requested, Accounts,
         PasswordOK, LoginsAreCurrent
<1>2. request[r].seen.version = account.version => overlapped \/ latest = request[r].typed
  BY <1>1 DEF PasswordOK, LoginsAreCurrent
<1>3. /\ account'.version = account.version
      /\ account'.password = account.password
         \/ (account'.password = request[r].typed
             /\ (request[r].seen.version < account.version => overlapped'))
      /\ overlapped => overlapped'
      /\ UNCHANGED <<latest, session>>
  BY DEF LoginAccepted, FamilyInv, Shapes, Typed, Accounts
<1>4. /\ request'[r] = [step |-> "open", typed |-> request[r].typed,
                        seen |-> [version |-> request[r].seen.version]]
      /\ \A q \in Requests \ {r} : request'[q] = request[q]
  BY AcceptedTyped DEF LoginAccepted, FamilyInv, Shapes, Typed
<1>5. LoginsAreCurrent'
  BY <1>1, <1>2, <1>3, <1>4 DEF PasswordOK, LoginsAreCurrent
<1>6. NoSessionOutlivesThePassword'
  BY <1>1, <1>2, <1>3 DEF PasswordOK, NoSessionOutlivesThePassword, Live
<1> QED BY <1>5, <1>6 DEF PasswordOK

\* The session of a login is of the present version, and of the last password unless
\* the login read an earlier one.
LEMMA PasswordOpened ==
    ASSUME FamilyInv, PasswordOK, NEW r \in Requests, NEW s \in Sessions, LoginOpens(r, s)
    PROVE  PasswordOK'
<1>1. /\ request[r] # Idle /\ request[r].step = "open"
      /\ request[r].seen.version \in Nat /\ account.version \in Nat
  BY DEF LoginOpens, At, FamilyInv, Shapes, Typed, Requested, Accounts
<1>2. \/ request[r].seen.version < account.version
      \/ overlapped \/ latest = request[r].typed
  BY <1>1 DEF PasswordOK, LoginsAreCurrent
<1>3. /\ session'[s].born = account.version /\ session'[s].read = request[r].seen.version
      /\ session'[s].password = request[r].typed
      /\ \A t \in Sessions \ {s} : session'[t] = session[t]
      /\ UNCHANGED <<account, latest, overlapped>>
  BY DEF LoginOpens, FamilyInv, Shapes
<1>4. LoginsAreCurrent'
  BY DEF LoginOpens, PasswordOK, LoginsAreCurrent, FamilyInv, Shapes, Typed
<1>5. NoSessionOutlivesThePassword'
  BY <1>1, <1>2, <1>3 DEF PasswordOK, NoSessionOutlivesThePassword, Live
<1> QED BY <1>4, <1>5 DEF PasswordOK

\* Only a live session is rotated, so the row that follows it may be live.
LEMMA PasswordRotated ==
    ASSUME FamilyInv, PasswordOK, NEW s \in Sessions, NEW t \in Sessions, Rotate(s, t)
    PROVE  PasswordOK'
<1>1. session[s] \in Rows /\ Live(s) /\ session[t] = NoRow /\ s # t
  BY DEF Rotate, MayRotate, Live, FamilyInv, Shapes
<1>2. /\ session'[s].rotated /\ session'[t].born = session[s].born
      /\ session'[t].read = session[s].read /\ session'[t].password = session[s].password
      /\ \A u \in Sessions \ {s, t} : session'[u] = session[u]
  BY <1>1 DEF Rotate, FamilyInv, Shapes, Rows
<1>3. UNCHANGED <<account, request, latest, overlapped>>
  BY DEF Rotate
<1>4. NoSessionOutlivesThePassword'
  BY <1>1, <1>2, <1>3 DEF PasswordOK, NoSessionOutlivesThePassword, Live
<1> QED BY <1>3, <1>4 DEF PasswordOK, LoginsAreCurrent

LEMMA PasswordKept ==
    ASSUME FamilyInv, PasswordOK, [Next]_authVars
    PROVE  PasswordOK'
<1>1. CASE UNCHANGED <<account, request, latest, overlapped>>
           /\ (UNCHANGED session \/ \E S : session' = Revoked(S))
  BY <1>1, PasswordRests
<1>2. CASE UNCHANGED authVars
  BY <1>1, <1>2 DEF authVars
<1>3. CASE LockExpires
  <2>1. account'.version = account.version /\ account'.password = account.password
    BY <1>3 DEF LockExpires, FamilyInv, Shapes, Typed, Accounts
  <2> QED BY <1>3, <2>1, PasswordRests DEF LockExpires
<1>4. ASSUME NEW l \in Links, SendLink(l) \/ LinkExpires(l)
      PROVE  PasswordOK'
  BY <1>1, <1>4 DEF SendLink, LinkExpires
<1>5. ASSUME NEW l \in Links, VerifyEmail(l)
      PROVE  PasswordOK'
  <2>1. account'.version = account.version /\ account'.password = account.password
    BY <1>5 DEF VerifyEmail, FamilyInv, Shapes, Typed, Accounts
  <2> QED BY <1>5, <2>1, PasswordRests DEF VerifyEmail
<1>6. ASSUME NEW l \in Links, ResetPassword(l)
      PROVE  PasswordOK'
  BY <1>6, PasswordSet DEF ResetPassword
<1>7. ASSUME NEW r \in Requests, LoginRefused(r)
      PROVE  PasswordOK'
  <2>1. account'.version = account.version /\ account'.password = account.password
    BY <1>7 DEF LoginRefused, FamilyInv, Shapes, Typed, Accounts
  <2>2. \A q \in Requests : request'[q] = request[q] \/ request'[q] = Idle
    BY <1>7 DEF LoginRefused, FamilyInv, Shapes, Typed
  <2>3. UNCHANGED <<latest, overlapped, session>>
    BY <1>7 DEF LoginRefused
  <2> QED BY <2>1, <2>2, <2>3, PasswordRests
<1>8. ASSUME NEW r \in Requests, ChangeWrites(r)
      PROVE  PasswordOK'
  <2>1. \A q \in Requests : request'[q] = request[q] \/ request'[q] = Idle
    BY <1>8 DEF ChangeWrites, FamilyInv, Shapes, Typed
  <2> QED BY <1>8, <2>1, PasswordSet DEF ChangeWrites
<1>9. ASSUME NEW r \in Requests, NEW s \in Sessions, ChangeReads(r, s)
      PROVE  PasswordOK'
  <2>1. \A q \in Requests : request'[q] = request[q] \/ request'[q] = [step |-> "change"]
    BY <1>9 DEF ChangeReads, FamilyInv, Shapes, Typed
  <2> QED BY <1>9, <2>1, PasswordRests DEF ChangeReads
<1>10. ASSUME NEW s \in Sessions, Reuse(s) \/ Logout(s) \/ SessionExpires(s)
       PROVE  PasswordOK'
  BY <1>1, <1>10 DEF Reuse, Logout, SessionExpires
<1> QED
  BY <1>2, <1>3, <1>4, <1>5, <1>6, <1>7, <1>8, <1>9, <1>10,
     PasswordRead, PasswordAccepted, PasswordOpened, PasswordRotated DEF Next

LEMMA PasswordInit == Init => PasswordOK
  BY DEF Init, PasswordOK, LoginsAreCurrent, NoSessionOutlivesThePassword, Live

-----------------------------------------------------------------------------
(* The steps keep GuessesOK. *)

\* How many logins may count.
LEMMA CountingIsFinite ==
    /\ IsFiniteSet(Requests) /\ Cardinality(Requests) \in Nat
    /\ IsFiniteSet(Counting) /\ Cardinality(Counting) \in Nat
    /\ Cardinality(Counting) <= Cardinality(Requests)
<1>1. Counting \in SUBSET Requests
  BY DEF Counting
<1> QED BY <1>1, FS_Subset, FS_CardinalityType, SessionsAssumption

\* A step that unlocks, or clears the failures.
LEMMA GuessesAnew ==
    ASSUME guesses' = 0
    PROVE  GuessesOK'
<1>1. /\ Cardinality(Requests) \in Nat /\ Cardinality(Counting)' \in Nat
      /\ Cardinality(Counting)' <= Cardinality(Requests)
  <2>1. Counting' \in SUBSET Requests
    BY DEF Counting
  <2> QED BY <2>1, FS_Subset, FS_CardinalityType, SessionsAssumption
<1> QED BY <1>1, SessionsAssumption DEF GuessesOK

\* A step of which no login counts that did not before.
LEMMA GuessesRest ==
    ASSUME GuessesOK, guesses' = guesses, Counting' \subseteq Counting,
           account'.locked = account.locked, account'.failures = account.failures
    PROVE  GuessesOK'
<1>1. Counting' \in SUBSET Counting
  OBVIOUS
<1>2. Cardinality(Counting)' \in Nat /\ Cardinality(Counting)' <= Cardinality(Counting)
  BY <1>1, CountingIsFinite, FS_Subset, FS_CardinalityType
<1> QED BY <1>2, CountingIsFinite, SessionsAssumption DEF GuessesOK

\* A login that reads the account locked does not count.
LEMMA GuessesRead ==
    ASSUME Typed, GuessesOK, NEW r \in Requests, NEW typed \in 0..MaxPasswords,
           LoginReads(r, typed)
    PROVE  GuessesOK'
<1>1. UNCHANGED <<account, guesses>>
  BY DEF LoginReads
<1>2. CASE ~account.locked
  BY <1>1, <1>2 DEF GuessesOK
<1>3. CASE account.locked
  <2>1. /\ request'[r].seen.locked
        /\ \A q \in Requests \ {r} : request'[q] = request[q]
    BY <1>3 DEF LoginReads, Typed, Accounts
  <2>2. Counting' \subseteq Counting
    BY <2>1 DEF Counting
  <2> QED BY <1>1, <2>2, GuessesRest
<1> QED BY <1>2, <1>3

\* A login that is refused no longer counts, and is one guess more if it did.
LEMMA GuessesRefused ==
    ASSUME Typed, GuessesOK, NEW r \in Requests, LoginRefused(r)
    PROVE  GuessesOK'
<1>1. request'[r] = Idle /\ \A q \in Requests \ {r} : request'[q] = request[q]
  BY DEF LoginRefused, Typed
<1>2. Counting' = Counting \ {r}
  BY <1>1 DEF Counting
<1>3. CASE UNCHANGED <<account, guesses>>
  BY <1>2, <1>3, GuessesRest
<1>4. CASE ~RightPassword(r) /\ ~request[r].seen.locked
  <2>1. r \in Counting
    BY <1>4 DEF Counting, LoginRefused, At
  <2>2. Cardinality(Counting)' = Cardinality(Counting) - 1
    BY <1>2, <2>1, CountingIsFinite, FS_RemoveElement
  <2>3. /\ guesses' = guesses + 1
        /\ account' = [account EXCEPT !.failures = IF @ > MaxFailures THEN @ ELSE @ + 1,
                                      !.locked = @ \/ Locks(account.failures + 1)]
    BY <1>4 DEF LoginRefused
  <2>4. /\ account.failures \in Nat
        /\ account'.failures = IF account.failures > MaxFailures THEN account.failures
                               ELSE account.failures + 1
        /\ account'.locked <=> (account.locked \/ account.failures + 1 >= MaxFailures)
    BY <2>3 DEF Typed, Accounts, Locks
  <2>5. CASE account.locked
    BY <2>2, <2>3, <2>4, <2>5, CountingIsFinite, SessionsAssumption DEF GuessesOK
  <2>6. CASE ~account.locked /\ account.failures + 1 < MaxFailures
    BY <2>3, <2>4, <2>6, SessionsAssumption DEF GuessesOK
  <2>7. CASE ~account.locked /\ account.failures + 1 >= MaxFailures
    <3>1. guesses + 1 <= MaxFailures
      BY <2>4, <2>7, SessionsAssumption DEF GuessesOK
    <3> QED BY <2>2, <2>3, <2>4, <2>7, <3>1, CountingIsFinite, SessionsAssumption DEF GuessesOK
  <2> QED BY <2>4, <2>5, <2>6, <2>7, SessionsAssumption
<1> QED BY <1>3, <1>4 DEF LoginRefused

LEMMA GuessesKept ==
    ASSUME Typed, GuessesOK, [Next]_authVars
    PROVE  GuessesOK'
<1>1. CASE UNCHANGED <<account, request, guesses>>
  BY <1>1, GuessesRest DEF Counting
<1>2. CASE UNCHANGED authVars
  BY <1>1, <1>2 DEF authVars
<1>3. CASE LockExpires
  BY <1>3, GuessesAnew DEF LockExpires
<1>4. ASSUME NEW l \in Links, SendLink(l) \/ LinkExpires(l) \/ VerifyEmail(l) \/ ResetPassword(l)
      PROVE  GuessesOK'
  BY <1>1, <1>4, GuessesAnew DEF SendLink, LinkExpires, VerifyEmail, ResetPassword
<1>5. ASSUME NEW r \in Requests, LoginAccepted(r)
      PROVE  GuessesOK'
  BY <1>5, GuessesAnew DEF LoginAccepted
<1>6. ASSUME NEW r \in Requests, ChangeWrites(r)
      PROVE  GuessesOK'
  <2>1. Counting' \subseteq Counting
    BY <1>6 DEF ChangeWrites, Typed, Counting
  <2>2. account'.locked = account.locked /\ account'.failures = account.failures
    BY <1>6 DEF ChangeWrites, SetPassword, Typed, Accounts
  <2> QED BY <1>6, <2>1, <2>2, GuessesRest DEF ChangeWrites
<1>7. ASSUME NEW r \in Requests, NEW s \in Sessions, LoginOpens(r, s) \/ ChangeReads(r, s)
      PROVE  GuessesOK'
  <2>1. Counting' \subseteq Counting
    BY <1>7 DEF LoginOpens, ChangeReads, Typed, Counting
  <2> QED BY <1>7, <2>1, GuessesRest DEF LoginOpens, ChangeReads
<1>8. ASSUME NEW s \in Sessions, \/ Reuse(s) \/ Logout(s) \/ SessionExpires(s)
                                 \/ \E t \in Sessions : Rotate(s, t)
      PROVE  GuessesOK'
  BY <1>1, <1>8 DEF Reuse, Logout, SessionExpires, Rotate
<1> QED
  BY <1>2, <1>3, <1>4, <1>5, <1>6, <1>7, <1>8, GuessesRead, GuessesRefused DEF Next

LEMMA GuessesInit == Init => GuessesOK
  BY DEF Init, GuessesOK

-----------------------------------------------------------------------------
(* The theorems. *)

\* The two invariants hold in every behaviour.
THEOREM SessionsInvariant == Spec => [](FamilyInv /\ PasswordOK)
<1>1. Init => FamilyInv /\ PasswordOK
  BY FamiliesInit, PasswordInit
<1>2. FamilyInv /\ PasswordOK /\ [Next]_authVars => (FamilyInv /\ PasswordOK)'
  BY FamiliesKept, PasswordKept
<1> QED BY <1>1, <1>2, PTL DEF Spec

\* Of a family one refresh token works at most, and none once a rotated one came again.
THEOREM OneTokenHolds == Spec => []OneTokenPerFamily
<1>1. FamilyInv => OneTokenPerFamily
  BY DEF FamilyInv, Founded, Chained, OneTokenPerFamily, Family, Live
<1> QED BY <1>1, SessionsInvariant, PTL

\* No session outlives the password it was opened with, but for the two overlaps that
\* the property names.
THEOREM NoSessionOutlives == Spec => []NoSessionOutlivesThePassword
<1>1. PasswordOK => NoSessionOutlivesThePassword
  BY DEF PasswordOK
<1> QED BY <1>1, SessionsInvariant, PTL

\* However logins overlap, wrong passwords are tried no more often than lock the account,
\* and by those that had read it unlocked when it locked.
THEOREM GuessesHold == Spec => []GuessesAreBounded
<1>1. Init => GuessesOK
  BY GuessesInit
<1>2. FamilyInv /\ GuessesOK /\ [Next]_authVars => GuessesOK'
  BY GuessesKept DEF FamilyInv, Shapes
<1>3. FamilyInv /\ GuessesOK => GuessesAreBounded
  <2> SUFFICES ASSUME FamilyInv, GuessesOK PROVE GuessesAreBounded
    OBVIOUS
  <2>1. CASE account.locked
    BY <2>1, CountingIsFinite, SessionsAssumption DEF GuessesOK, GuessesAreBounded
  <2>2. CASE ~account.locked
    <3>1. account.failures \in Nat
      BY DEF FamilyInv, Shapes, Typed, Accounts
    <3> QED BY <2>2, <3>1, CountingIsFinite, SessionsAssumption DEF GuessesOK, GuessesAreBounded
  <2> QED BY <2>1, <2>2
<1> QED BY <1>1, <1>2, <1>3, SessionsInvariant, PTL DEF Spec

-----------------------------------------------------------------------------
(* What TypeOK says beyond the types. *)

\* The password is one that was set, and so is the one a login read; the versions
\* count the passwords; and the failures stop one beyond the lock.
AccountFits ==
    /\ latest = account.version + 1 /\ account.version <= MaxPasswords
    /\ account.password \in 1..latest /\ account.failures <= MaxFailures + 1
    /\ \A r \in Requests : request[r] # Idle /\ request[r].step = "login" =>
          request[r].seen.password \in 1..latest

\* Of the links of one purpose one works.
LinksFit ==
    /\ DOMAIN link = Links
    /\ \A k, l \in Links : link[k] \in {"verify", "reset"} /\ link[k] = link[l] => k = l

LEMMA SetPasswordFits ==
    ASSUME Typed, AccountFits, NEW unlocks \in BOOLEAN, SetPassword(unlocks)
    PROVE  /\ latest' = account'.version + 1 /\ account'.version <= MaxPasswords
           /\ account'.password \in 1..latest' /\ account'.failures <= MaxFailures + 1
           /\ latest' = latest + 1
<1> DEFINE failures == IF unlocks THEN 0 ELSE account.failures
           locked == account.locked /\ ~unlocks
<1>1. /\ latest' = latest + 1 /\ latest < MaxPasswords
      /\ account' = [account EXCEPT !.password = latest + 1, !.outdated = FALSE,
                                    !.version = account.version + 1,
                                    !.failures = failures, !.locked = locked]
  BY DEF SetPassword
<1>2. failures <= MaxFailures + 1
  BY SessionsAssumption DEF AccountFits
<1> HIDE DEF failures, locked
<1>3. /\ account'.version = account.version + 1 /\ account'.password = latest + 1
      /\ account'.failures = failures
  BY <1>1 DEF Typed, Accounts
<1>4. latest \in Nat /\ account.version \in Nat /\ latest = account.version + 1
  BY DEF Typed, Accounts, AccountFits
<1> QED BY <1>1, <1>2, <1>3, <1>4, SessionsAssumption

LEMMA LinkStepFits ==
    ASSUME Typed, AccountFits, LinksFit, NEW l \in Links,
           SendLink(l) \/ LinkExpires(l) \/ VerifyEmail(l) \/ ResetPassword(l)
    PROVE  AccountFits' /\ LinksFit'
<1>1. CASE SendLink(l)
  <2> DEFINE purpose == IF account.status = "pending" THEN "verify" ELSE "reset"
  <2>1. \A k \in Links : link'[k] = IF k = l THEN purpose
                                    ELSE IF link[k] = purpose THEN "spent" ELSE link[k]
    BY <1>1 DEF SendLink, OnlyLink
  <2>2. DOMAIN link' = Links
    BY <1>1 DEF SendLink, OnlyLink
  <2>3. LinksFit'
    BY <2>1, <2>2 DEF LinksFit
  <2> QED BY <1>1, <2>3 DEF SendLink, AccountFits
<1>2. ASSUME link' = [link EXCEPT ![l] = "spent"] PROVE LinksFit'
  BY <1>2 DEF LinksFit
<1>3. CASE LinkExpires(l)
  BY <1>2, <1>3 DEF LinkExpires, AccountFits
<1>4. CASE VerifyEmail(l)
  <2>1. /\ account'.version = account.version /\ account'.password = account.password
        /\ account'.failures = 0
    BY <1>4 DEF VerifyEmail, Typed, Accounts
  <2>2. 0 <= MaxFailures + 1
    BY SessionsAssumption
  <2> QED BY <1>2, <1>4, <2>1, <2>2 DEF VerifyEmail, AccountFits
<1>5. CASE ResetPassword(l)
  <2>1. /\ SetPassword(TRUE) /\ request' = request /\ link' = [link EXCEPT ![l] = "spent"]
        /\ latest \in Nat
    BY <1>5 DEF ResetPassword, Typed
  <2>2. /\ latest' = account'.version + 1 /\ account'.version <= MaxPasswords
        /\ account'.password \in 1..latest' /\ account'.failures <= MaxFailures + 1
        /\ latest' = latest + 1
    BY <2>1, SetPasswordFits
  <2> QED BY <1>2, <2>1, <2>2 DEF AccountFits
<1> QED BY <1>1, <1>3, <1>4, <1>5

LEMMA RequestStepFits ==
    ASSUME Typed, AccountFits, NEW r \in Requests,
           \/ \E typed \in 0..MaxPasswords : LoginReads(r, typed)
           \/ LoginRefused(r) \/ LoginAccepted(r) \/ ChangeWrites(r)
           \/ \E s \in Sessions : LoginOpens(r, s) \/ ChangeReads(r, s)
    PROVE  AccountFits'
<1>1. /\ account \in Accounts /\ request \in [Requests -> Requested \cup {Idle}]
      /\ latest \in Nat /\ MaxFailures \in Nat
  BY SessionsAssumption DEF Typed
<1>2. ASSUME NEW q \in Requests, latest' = latest, q # r => request'[q] = request[q],
             request'[r] # Idle /\ request'[r].step = "login" =>
                request'[r].seen.password \in 1..latest,
             request'[q] # Idle /\ request'[q].step = "login"
      PROVE  request'[q].seen.password \in 1..latest'
  BY <1>2 DEF AccountFits
<1>3. CASE \E typed \in 0..MaxPasswords : LoginReads(r, typed)
  <2>1. /\ UNCHANGED <<account, latest>>
        /\ \A q \in Requests \ {r} : request'[q] = request[q]
        /\ request'[r].seen = [account EXCEPT !.failures = 0]
    BY <1>1, <1>3 DEF LoginReads
  <2>2. request'[r].seen.password = account.password
    BY <1>1, <2>1 DEF Accounts
  <2> QED BY <1>2, <2>1, <2>2 DEF AccountFits
<1>4. CASE LoginRefused(r)
  <2>1. /\ latest' = latest /\ request'[r] = Idle
        /\ \A q \in Requests \ {r} : request'[q] = request[q]
    BY <1>1, <1>4 DEF LoginRefused
  <2>2. /\ account'.version = account.version /\ account'.password = account.password
        /\ account'.failures <= MaxFailures + 1
    <3>1. CASE UNCHANGED account
      BY <3>1 DEF AccountFits
    <3>2. CASE account' = [account EXCEPT !.failures = IF @ > MaxFailures THEN @ ELSE @ + 1,
                                          !.locked = @ \/ Locks(account.failures + 1)]
      <4> DEFINE failures == IF account.failures > MaxFailures THEN account.failures
                             ELSE account.failures + 1
                 locked == account.locked \/ Locks(account.failures + 1)
      <4>1. account' = [account EXCEPT !.failures = failures, !.locked = locked]
        BY <3>2
      <4>2. account.failures \in Nat /\ failures <= MaxFailures + 1
        BY <1>1 DEF Accounts, AccountFits
      <4> HIDE DEF failures, locked
      <4> QED BY <1>1, <4>1, <4>2 DEF Accounts
    <3> QED BY <1>4, <3>1, <3>2 DEF LoginRefused
  <2> QED BY <1>2, <2>1, <2>2 DEF AccountFits
<1>5. CASE LoginAccepted(r)
  <2>1. request'[r] = [step |-> "open", typed |-> request[r].typed,
                       seen |-> [version |-> request[r].seen.version]]
    BY <1>5, AcceptedTyped
  <2>2. request'[r].step # "login"
    BY <2>1
  <2>3. request[r] # Idle /\ request[r].step = "login" /\ request[r].typed = request[r].seen.password
    BY <1>5 DEF LoginAccepted, At, RightPassword
  <2>4. request[r].typed \in 1..latest
    BY <2>3 DEF AccountFits
  <2>5. /\ latest' = latest /\ \A q \in Requests \ {r} : request'[q] = request[q]
    BY <1>1, <1>5 DEF LoginAccepted
  <2>6. /\ account'.version = account.version /\ account'.failures = 0
        /\ account'.password \in {account.password, request[r].typed}
    BY <1>1, <1>5 DEF LoginAccepted, Accounts
  <2>7. 0 <= MaxFailures + 1
    BY <1>1
  <2> QED BY <1>2, <2>2, <2>4, <2>5, <2>6, <2>7 DEF AccountFits
<1>6. CASE ChangeWrites(r)
  <2>1. /\ SetPassword(FALSE) /\ request'[r] = Idle
        /\ \A q \in Requests \ {r} : request'[q] = request[q]
    BY <1>1, <1>6 DEF ChangeWrites
  <2>2. /\ latest' = account'.version + 1 /\ account'.version <= MaxPasswords
        /\ account'.password \in 1..latest' /\ account'.failures <= MaxFailures + 1
        /\ latest' = latest + 1
    BY <2>1, SetPasswordFits
  <2>3. ASSUME NEW q \in Requests, request'[q] # Idle /\ request'[q].step = "login"
        PROVE  request'[q].seen.password \in 1..latest'
    <3>1. request'[q] = request[q] /\ request[q].seen.password \in 1..latest
      BY <2>1, <2>3 DEF AccountFits
    <3> QED BY <1>1, <2>2, <3>1
  <2> QED BY <2>2, <2>3 DEF AccountFits
<1>7. CASE \E s \in Sessions : LoginOpens(r, s) \/ ChangeReads(r, s)
  <2>1. /\ UNCHANGED <<account, latest>>
        /\ \A q \in Requests \ {r} : request'[q] = request[q]
        /\ request'[r] = Idle \/ request'[r].step = "change"
    BY <1>1, <1>7 DEF LoginOpens, ChangeReads
  <2> QED BY <1>2, <2>1 DEF AccountFits
<1> QED BY <1>3, <1>4, <1>5, <1>6, <1>7

\* Type correctness: the password is one that was set, the failures stop one beyond the
\* lock, and one link of a purpose works (createChallenge).
THEOREM SessionsTypes == Spec => []TypeOK
<1>1. Init => AccountFits /\ LinksFit
  BY SessionsAssumption DEF Init, AccountFits, LinksFit
<1>2. Typed /\ AccountFits /\ LinksFit /\ [Next]_authVars => AccountFits' /\ LinksFit'
  <2> SUFFICES ASSUME Typed, AccountFits, LinksFit, [Next]_authVars
               PROVE  AccountFits' /\ LinksFit'
    OBVIOUS
  <2>1. CASE LockExpires
    <3>1. /\ account'.version = account.version /\ account'.password = account.password
          /\ account'.failures = account.failures
      BY <2>1 DEF LockExpires, Typed, Accounts
    <3> QED BY <2>1, <3>1 DEF LockExpires, AccountFits, LinksFit
  <2>2. CASE \E l \in Links : SendLink(l) \/ LinkExpires(l) \/ VerifyEmail(l) \/ ResetPassword(l)
    BY <2>2, LinkStepFits
  <2>3. ASSUME NEW r \in Requests,
               \/ \E typed \in 0..MaxPasswords : LoginReads(r, typed)
               \/ LoginRefused(r) \/ LoginAccepted(r) \/ ChangeWrites(r)
               \/ \E s \in Sessions : LoginOpens(r, s) \/ ChangeReads(r, s)
        PROVE  AccountFits' /\ LinksFit'
    <3>1. link' = link
      BY <2>3 DEF LoginReads, LoginRefused, LoginAccepted, ChangeWrites, LoginOpens, ChangeReads
    <3>2. LinksFit'
      BY <3>1 DEF LinksFit
    <3> QED BY <2>3, <3>2, RequestStepFits
  <2>4. CASE \E s \in Sessions : Reuse(s) \/ Logout(s) \/ SessionExpires(s)
                                 \/ \E t \in Sessions : Rotate(s, t)
    BY <2>4 DEF Reuse, Logout, SessionExpires, Rotate, AccountFits, LinksFit
  <2>5. CASE UNCHANGED authVars
    BY <2>5 DEF authVars, AccountFits, LinksFit
  <2> QED BY <2>1, <2>2, <2>3, <2>4, <2>5 DEF Next
<1>3. FamilyInv /\ AccountFits /\ LinksFit => TypeOK
  <2> SUFFICES ASSUME FamilyInv, AccountFits, LinksFit PROVE TypeOK
    OBVIOUS
  <2>1. account \in Accounts /\ request \in [Requests -> Requested \cup {Idle}]
        /\ session \in [Sessions -> Rows \cup {NoRow}]
    BY DEF FamilyInv, Shapes, Typed
  <2>2. ASSUME NEW p \in {"verify", "reset"} PROVE Cardinality({l \in Links : link[l] = p}) <= 1
    <3> DEFINE S == {l \in Links : link[l] = p}
    <3>1. CASE S = {}
      BY <3>1, FS_EmptySet
    <3>2. CASE S # {}
      <4>1. PICK l \in Links : S = {l}
        BY <3>2 DEF LinksFit
      <4> QED BY <4>1, FS_Singleton
    <3> QED BY <3>1, <3>2
  <2>3. \A s \in Sessions : session[s] # NoRow => session[s].family \in Sessions
    BY <2>1 DEF Rows
  <2>4. \A r \in Requests : request[r] # Idle => request[r].step \in {"login", "open", "change"}
    BY <2>1 DEF Requested
  <2>5. account.version \in 0..MaxPasswords /\ account.failures \in 0..MaxFailures + 1
    BY <2>1, SessionsAssumption DEF Accounts, AccountFits
  <2> QED BY <2>1, <2>2, <2>3, <2>4, <2>5 DEF AccountFits, Accounts, TypeOK
<1>4. FamilyInv => Typed
  BY DEF FamilyInv, Shapes
<1>5. Spec => [](AccountFits /\ LinksFit)
  BY <1>1, <1>2, <1>4, SessionsInvariant, PTL DEF Spec
<1> QED BY <1>3, <1>5, SessionsInvariant, PTL

-----------------------------------------------------------------------------
(* FloorPosts: the inductive invariant. *)

Transactions == [op : {"like", "unlike", "reply", "remove"}, post : Posts, user : Members \cup {NoPost}]

FloorShapes ==
    /\ post \in [Posts -> PostRows \cup {NoPost}]
    /\ likes \subseteq Posts \X Members
    /\ change \in [Clients -> Transactions \cup {NoChange}]
    /\ \A c \in Clients : ChangeIs(c, {"like", "unlike"}) => change[c].user \in Members

\* A reply answers a post that is none, visible or not; what is not stored has no likes.
Threads ==
    /\ \A p \in Posts : post[p] # NoPost /\ post[p].parent # NoPost =>
          post[post[p].parent] # NoPost /\ post[post[p].parent].parent = NoPost
    /\ \A p \in Posts, u \in Members : <<p, u>> \in likes => post[p] # NoPost

\* A locked post is visible, is locked once, and is replied to only if it is no reply.
LocksHold ==
    /\ \A c \in Clients : change[c] # NoChange =>
          /\ Visible(change[c].post)
          /\ change[c].op = "reply" => post[change[c].post].parent = NoPost
    /\ \A c, d \in Clients : c # d /\ change[c] # NoChange /\ change[d] # NoChange =>
          change[c].post # change[d].post

LikersOf(p) == {u \in Members : <<p, u>> \in likes}

\* CountsFollowTheRows, of one post.
Counted(p) ==
    /\ post[p].likes = Cardinality(LikersOf(p))
    /\ post[p].replies = Cardinality(RepliesTo(p))
    /\ post[p].parent # NoPost => Visible(post[p].parent)

FloorInv == FloorShapes /\ Threads /\ LocksHold /\ \A p \in Posts : Visible(p) => Counted(p)

-----------------------------------------------------------------------------
(* Rows and counts. *)

LEMMA RowIsSome ==
    ASSUME NEW row \in PostRows
    PROVE  row # NoPost
  BY FloorAssumption

\* Replies and likers are finitely many, so that they can be counted.
LEMMA Finite ==
    ASSUME NEW p
    PROVE  IsFiniteSet(RepliesTo(p)) /\ IsFiniteSet(LikersOf(p))
<1>1. RepliesTo(p) \in SUBSET Posts /\ LikersOf(p) \in SUBSET Members
  BY DEF RepliesTo, LikersOf
<1> QED BY <1>1, FS_Subset, FloorAssumption

LEMMA FloorInitKeeps == FloorInit => FloorInv
  BY DEF FloorInit, FloorInv, FloorShapes, Threads, LocksHold, Visible, ChangeIs

\* A reply has no replies.
LEMMA RepliesEnd ==
    ASSUME FloorInv, NEW p \in Posts, post[p] # NoPost, post[p].parent # NoPost
    PROVE  RepliesTo(p) = {}
  BY FloorAssumption DEF FloorInv, Threads, RepliesTo, Visible

\* Nothing answers what is not stored.
LEMMA NoRepliesYet ==
    ASSUME FloorInv, NEW p \in Posts, post[p] = NoPost
    PROVE  RepliesTo(p) = {} /\ LikersOf(p) = {}
  BY FloorAssumption DEF FloorInv, Threads, RepliesTo, LikersOf, Visible

-----------------------------------------------------------------------------
(* Every action keeps it. *)

\* A post that is new, and no reply.
LEMMA PublishKeeps ==
    ASSUME FloorInv, NEW p \in Posts, Publish(p)
    PROVE  FloorInv'
<1> DEFINE row == [parent |-> NoPost, visible |-> TRUE, likes |-> 0, replies |-> 0]
<1>1. row \in PostRows /\ row # NoPost /\ row.parent = NoPost /\ row.visible
      /\ row.likes = 0 /\ row.replies = 0
  <2>1. row \in PostRows
    BY DEF PostRows
  <2> QED BY <2>1, RowIsSome
<1>2. /\ post' \in [Posts -> PostRows \cup {NoPost}] /\ post'[p] = row /\ post[p] = NoPost
      /\ \A q \in Posts \ {p} : post'[q] = post[q]
      /\ UNCHANGED <<likes, change>>
  <2>1. post' = [post EXCEPT ![p] = row]
    BY DEF Publish
  <2> HIDE DEF row
  <2> QED BY <1>1, <2>1 DEF Publish, FloorInv, FloorShapes
<1> HIDE DEF row
<1>3. RepliesTo(p)' = {} /\ LikersOf(p)' = {}
  BY <1>1, <1>2, NoRepliesYet, FloorAssumption DEF RepliesTo, LikersOf, Visible
<1>4. \A q \in Posts \ {p} : RepliesTo(q)' = RepliesTo(q) /\ LikersOf(q)' = LikersOf(q)
  BY <1>1, <1>2, FloorAssumption DEF RepliesTo, LikersOf, Visible
<1>5. FloorShapes'
  BY <1>2 DEF FloorInv, FloorShapes, ChangeIs
<1>6. Threads'
  BY <1>1, <1>2 DEF FloorInv, FloorShapes, Threads, PostRows
<1>7. LocksHold'
  BY <1>2 DEF FloorInv, FloorShapes, Transactions, LocksHold, Visible
<1>8. ASSUME NEW q \in Posts, Visible(q)'
      PROVE  Counted(q)'
  <2>1. CASE q = p
    BY <1>1, <1>2, <1>3, <2>1, FS_EmptySet DEF Counted
  <2>2. CASE q # p
    <3>1. Visible(q) /\ Counted(q)
      BY <1>2, <1>8, <2>2 DEF Visible, FloorInv
    <3>2. post[q].parent # NoPost => post[q].parent \in Posts /\ post[q].parent # p
      BY <1>2, <3>1 DEF FloorInv, FloorShapes, PostRows, Visible, Counted
    <3> QED BY <1>2, <1>4, <2>2, <3>1, <3>2 DEF Counted, Visible
  <2> QED BY <2>1, <2>2
<1> QED BY <1>5, <1>6, <1>7, <1>8 DEF FloorInv

\* A transaction that begins locks a post nobody else has.
LEMMA BeginKeeps ==
    ASSUME FloorInv, NEW c \in Clients, NEW p \in Posts, NEW op \in {"like", "unlike", "reply", "remove"},
           NEW u \in Members \cup {NoPost}, op \in {"like", "unlike"} => u \in Members,
           Begin(c, op, p, u)
    PROVE  FloorInv'
<1> DEFINE begun == [op |-> op, post |-> p, user |-> u]
<1>1. begun \in Transactions /\ begun.op = op /\ begun.post = p /\ begun.user = u
  BY DEF Transactions
<1>2. change' = [change EXCEPT ![c] = begun] /\ UNCHANGED <<post, likes>>
      /\ Visible(p) /\ (op = "reply" => post[p].parent = NoPost)
  BY DEF Begin
<1>3. \A d \in Clients : change[d] # NoChange => change[d].post # p
  BY DEF Begin, Locked
<1> HIDE DEF begun
<1>4. FloorShapes'
  BY <1>1, <1>2 DEF FloorInv, FloorShapes, ChangeIs
<1>5. LocksHold'
  BY <1>1, <1>2, <1>3 DEF FloorInv, FloorShapes, LocksHold, Visible
<1>6. Threads' /\ \A q \in Posts : Visible(q)' => Counted(q)'
  BY <1>2 DEF FloorInv, Threads, Counted, Visible, RepliesTo, LikersOf
<1> QED BY <1>4, <1>5, <1>6 DEF FloorInv

\* One that ends without a change.
LEMMA EndKeeps ==
    ASSUME FloorInv, NEW c \in Clients, EndsChange(c), UNCHANGED <<post, likes>>
    PROVE  FloorInv'
<1>1. FloorShapes'
  BY DEF FloorInv, FloorShapes, ChangeIs, EndsChange
<1>2. LocksHold'
  BY DEF FloorInv, FloorShapes, LocksHold, Visible, EndsChange
<1>3. Threads' /\ \A q \in Posts : Visible(q)' => Counted(q)'
  BY DEF FloorInv, Threads, Counted, Visible, RepliesTo, LikersOf
<1> QED BY <1>1, <1>2, <1>3 DEF FloorInv

\* A step that changes one row, but neither its parent nor whether it is visible or
\* stored, and no reply: what is left to show is the types and the count of likes.
LEMMA RowKeeps ==
    ASSUME FloorInv, NEW c \in Clients, NEW p \in Posts, NEW row \in PostRows,
           EndsChange(c), Visible(p), post' = [post EXCEPT ![p] = row],
           row.visible, row.parent = post[p].parent, row.replies = post[p].replies,
           likes' \subseteq Posts \X Members,
           \A q \in Posts \ {p} : LikersOf(q)' = LikersOf(q),
           row.likes = Cardinality(LikersOf(p)')
    PROVE  FloorInv'
<1>1. /\ post' \in [Posts -> PostRows \cup {NoPost}] /\ post'[p] = row
      /\ \A q \in Posts \ {p} : post'[q] = post[q]
  BY DEF FloorInv, FloorShapes
<1>2. \A q \in Posts : /\ Visible(q)' <=> Visible(q)
                       /\ post'[q] = NoPost <=> post[q] = NoPost
                       /\ post[q] # NoPost => post'[q].parent = post[q].parent
                                             /\ post'[q].replies = post[q].replies
  BY <1>1, RowIsSome DEF Visible
<1>3. \A q : RepliesTo(q)' = RepliesTo(q)
  BY <1>2 DEF RepliesTo, Visible
<1>4. FloorShapes'
  BY <1>1 DEF FloorInv, FloorShapes, EndsChange, ChangeIs
<1>5. Threads'
  <2>1. \A q \in Posts : post[q] # NoPost /\ post[q].parent # NoPost => post[q].parent \in Posts
    BY DEF FloorInv, FloorShapes, PostRows
  <2>2. ASSUME NEW q \in Posts, NEW v \in Members, <<q, v>> \in likes'
        PROVE  post'[q] # NoPost
    <3>1. CASE q = p
      BY <1>2, <3>1 DEF Visible
    <3>2. CASE q # p
      <4>1. v \in LikersOf(q)
        BY <2>2, <3>2 DEF LikersOf
      <4> QED BY <1>2, <4>1 DEF LikersOf, FloorInv, Threads
    <3> QED BY <3>1, <3>2
  <2> QED BY <1>2, <2>1, <2>2 DEF FloorInv, Threads
<1>6. LocksHold'
  BY <1>2 DEF FloorInv, FloorShapes, Transactions, LocksHold, EndsChange, Visible
<1>7. ASSUME NEW q \in Posts, Visible(q)'
      PROVE  Counted(q)'
  <2>1. Visible(q) /\ Counted(q) /\ post[q] # NoPost
    BY <1>2, <1>7 DEF Visible, FloorInv
  <2>2. post'[q].likes = Cardinality(LikersOf(q)')
    BY <1>1, <2>1 DEF Counted
  <2>3. post[q].parent # NoPost => post[q].parent \in Posts
    BY <2>1 DEF FloorInv, FloorShapes, PostRows
  <2>4. post'[q].parent # NoPost => Visible(post[q].parent)'
    BY <1>2, <2>1, <2>3 DEF Counted, Visible
  <2> QED BY <1>2, <1>3, <2>1, <2>2, <2>4 DEF Counted
<1> QED BY <1>4, <1>5, <1>6, <1>7 DEF FloorInv

\* A like or unlike that changes the likes changes the count by as much.
LEMMA SetLikedKeeps ==
    ASSUME FloorInv, NEW c \in Clients, SetLiked(c)
    PROVE  FloorInv'
<1>1. PICK p \in Posts, u \in Members, liked \in BOOLEAN :
          /\ change[c].post = p /\ change[c].user = u /\ liked = (change[c].op = "like")
          /\ Visible(p)
  BY DEF SetLiked, ChangeIs, FloorInv, FloorShapes, Transactions, LocksHold
<1>2. CASE ~Changes(p, u, liked)
  BY <1>1, <1>2, EndKeeps DEF SetLiked
<1>3. CASE Changes(p, u, liked)
  <2> DEFINE count == IF liked THEN post[p].likes + 1 ELSE AtLeastOne(post[p].likes) - 1
             row == [post[p] EXCEPT !.likes = count]
  <2>1. post[p] \in PostRows /\ post[p].likes \in Nat
    BY <1>1 DEF FloorInv, FloorShapes, Visible, PostRows
  <2>2. /\ likes' = IF liked THEN likes \cup {<<p, u>>} ELSE likes \ {<<p, u>>}
        /\ EndsChange(c)
    BY <1>1, <1>3 DEF SetLiked
  <2>3. post' = [post EXCEPT ![p] = row]
    BY <1>1, <1>3 DEF SetLiked
  <2>4. LikersOf(p)' = IF liked THEN LikersOf(p) \cup {u} ELSE LikersOf(p) \ {u}
    BY <2>2 DEF LikersOf
  <2>5. /\ u \in LikersOf(p) <=> ~liked
        /\ IsFiniteSet(LikersOf(p)) /\ post[p].likes = Cardinality(LikersOf(p))
    <3>1. u \in LikersOf(p) <=> <<p, u>> \in likes
      BY DEF LikersOf
    <3>2. liked \in BOOLEAN /\ (<<p, u>> \in likes <=> ~liked)
      <4>1. ASSUME liked, <<p, u>> \in likes
            PROVE  FALSE
        <5>1. liked = (<<p, u>> \in likes)
          BY <4>1
        <5> QED BY <1>3, <5>1 DEF Changes
      <4>2. ASSUME ~liked, <<p, u>> \notin likes
            PROVE  FALSE
        <5>1. liked = (<<p, u>> \in likes)
          BY <4>2
        <5> QED BY <1>3, <5>1 DEF Changes
      <4> QED BY <4>1, <4>2
    <3>3. IsFiniteSet(LikersOf(p)) /\ Counted(p)
      BY <1>1, Finite DEF FloorInv
    <3> QED BY <3>1, <3>2, <3>3 DEF Counted
  <2>6. count \in Nat /\ count = Cardinality(LikersOf(p)')
    <3>1. CASE liked
      <4>1. Cardinality(LikersOf(p) \cup {u}) = Cardinality(LikersOf(p)) + 1
        BY <2>5, <3>1, FS_AddElement
      <4> QED BY <2>1, <2>4, <2>5, <3>1, <4>1
    <3>2. CASE ~liked
      <4>1. LikersOf(p) # {}
        BY <2>5, <3>2
      <4>2. post[p].likes # 0
        BY <2>5, <4>1, FS_EmptySet
      <4>3. Cardinality(LikersOf(p) \ {u}) = Cardinality(LikersOf(p)) - 1
        BY <2>5, <3>2, FS_RemoveElement
      <4> QED BY <2>1, <2>4, <2>5, <3>2, <4>2, <4>3 DEF AtLeastOne
    <3> QED BY <3>1, <3>2
  <2>7. /\ row \in PostRows /\ row.likes = count /\ row.parent = post[p].parent
        /\ row.visible = post[p].visible /\ row.replies = post[p].replies
    <3>1. count \in Nat
      BY <2>6
    <3> HIDE DEF count
    <3> QED BY <2>1, <3>1 DEF PostRows
  <2>8. \A q \in Posts \ {p} : LikersOf(q)' = LikersOf(q)
    BY <2>2 DEF LikersOf
  <2>9. likes' \subseteq Posts \X Members /\ post[p].visible
    BY <1>1, <2>2 DEF FloorInv, FloorShapes, Visible
  <2> HIDE DEF row, count
  <2> QED BY <1>1, <2>2, <2>3, <2>6, <2>7, <2>8, <2>9, RowKeeps
<1> QED BY <1>2, <1>3

\* A reply to a post that is none: one more, and its own count starts at none.
LEMMA ReplyKeeps ==
    ASSUME FloorInv, NEW c \in Clients, NEW q \in Posts, Reply(c, q)
    PROVE  FloorInv'
<1>1. PICK p \in Posts : /\ change[c].post = p /\ Visible(p) /\ post[p].parent = NoPost
                         /\ post[p] \in PostRows /\ post[q] = NoPost /\ p # q
  BY RowIsSome DEF Reply, ChangeIs, FloorInv, FloorShapes, Transactions, LocksHold, Visible
<1> DEFINE old == [post[p] EXCEPT !.replies = post[p].replies + 1]
           new == [parent |-> p, visible |-> TRUE, likes |-> 0, replies |-> 0]
<1>2. /\ old \in PostRows /\ old.parent = NoPost /\ old.visible /\ old.likes = post[p].likes
      /\ old.replies = post[p].replies + 1
  BY <1>1 DEF PostRows, Visible
<1>3. new \in PostRows /\ new.parent = p /\ new.visible /\ new.likes = 0 /\ new.replies = 0
  BY DEF PostRows
<1>4. /\ post' = [post EXCEPT ![p] = old, ![q] = new]
      /\ EndsChange(c) /\ UNCHANGED likes
  BY <1>1 DEF Reply
<1> HIDE DEF old, new
<1>5. /\ post' \in [Posts -> PostRows \cup {NoPost}] /\ post'[p] = old /\ post'[q] = new
      /\ \A x \in Posts \ {p, q} : post'[x] = post[x]
      /\ old # NoPost /\ new # NoPost
  BY <1>1, <1>2, <1>3, <1>4, RowIsSome DEF FloorInv, FloorShapes
<1>6. \A x : LikersOf(x)' = LikersOf(x)
  BY <1>4 DEF LikersOf
<1>7. RepliesTo(p)' = RepliesTo(p) \cup {q}
  BY <1>1, <1>2, <1>3, <1>5, FloorAssumption DEF RepliesTo, Visible
<1>8. \A x \in Posts \ {p} : RepliesTo(x)' = RepliesTo(x)
  BY <1>1, <1>2, <1>3, <1>5, FloorAssumption DEF RepliesTo, Visible
<1>9. \A x \in Posts : Visible(x)' <=> Visible(x) \/ x = q
  BY <1>1, <1>2, <1>3, <1>5 DEF Visible
<1>10. FloorShapes'
  BY <1>4, <1>5 DEF FloorInv, FloorShapes, EndsChange, ChangeIs
<1>11. Threads'
  BY <1>1, <1>2, <1>3, <1>4, <1>5, FloorAssumption DEF FloorInv, FloorShapes, PostRows, Threads
<1>12. LocksHold'
  <2>1. \A d \in Clients : change'[d] # NoChange =>
           change'[d] = change[d] /\ change[d] # NoChange /\ change[d].post \in Posts \ {q}
    BY <1>1, <1>4 DEF FloorInv, FloorShapes, Transactions, LocksHold, EndsChange, Visible
  <2> QED BY <1>1, <1>2, <1>5, <1>9, <2>1 DEF FloorInv, LocksHold
<1>13. ASSUME NEW x \in Posts, Visible(x)'
       PROVE  Counted(x)'
  <2>1. CASE x = q
    <3>1. RepliesTo(q) = {} /\ LikersOf(q) = {}
      BY <1>1, NoRepliesYet
    <3> QED BY <1>1, <1>3, <1>5, <1>6, <1>8, <1>9, <2>1, <3>1, FS_EmptySet DEF Counted
  <2>2. CASE x = p
    <3>1. Counted(p) /\ IsFiniteSet(RepliesTo(p)) /\ q \notin RepliesTo(p)
      BY <1>1, Finite DEF FloorInv, RepliesTo, Visible
    <3>2. Cardinality(RepliesTo(p) \cup {q}) = Cardinality(RepliesTo(p)) + 1
      BY <3>1, FS_AddElement
    <3> QED BY <1>2, <1>5, <1>6, <1>7, <2>2, <3>1, <3>2 DEF Counted
  <2>3. CASE x \notin {p, q}
    <3>1. Visible(x) /\ Counted(x)
      BY <1>9, <1>13, <2>3 DEF FloorInv
    <3>2. post[x].parent # NoPost => post[x].parent \in Posts
      BY <3>1 DEF FloorInv, FloorShapes, PostRows, Visible
    <3> QED BY <1>5, <1>6, <1>8, <1>9, <2>3, <3>1, <3>2 DEF Counted
  <2> QED BY <2>1, <2>2, <2>3
<1> QED BY <1>10, <1>11, <1>12, <1>13 DEF FloorInv

\* A post that is removed takes its replies along; a reply is taken off the count of
\* the post it answers.
LEMMA RemoveKeeps ==
    ASSUME FloorInv, NEW c \in Clients, Remove(c)
    PROVE  FloorInv'
<1>1. PICK p \in Posts, gone \in SUBSET Posts, parent \in Posts \cup {NoPost} :
          /\ change[c].post = p /\ Visible(p) /\ gone = {p} \cup RepliesTo(p)
          /\ parent = post[p].parent
  <2>1. PICK p \in Posts : change[c].post = p /\ Visible(p)
    BY DEF Remove, ChangeIs, FloorInv, FloorShapes, Transactions, LocksHold
  <2>2. post[p].parent \in Posts \cup {NoPost}
    BY <2>1 DEF FloorInv, FloorShapes, Visible, PostRows
  <2>3. {p} \cup RepliesTo(p) \in SUBSET Posts
    BY DEF RepliesTo
  <2> QED BY <2>1, <2>2, <2>3
<1> DEFINE hidden(q) == [post[q] EXCEPT !.visible = FALSE]
           less(q) == [post[q] EXCEPT !.replies = AtLeastOne(post[q].replies) - 1]
<1>2. /\ (gone \cup {parent}) \cap Locked = {p}
      /\ post' = [q \in Posts |-> IF q \in gone THEN hidden(q)
                                  ELSE IF q = parent THEN less(q) ELSE post[q]]
      /\ EndsChange(c) /\ UNCHANGED likes
  BY <1>1 DEF Remove, TheThread
<1>3. \A q \in gone : post[q] \in PostRows
  BY <1>1 DEF FloorInv, FloorShapes, RepliesTo, Visible
<1>4. parent # NoPost => /\ parent \in Posts \ gone /\ Visible(parent) /\ post[parent] \in PostRows
                        /\ post[parent].parent = NoPost
                        /\ RepliesTo(p) = {} /\ gone = {p} /\ p \in RepliesTo(parent)
  BY <1>1, RepliesEnd DEF FloorInv, FloorShapes, Threads, Counted, Visible, RepliesTo
<1>5. ASSUME NEW row \in PostRows
      PROVE  /\ [row EXCEPT !.visible = FALSE] \in PostRows
             /\ [row EXCEPT !.replies = AtLeastOne(row.replies) - 1] \in PostRows
  <2>1. AtLeastOne(row.replies) - 1 \in Nat
    BY DEF PostRows, AtLeastOne
  <2> QED BY <2>1 DEF PostRows
<1>6. \A q \in gone : /\ post'[q] \in PostRows /\ post'[q] # NoPost /\ ~post'[q].visible
                      /\ post'[q].parent = post[q].parent
  <2>1. \A q \in gone : post'[q] = hidden(q) /\ hidden(q) \in PostRows
    BY <1>2, <1>3, <1>5
  <2> QED BY <1>3, <2>1, RowIsSome DEF PostRows
<1>7. parent # NoPost => /\ post'[parent] \in PostRows /\ post'[parent] # NoPost
                        /\ post'[parent].visible = post[parent].visible
                        /\ post'[parent].parent = post[parent].parent
                        /\ post'[parent].likes = post[parent].likes
                        /\ post'[parent].replies = AtLeastOne(post[parent].replies) - 1
  <2>1. parent # NoPost => post'[parent] = less(parent) /\ less(parent) \in PostRows
    BY <1>2, <1>4, <1>5
  <2> QED BY <1>4, <2>1, RowIsSome DEF PostRows
<1>8. \A q \in Posts : q \notin gone /\ q # parent => post'[q] = post[q]
  BY <1>2
<1>9. post' \in [Posts -> PostRows \cup {NoPost}]
  <2>1. \A q \in Posts : post'[q] \in PostRows \cup {NoPost}
    BY <1>4, <1>6, <1>7, <1>8, FloorAssumption DEF FloorInv, FloorShapes
  <2> QED BY <1>2, <2>1
<1> HIDE DEF hidden, less
<1>10. \A q \in Posts : /\ Visible(q)' <=> Visible(q) /\ q \notin gone
                        /\ post'[q] = NoPost <=> post[q] = NoPost
                        /\ post[q] # NoPost => post'[q].parent = post[q].parent
  BY <1>3, <1>4, <1>6, <1>7, <1>8, RowIsSome, FloorAssumption DEF Visible
<1>11. \A q \in Posts : RepliesTo(q)' = RepliesTo(q) \ gone
  BY <1>10 DEF RepliesTo, Visible
<1>12. \A x : LikersOf(x)' = LikersOf(x)
  BY <1>2 DEF LikersOf
<1>13. FloorShapes'
  BY <1>2, <1>9 DEF FloorInv, FloorShapes, EndsChange, ChangeIs
<1>14. Threads'
  <2>1. \A q \in Posts : post[q] # NoPost => post[q].parent \in Posts \cup {NoPost}
    BY DEF FloorInv, FloorShapes, PostRows
  <2>2. ASSUME NEW q \in Posts, post'[q] # NoPost, post'[q].parent # NoPost
        PROVE  post'[post'[q].parent] # NoPost /\ post'[post'[q].parent].parent = NoPost
    <3>1. PICK x \in Posts : post'[q].parent = x /\ post[q].parent = x /\ post[q] # NoPost
      BY <1>10, <2>1, <2>2
    <3>2. post[x] # NoPost /\ post[x].parent = NoPost
      BY <2>2, <3>1 DEF FloorInv, Threads
    <3> QED BY <1>10, <3>1, <3>2
  <2>3. \A q \in Posts, u \in Members : <<q, u>> \in likes' => post'[q] # NoPost
    BY <1>2, <1>10 DEF FloorInv, Threads
  <2> QED BY <2>2, <2>3 DEF Threads
<1>15. LocksHold'
  <2>1. \A d \in Clients : change'[d] # NoChange => d # c /\ change'[d] = change[d]
    BY <1>2 DEF FloorInv, FloorShapes, EndsChange
  <2>2. ASSUME NEW d \in Clients, change'[d] # NoChange
        PROVE  change[d].post \in Posts \ gone
    <3>1. change[d].post \in Locked /\ change[d].post \in Posts
      BY <2>1, <2>2 DEF Locked, FloorInv, FloorShapes, Transactions
    <3>2. change[c] # NoChange
      BY DEF Remove, ChangeIs
    <3>3. change[d].post # p
      BY <1>1, <2>1, <2>2, <3>2 DEF FloorInv, LocksHold
    <3> QED BY <1>2, <3>1, <3>3
  <2> QED BY <1>10, <2>1, <2>2 DEF FloorInv, LocksHold, Visible
<1>16. ASSUME NEW q \in Posts, Visible(q)'
       PROVE  Counted(q)'
  <2>1. Visible(q) /\ Counted(q) /\ q \notin gone
    BY <1>10, <1>16 DEF FloorInv
  <2>2. post[q].parent # NoPost =>
           post[q].parent \in Posts /\ Visible(post[q].parent) /\ post[q].parent \notin gone
    <3>1. post[q].parent # p
      BY <1>1, <2>1 DEF RepliesTo
    <3>2. ASSUME post[q].parent # NoPost, post[q].parent \in RepliesTo(p)
          PROVE  FALSE
      BY <2>1, <3>2, <1>1, FloorAssumption DEF FloorInv, Threads, RepliesTo, Visible
    <3> QED BY <1>1, <2>1, <3>1, <3>2 DEF FloorInv, FloorShapes, PostRows, Visible, Counted
  <2>3. CASE q = parent
    <3>1. /\ IsFiniteSet(RepliesTo(q)) /\ p \in RepliesTo(q) /\ RepliesTo(q)' = RepliesTo(q) \ {p}
          /\ parent # NoPost
      BY <1>4, <1>11, <2>3, Finite, FloorAssumption
    <3>2. Cardinality(RepliesTo(q) \ {p}) = Cardinality(RepliesTo(q)) - 1
      BY <3>1, FS_RemoveElement
    <3>3. Cardinality(RepliesTo(q)) # 0
      BY <3>1, FS_EmptySet
    <3>4. post'[q].replies = Cardinality(RepliesTo(q)')
      BY <1>7, <2>1, <2>3, <3>1, <3>2, <3>3 DEF Counted, AtLeastOne
    <3> QED BY <1>7, <1>10, <1>12, <2>1, <2>2, <2>3, <3>1, <3>4 DEF Counted
  <2>4. CASE q # parent
    <3>1. RepliesTo(q) \cap gone = {}
      BY <1>1, <2>1, <2>4 DEF RepliesTo
    <3>2. RepliesTo(q)' = RepliesTo(q) /\ post'[q] = post[q]
      BY <1>8, <1>11, <2>1, <2>4, <3>1
    <3> QED BY <1>10, <1>12, <2>1, <2>2, <3>2 DEF Counted
  <2> QED BY <2>3, <2>4
<1> QED BY <1>13, <1>14, <1>15, <1>16 DEF FloorInv

-----------------------------------------------------------------------------
(* The theorems. *)

LEMMA FloorNextKeeps ==
    ASSUME FloorInv, [FloorNext]_floorVars
    PROVE  FloorInv'
<1>1. CASE UNCHANGED floorVars
  <2>1. FloorShapes' /\ Threads' /\ LocksHold'
    BY <1>1 DEF floorVars, FloorInv, FloorShapes, Threads, LocksHold, Visible, ChangeIs
  <2>2. \A q \in Posts : Visible(q)' => Counted(q)'
    BY <1>1 DEF floorVars, FloorInv, Counted, Visible, RepliesTo, LikersOf
  <2> QED BY <2>1, <2>2 DEF FloorInv
<1>2. ASSUME NEW c \in Clients, RolledBack(c)
      PROVE  FloorInv'
  BY <1>2, EndKeeps DEF RolledBack
<1> QED
  BY <1>1, <1>2, PublishKeeps, BeginKeeps, SetLikedKeeps, ReplyKeeps, RemoveKeeps DEF FloorNext

\* FloorInv holds in every behaviour.
THEOREM FloorInvariant == FloorSpec => []FloorInv
  BY FloorInitKeeps, FloorNextKeeps, PTL DEF FloorSpec

\* The counts are those of the rows, and no reply outlives the post it answers.
THEOREM CountsHold == FloorSpec => []CountsFollowTheRows
<1>1. FloorInv => CountsFollowTheRows
  BY DEF FloorInv, CountsFollowTheRows, Counted, LikersOf
<1> QED BY <1>1, FloorInvariant, PTL

\* Type correctness, and that a post is locked by one transaction at a time
THEOREM FloorTypes == FloorSpec => []FloorTypeOK
<1>1. FloorInv => FloorTypeOK
  BY DEF FloorInv, FloorShapes, PostRows, LocksHold, FloorTypeOK
<1> QED BY <1>1, FloorInvariant, PTL
=============================================================================
