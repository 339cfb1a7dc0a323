---------------------------- MODULE AuthSessions ----------------------------
(***************************************************************************)
(* One account: its password, its links by e-mail, its sessions and their  *)
(* refresh tokens (AuthService and AuthRepository of src/src/auth).        *)
(*                                                                         *)
(* A login reads the account, verifies the password, clears the failures   *)
(* and inserts the session: four steps with awaits between them, each one  *)
(* statement or database transaction.  So does a change of password.  A    *)
(* password is a number, the order in which it was set; what an attempt    *)
(* types is such a number or zero, which no password is.                   *)
(***************************************************************************)
EXTENDS Integers, FiniteSets

CONSTANTS Sessions,      \* rows of auth_sessions; a family is named by its first row
          Links,         \* rows of auth_challenges
          Requests,      \* logins and changes of password under way at once
          MaxFailures,   \* AUTH_MAX_LOGIN_FAILURES
          MaxPasswords,  \* bound on how often the password is set
          Idle, NoRow

\* auth_sessions: "token" is the token_version its access token carries; "password",
\* "read" and "born" are history, what its login typed, the version it read, and the
\* version there was when it was inserted.
Rows == [family : Sessions, rotated : BOOLEAN, revoked : BOOLEAN, token : Nat,
         password : Nat, read : Nat, born : Nat]

ASSUME SessionsAssumption ==
    /\ NoRow \notin Rows /\ MaxPasswords \in Nat
    /\ MaxFailures \in Nat \ {0} /\ IsFiniteSet(Requests)

VARIABLES
    account,   \* the rows of users and user_credentials; "outdated" is a hash that
               \*   needs a rehash
    link,      \* [Links -> "unused" | "verify" | "reset" | "spent"]
    session,   \* [Sessions -> row or NoRow]
    request,   \* [Requests -> [step, typed, seen] or Idle]; "seen" is what the request
               \*   still needs of the account it read
    latest,    \* history: the password set last
    overlapped,\* history: a login wrote back a hash it read before a reset
    reused,    \* history: the families of which a rotated token came again
    guesses    \* history: wrong passwords tried since the last unlocking

authVars == <<account, link, session, request, latest, overlapped, reused, guesses>>

Init ==
    /\ account = [status |-> "pending", password |-> 1, outdated |-> TRUE, version |-> 0,
                  failures |-> 0, locked |-> FALSE]
    /\ link = [l \in Links |-> "unused"]
    /\ session = [s \in Sessions |-> NoRow]
    /\ request = [r \in Requests |-> Idle]
    /\ latest = 1 /\ overlapped = FALSE /\ reused = {} /\ guesses = 0

Live(s) == session[s] # NoRow /\ ~session[s].revoked /\ ~session[s].rotated
Family(f) == {s \in Sessions : session[s] # NoRow /\ session[s].family = f}

\* authenticate, with the access token that came with the session
Authenticated(s) ==
    account.status = "active" /\ Live(s) /\ session[s].token = account.version

\* revokeAllSessions; a session past its expiry counts as revoked.
Revoked(S) ==
    [s \in Sessions |-> IF s \in S /\ session[s] # NoRow
                        THEN [session[s] EXCEPT !.revoked = TRUE] ELSE session[s]]

-----------------------------------------------------------------------------
(* Links by e-mail. *)

\* Mutant: the earlier links keep working.
OneMoreLink(l, purpose) == [link EXCEPT ![l] = purpose]

\* createChallenge consumes the earlier links of the same purpose, and the range of
\* the index it locks keeps a second one from inserting meanwhile.
OnlyLink(l, purpose) ==
    [k \in Links |-> IF k = l THEN purpose ELSE IF link[k] = purpose THEN "spent" ELSE link[k]]

\* register, resendVerification and forgotPassword
SendLink(l) ==
    /\ link[l] = "unused"
    /\ link' = OnlyLink(l, IF account.status = "pending" THEN "verify" ELSE "reset")
    /\ UNCHANGED <<account, session, request, latest, overlapped, reused, guesses>>

LinkExpires(l) ==
    /\ link[l] \in {"verify", "reset"}
    /\ link' = [link EXCEPT ![l] = "spent"]
    /\ UNCHANGED <<account, session, request, latest, overlapped, reused, guesses>>

\* consumeVerification
VerifyEmail(l) ==
    /\ link[l] = "verify" /\ account.status = "pending"
    /\ link' = [link EXCEPT ![l] = "spent"]
    /\ account' = [account EXCEPT !.status = "active", !.failures = 0, !.locked = FALSE]
    /\ guesses' = 0
    /\ UNCHANGED <<session, request, latest, overlapped, reused>>

\* Mutant: the sessions are not revoked with the password.
NoSession == {}

EverySession == Sessions

SetPassword(unlocks) ==
    /\ latest < MaxPasswords
    /\ latest' = latest + 1 /\ overlapped' = FALSE
    /\ account' = [account EXCEPT !.password = latest', !.outdated = FALSE, !.version = @ + 1,
                                  !.failures = IF unlocks THEN 0 ELSE @,
                                  !.locked = @ /\ ~unlocks]
    /\ session' = Revoked(EverySession)
    /\ UNCHANGED reused

\* consumePasswordReset
ResetPassword(l) ==
    /\ link[l] = "reset" /\ account.status = "active"
    /\ link' = [link EXCEPT ![l] = "spent"]
    /\ SetPassword(TRUE) /\ guesses' = 0
    /\ UNCHANGED request

-----------------------------------------------------------------------------
(* Logging in, and changing the password. *)

At(r, step) == request[r] # Idle /\ request[r].step = step

\* login, findUserByEmail; the count of failures is not looked at.
LoginReads(r, typed) ==
    /\ request[r] = Idle /\ typed <= latest
    /\ request' = [request EXCEPT ![r] =
           [step |-> "login", typed |-> typed, seen |-> [account EXCEPT !.failures = 0]]]
    /\ UNCHANGED <<account, link, session, latest, overlapped, reused, guesses>>

RightPassword(r) == request[r].typed = request[r].seen.password

\* Mutant: the lock comes one failure late.
LocksLate(failures) == failures > MaxFailures

Locks(failures) == failures >= MaxFailures

\* login, recordLoginFailure: the count is of the row as it is now; of an account
\* that was locked when it was read nothing is recorded.
LoginRefused(r) ==
    /\ At(r, "login")
    /\ ~RightPassword(r) \/ request[r].seen.locked \/ request[r].seen.status # "active"
    /\ IF ~RightPassword(r) /\ ~request[r].seen.locked
       THEN /\ account' = [account EXCEPT !.failures = IF @ > MaxFailures THEN @ ELSE @ + 1,
                                          !.locked = @ \/ Locks(account.failures + 1)]
            /\ guesses' = guesses + 1
       ELSE UNCHANGED <<account, guesses>>
    /\ request' = [request EXCEPT ![r] = Idle]
    /\ UNCHANGED <<link, session, latest, overlapped, reused>>

\* login, recordLoginSuccess: an outdated hash is replaced by a new one of the
\* password that was typed, whatever the password has become since.
LoginAccepted(r) ==
    /\ At(r, "login")
    /\ RightPassword(r) /\ ~request[r].seen.locked /\ request[r].seen.status = "active"
    /\ LET rehash == request[r].seen.outdated IN
          /\ account' = [account EXCEPT !.failures = 0, !.locked = FALSE,
                             !.password = IF rehash THEN request[r].typed ELSE @,
                             !.outdated = @ /\ ~rehash]
          /\ overlapped' = (overlapped \/ (rehash /\ request[r].seen.version < account.version))
    /\ request' = [request EXCEPT ![r].step = "open",
                                  ![r].seen = [version |-> request[r].seen.version]]
    /\ guesses' = 0
    /\ UNCHANGED <<link, session, latest, reused>>

\* login, createSession
LoginOpens(r, s) ==
    /\ At(r, "open") /\ session[s] = NoRow
    /\ session' = [session EXCEPT ![s] =
           [family |-> s, rotated |-> FALSE, revoked |-> FALSE, token |-> request[r].seen.version,
            password |-> request[r].typed, read |-> request[r].seen.version,
            born |-> account.version]]
    /\ request' = [request EXCEPT ![r] = Idle]
    /\ UNCHANGED <<account, link, latest, overlapped, reused, guesses>>

\* changePassword, up to the hash of the new one.  A wrong current password is
\* refused and changes nothing: it is no recorded failure and locks nothing.
ChangeReads(r, s) ==
    /\ request[r] = Idle /\ Authenticated(s)
    /\ request' = [request EXCEPT ![r] = [step |-> "change"]]
    /\ UNCHANGED <<account, link, session, latest, overlapped, reused, guesses>>

\* changePassword of the repository
ChangeWrites(r) ==
    /\ At(r, "change")
    /\ SetPassword(FALSE)
    /\ request' = [request EXCEPT ![r] = Idle]
    /\ UNCHANGED <<link, guesses>>

LockExpires ==
    /\ account.locked
    /\ account' = [account EXCEPT !.locked = FALSE] /\ guesses' = 0
    /\ UNCHANGED <<link, session, request, latest, overlapped, reused>>

-----------------------------------------------------------------------------
(* Sessions. *)

\* Mutant: a token that was rotated may be rotated again.
NotRevoked(s) == ~session[s].revoked

MayRotate(s) == ~session[s].rotated /\ ~session[s].revoked

\* rotateSession, rotated
Rotate(s, t) ==
    /\ session[s] # NoRow /\ session[t] = NoRow
    /\ MayRotate(s) /\ account.status = "active"
    /\ session' = [session EXCEPT ![s].rotated = TRUE,
                                  ![t] = [session[s] EXCEPT !.rotated = FALSE,
                                                          !.token = account.version]]
    /\ UNCHANGED <<account, link, request, latest, overlapped, reused, guesses>>

WholeFamily(s) == Family(session[s].family)

\* rotateSession, reused
Reuse(s) ==
    /\ session[s] # NoRow /\ session[s].rotated
    /\ session' = Revoked(WholeFamily(s))
    /\ reused' = reused \cup {session[s].family}
    /\ UNCHANGED <<account, link, request, latest, overlapped, guesses>>

\* logout, revokeSession of another session, logoutAll
Logout(s) ==
    /\ Authenticated(s)
    /\ \E S \in {{t} : t \in Sessions} \cup {Sessions} : session' = Revoked(S)
    /\ UNCHANGED <<account, link, request, latest, overlapped, reused, guesses>>

SessionExpires(s) ==
    /\ Live(s)
    /\ session' = Revoked({s})
    /\ UNCHANGED <<account, link, request, latest, overlapped, reused, guesses>>

Next ==
    \/ LockExpires
    \/ \E l \in Links : SendLink(l) \/ LinkExpires(l) \/ VerifyEmail(l) \/ ResetPassword(l)
    \/ \E r \in Requests :
          \/ \E typed \in 0..MaxPasswords : LoginReads(r, typed)
          \/ LoginRefused(r) \/ LoginAccepted(r) \/ ChangeWrites(r)
          \/ \E s \in Sessions : LoginOpens(r, s) \/ ChangeReads(r, s)
    \/ \E s \in Sessions : \/ Reuse(s) \/ Logout(s) \/ SessionExpires(s)
                           \/ \E t \in Sessions : Rotate(s, t)

Spec == Init /\ [][Next]_authVars

-----------------------------------------------------------------------------
(* Properties. *)

\* The rows, links and requests are well formed, and one link of a purpose works.
TypeOK ==
    /\ account.status \in {"pending", "active"} /\ account.password \in 1..latest
    /\ account.version \in 0..MaxPasswords /\ account.failures \in 0..MaxFailures + 1
    /\ \A p \in {"verify", "reset"} : Cardinality({l \in Links : link[l] = p}) <= 1
    /\ \A s \in Sessions : session[s] # NoRow => session[s].family \in Sessions
    /\ \A r \in Requests : request[r] # Idle => request[r].step \in {"login", "open", "change"}

\* Of a family one refresh token works at most, and none once a token that was
\* rotated has come again, in whatever order rotations, replays and revocations
\* reach the rows (rotateSession).
OneTokenPerFamily ==
    /\ \A f \in Sessions : \A s, t \in Family(f) : Live(s) /\ Live(t) => s = t
    /\ \A f \in reused : \A s \in Family(f) : session[s].revoked

\* No session that was opened before the password was set lives on after it,
\* also when its token was being rotated, and the password is the one set last.
\* Two things escape, both of a login that had read the account before: its
\* session, whose access token is refused though its refresh token works, and
\* its rehash, which writes the earlier password back (recordLoginSuccess).
NoSessionOutlivesThePassword ==
    /\ \A s \in Sessions : Live(s) =>
          /\ session[s].born = account.version
          /\ session[s].password = latest \/ session[s].read < session[s].born \/ overlapped
    /\ account.password = latest \/ overlapped

\* Between unlockings no more wrong passwords are tried than lock the account,
\* and those of the logins that were under way when it locked.  It is about log-ins:
\* a session may offer wrong current passwords without end (changePassword).
GuessesAreBounded == guesses <= MaxFailures + Cardinality(Requests) - 1
=============================================================================
