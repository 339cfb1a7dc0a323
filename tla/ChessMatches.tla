---------------------------- MODULE ChessMatches ----------------------------
(***************************************************************************)
(* One chess match, from its invitation to its result: ChessRepository,    *)
(* ChessWorker and the rules of chess.ts, under src/src/arcade.            *)
(*                                                                         *)
(* Every operation is one database transaction that locks the match first, *)
(* so each is one action; what races is the board a browser tab shows      *)
(* against the board in the table.  A position is how many plies were      *)
(* played and which colours could still give mate; any legal move is one   *)
(* that may take the opponent's last such piece and may end the game.      *)
(***************************************************************************)
EXTENDS Integers, Sequences, FiniteSets, Functions

CONSTANTS Players, Creator, Tabs,
          Holder,      \* [Tabs -> Players]: whose browser tab it is
          Budget,      \* time_control_seconds, the time of each colour
          InviteTtl,   \* INVITE_TTL_MS, in the same unit
          MaxVersion,  \* bound on the versions of the match
          NoGuest

ASSUME ChessAssumption ==
    /\ Creator \in Players /\ NoGuest \notin Players
    /\ Holder \in [Tabs -> Players]
    /\ Budget \in Nat \ {0} /\ InviteTtl \in Nat /\ MaxVersion \in Nat

VARIABLES
    match,     \* the row of chess_matches
    waited,    \* the time since the invitation, or since the turn began
    chessLog,  \* history: the moves and draw requests, one for each version
    board      \* [Tabs -> [version, ply]]: the view a tab got last

chessVars == <<match, waited, chessLog, board>>

Colours == {"w", "b"}
Other(c) == IF c = "w" THEN "b" ELSE "w"
Results == Colours \cup {"draw", "none"}
Open == {"waiting", "active"}
Closed == {"complete", "cancelled", "declined", "expired"}
Unseen == [version |-> -1, ply |-> 0]

Turn(m) == IF m.ply % 2 = 0 THEN "w" ELSE "b"
ColourOf(m, p) == IF p = Creator THEN "w" ELSE "b"
IsPlayer(m, p) == p \in {Creator, m.black}

ChessInit ==
    /\ match = [status |-> "none", black |-> NoGuest, version |-> 0, ply |-> 0,
                canMate |-> Colours, ms |-> [c \in Colours |-> Budget],
                offer |-> "none", result |-> "none", termination |-> "none"]
    /\ waited = 0 /\ chessLog = <<>>
    /\ board = [t \in Tabs |-> Unseen]

\* createInvite
CreateInvite ==
    /\ match.status = "none"
    /\ match' = [match EXCEPT !.status = "waiting"]
    /\ waited' = 0
    /\ UNCHANGED <<chessLog, board>>

-----------------------------------------------------------------------------
(* The two deadlines. *)

Lapsed(m) == m.status = "waiting" /\ waited >= InviteTtl
FlagFell(m) == m.status = "active" /\ waited >= m.ms[Turn(m)]

Completed(m, result, termination) ==
    [m EXCEPT !.status = "complete", !.result = result, !.termination = termination,
              !.version = @ + 1, !.offer = "none"]

\* timeoutOutcome: the draw is for positions in which neither side can mate.
FlagOutcome(m) == IF m.canMate = {} THEN "draw" ELSE Other(Turn(m))

TimedOut(m) == [Completed(m, FlagOutcome(m), "timeout") EXCEPT !.ms[Turn(m)] = 0]

\* expireOrTimeout
Settled(m) ==
    IF Lapsed(m) THEN [m EXCEPT !.status = "expired"]
    ELSE IF FlagFell(m) THEN TimedOut(m)
    ELSE m

-----------------------------------------------------------------------------
(* The invitation. *)

StillWaiting(m) == m.status = "waiting"

\* acceptInvite: the token is deleted with the acceptance, so one guest gets in.
Accept(p) ==
    /\ match.status = "waiting"
    /\ Lapsed(match) \/ p # Creator
    /\ IF Lapsed(match)
       THEN match' = Settled(match) /\ UNCHANGED waited
       ELSE match' = [match EXCEPT !.status = "active", !.black = p] /\ waited' = 0
    /\ UNCHANGED <<chessLog, board>>

\* declineInvite, by any guest that holds the token
Decline(p) ==
    /\ match.status = "waiting" /\ p # Creator
    /\ match' = [match EXCEPT !.status = IF Lapsed(match) THEN "expired" ELSE "declined"]
    /\ UNCHANGED <<waited, chessLog, board>>

\* cancelInvite, also past the time the invitation lapses
Cancel ==
    /\ StillWaiting(match)
    /\ match' = [match EXCEPT !.status = "cancelled"]
    /\ UNCHANGED <<waited, chessLog, board>>

-----------------------------------------------------------------------------
(* Play. *)

Shows(t, m) == board' = [board EXCEPT ![t] = [version |-> m.version, ply |-> m.ply]]
Records(event) == chessLog' = Append(chessLog, event)

\* An operation that finds the time of the player to move spent settles the
\* match and does nothing else.
FindsFlagFallen(t) ==
    /\ FlagFell(match)
    /\ match' = TimedOut(match) /\ Shows(t, match')
    /\ Records([kind |-> "flag", by |-> Turn(match), spent |-> waited, shown |-> match.ply])
    /\ UNCHANGED waited

\* view
View(t) ==
    /\ match.status # "none" /\ IsPlayer(match, Holder[t])
    /\ \/ FindsFlagFallen(t)
       \/ /\ ~FlagFell(match)
          /\ match' = Settled(match) /\ Shows(t, match')
          /\ UNCHANGED <<waited, chessLog>>

\* Mutant: a move is taken whatever version it was made on.
AnyVersion(t) == board[t] # Unseen

OnThisVersion(t) == board[t].version = match.version

\* Mutant: the offer of a draw stands after the next move.
MovedKeepingOffer(m, left, mates, end) ==
    [m EXCEPT !.version = @ + 1, !.ply = @ + 1, !.ms[Turn(m)] = left, !.canMate = mates,
              !.status = IF end = "none" THEN "active" ELSE "complete",
              !.result = CASE end = "none" -> "none"
                           [] end = "checkmate" -> Turn(m)
                           [] OTHER -> "draw",
              !.termination = end]

Moved(m, left, mates, end) ==
    [MovedKeepingOffer(m, left, mates, end) EXCEPT !.offer = "none"]

\* applyChessMove: the mover may capture the last piece that could mate him, and
\* gameTermination ends the game when neither side can mate any more.
Endings(m, mates) ==
    {end \in {"none", "checkmate", "drawn"} :
        /\ end = "checkmate" => Turn(m) \in mates
        /\ mates = {} => end = "drawn"}

HasTheTurn(t) == ColourOf(match, Holder[t]) = Turn(match)

\* Mutant: the clock is written back as it was read.
NotCharged(m) == m.ms[Turn(m)]

TimeLeft(m) == m.ms[Turn(m)] - waited

\* move
Move(t) ==
    /\ match.status = "active" /\ IsPlayer(match, Holder[t]) /\ match.version < MaxVersion
    /\ board[t] # Unseen /\ OnThisVersion(t)
    /\ \/ FindsFlagFallen(t)
       \/ /\ ~FlagFell(match) /\ HasTheTurn(t)
          /\ \E mates \in {match.canMate, match.canMate \ {Other(Turn(match))}} :
                \E end \in Endings(match, mates) :
                   match' = Moved(match, TimeLeft(match), mates, end)
          /\ Records([kind |-> "move", by |-> ColourOf(match, Holder[t]), spent |-> waited,
                      shown |-> board[t].ply])
          /\ waited' = 0 /\ Shows(t, match')

\* resign
Resign(t) ==
    /\ match.status = "active" /\ IsPlayer(match, Holder[t])
    /\ \/ FindsFlagFallen(t)
       \/ /\ ~FlagFell(match)
          /\ LET c == ColourOf(match, Holder[t]) IN
                /\ match' = Completed(match, Other(c), "resignation")
                /\ Records([kind |-> "resign", by |-> c, spent |-> 0, shown |-> match.ply])
          /\ Shows(t, match') /\ UNCHANGED waited

Accepts(c) == match.offer = Other(c)

\* offerOrAcceptDraw: accepts the opponent's offer, withdraws one's own, or makes one.
Draw(t) ==
    /\ match.status = "active" /\ IsPlayer(match, Holder[t]) /\ match.version < MaxVersion
    /\ \/ FindsFlagFallen(t)
       \/ /\ ~FlagFell(match)
          /\ LET c == ColourOf(match, Holder[t]) IN
                /\ match' = IF Accepts(c) THEN Completed(match, "draw", "agreement")
                            ELSE [match EXCEPT !.version = @ + 1,
                                               !.offer = IF @ = c THEN "none" ELSE c]
                /\ Records([kind |-> "draw", by |-> c, spent |-> 0, shown |-> match.ply])
          /\ Shows(t, match') /\ UNCHANGED waited

-----------------------------------------------------------------------------
(* The worker and the passing of time. *)

\* Mutant: the sweep looks at the invitations only.
SettledInvitations(m) == IF Lapsed(m) THEN Settled(m) ELSE m

\* What the two statements of the sweep make of the match.
Swept(m) == Settled(m)

\* sweep
Sweep ==
    /\ Swept(match) # match
    /\ match' = Swept(match)
    /\ IF FlagFell(match)
       THEN Records([kind |-> "flag", by |-> Turn(match), spent |-> waited, shown |-> match.ply])
       ELSE UNCHANGED chessLog
    /\ UNCHANGED <<waited, board>>

\* Time passes as far as the next deadline: what lies beyond makes no difference.
ClockTicks ==
    /\ match.status \in Open /\ ~Lapsed(match) /\ ~FlagFell(match)
    /\ waited' = waited + 1
    /\ UNCHANGED <<match, chessLog, board>>

ChessNext ==
    \/ CreateInvite \/ Cancel \/ Sweep \/ ClockTicks
    \/ \E p \in Players : Accept(p) \/ Decline(p)
    \/ \E t \in Tabs : View(t) \/ Move(t) \/ Resign(t) \/ Draw(t)

\* ChessWorker sweeps on an interval whatever the last sweep threw, and time passes.
ChessFairness == WF_chessVars(Sweep) /\ WF_chessVars(ClockTicks)

ChessSpec == ChessInit /\ [][ChessNext]_chessVars
FairChessSpec == ChessSpec /\ ChessFairness

-----------------------------------------------------------------------------
(* Properties. *)

\* Every field of the match, the tabs and the log is well formed.
ChessTypeOK ==
    /\ match.status \in {"none"} \cup Open \cup Closed
    /\ match.black \in Players \cup {NoGuest}
    /\ match.version \in 0..MaxVersion + 1 /\ match.ply \in 0..match.version
    /\ match.canMate \subseteq Colours /\ match.ms \in [Colours -> 0..Budget]
    /\ match.offer \in Colours \cup {"none"} /\ match.result \in Results
    /\ waited \in 0..(IF InviteTtl > Budget THEN InviteTtl ELSE Budget)
    /\ \A t \in Tabs : board[t].version \in -1..match.version

IsMove(i) == chessLog[i].kind = "move"
MovesBefore(n) == {i \in 1..n - 1 : IsMove(i)}

\* The moves of the record alternate, and each was chosen by a player looking at
\* the very position it was played on, whatever other tabs and the opponent did
\* meanwhile (ChessRepository.move's version and turn checks).
MovesFitTheBoard ==
    \A i \in DOMAIN chessLog : IsMove(i) =>
        /\ chessLog[i].shown = Cardinality(MovesBefore(i))
        /\ chessLog[i].by = IF chessLog[i].shown % 2 = 0 THEN "w" ELSE "b"

MovesBy(c) == {i \in DOMAIN chessLog : IsMove(i) /\ chessLog[i].by = c}
TimeSpent(c) == SumFunctionOnSet([i \in DOMAIN chessLog |-> chessLog[i].spent], MovesBy(c))

\* A clock is the budget less the time its colour took for its moves, through
\* draw offers and views, until its flag falls and it is zero; who lost on time
\* had spent all of it (move's clocks and expireOrTimeout).
ClocksAccountForEveryTurn ==
    \A c \in Colours :
        IF match.termination = "timeout" /\ c = Turn(match)
        THEN match.ms[c] = 0 /\ TimeSpent(c) + waited >= Budget
        ELSE match.ms[c] = Budget - TimeSpent(c) /\ match.ms[c] > 0

\* The log before its last event ends in exactly k requests for a draw by c.
AskedInARow(c, k) ==
    LET n == Len(chessLog)
        Asks(i) == chessLog[i].kind = "draw" /\ chessLog[i].by = c
    IN  /\ k < n /\ \A i \in n - k .. n - 1 : Asks(i)
        /\ k + 1 < n => ~Asks(n - k - 1)

\* A draw is agreed only if, on this very position, the other player had asked
\* for one and not taken it back: an offer does not outlive the next move, and
\* nobody agrees with himself (offerOrAcceptDraw and move's reset of the offer).
DrawNeedsBoth ==
    match.termination = "agreement" =>
        \E k \in 1..MaxVersion :
            k % 2 = 1 /\ AskedInARow(Other(chessLog[Len(chessLog)].by), k)

\* A match ends without anybody looking at it: by the sweep, an invitation
\* lapses and a flag falls (ChessWorker).
MatchesEnd == match.status \in Open ~> match.status \in Closed
=============================================================================
