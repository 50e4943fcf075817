------------------------------- MODULE Match -------------------------------
(***************************************************************************)
(* One authoritative match (protocol.Match): players, a spectator and the  *)
(* wall clock act on it in any order.  Each call holds Match.mu from its   *)
(* first read to its last write, so each is one action.                    *)
(***************************************************************************)
EXTENDS MatchOps

CONSTANTS
    MatchID,    \* match identifiers a request may name
    ThisMatch,  \* the identifier of this match
    MaxMoves,   \* bound: moves accepted
    MaxNow      \* bound: clock ticks

ASSUME BoundAssumption ==
    /\ ThisMatch \in MatchID
    /\ MaxMoves \in Nat
    /\ MaxNow \in Nat

VARIABLES
    match,      \* the match record
    now,        \* what clock.now() returns
    (* Observability: not in the code, read by the properties only. *)
    spent,      \* [Color -> ticks the side has really been on the move for]
    granted,    \* [Color -> increment the side has earned]
    agreed      \* players who called for a draw in the current position

ghosts == <<spent, granted, agreed>>
vars == <<match, now, spent, granted, agreed>>

\* A move request; the hash is one some position has.
Request == [player   : Seat,
            match    : MatchID,
            sequence : 0 .. MaxMoves,
            hash     : {Hash[p] : p \in Position},
            move     : Move]

Init ==
    /\ match = NewMatch
    /\ now = 0
    /\ spent = [c \in Color |-> 0]
    /\ granted = [c \in Color |-> 0]
    /\ agreed = {}

-----------------------------------------------------------------------------
Join(p, c) ==
    /\ match' = JoinMatch(match, p, c, now).match
    /\ UNCHANGED <<now, ghosts>>

Spectate(p) ==
    /\ match' = JoinSpectator(match, p).match
    /\ UNCHANGED <<now, ghosts>>

\* The match answers a request for another match before it looks at the rest.
RequestError(s, r) ==
    IF ~s.expired /\ r.player # NoPlayer /\ r.match # ThisMatch
    THEN "unauthorized"
    ELSE MoveError(s, r)

MoveAccepted(r) ==
    /\ match.sequence < MaxMoves
    /\ RequestError(SyncClock(match, now), r) = OK
    /\ match' = ApplyMove(match, r, now).match
    /\ granted' = [granted EXCEPT ![Turn[match.position]] = @ + Increment]
    /\ agreed' = {}
    /\ UNCHANGED <<now, spent>>

MoveRejected(r) ==
    /\ RequestError(SyncClock(match, now), r) # OK
    /\ match' = SyncClock(match, now)
    /\ UNCHANGED <<now, ghosts>>

\* No player is nameless here: the empty name would match an empty seat
\* (playerColor), but Server.Resign and Server.OfferDraw refuse it first.
PlayerResigns(p) ==
    /\ match' = Resign(match, p, now).match
    /\ UNCHANGED <<now, ghosts>>

PlayerOffersDraw(p) ==
    LET outcome == OfferDraw(match, p, now)
    IN  /\ match' = outcome.match
        /\ agreed' = IF outcome.err = OK THEN agreed \cup {p} ELSE agreed
        /\ UNCHANGED <<now, spent, granted>>

\* Snapshot, State and ListMatches read the match and settle its clock.
Snapshot ==
    /\ match' = SyncClock(match, now)
    /\ UNCHANGED <<now, ghosts>>

\* Real time: whoever is on the move of a live game is thinking.
Tick ==
    /\ now < MaxNow
    /\ now' = now + 1
    /\ spent' = IF Live(match)
                THEN [spent EXCEPT ![Turn[match.position]] = @ + 1]
                ELSE spent
    /\ UNCHANGED <<match, granted, agreed>>

Next ==
    \/ \E p \in Player, c \in Color : Join(p, c)
    \/ \E p \in Player : Spectate(p)
    \/ \E r \in Request : MoveAccepted(r)
    \/ \E r \in Request : MoveRejected(r)
    \/ \E p \in Player : PlayerResigns(p)
    \/ \E p \in Player : PlayerOffersDraw(p)
    \/ Snapshot
    \/ Tick

Spec == Init /\ [][Next]_vars

-----------------------------------------------------------------------------
(* Properties.                                                             *)

\* The match is a match record, and the observers count.
TypeOK ==
    /\ match \in MatchRecord
    /\ now \in Nat
    /\ spent \in [Color -> Nat]
    /\ granted \in [Color -> Nat]
    /\ agreed \in SUBSET Player

\* No player ever sits on both sides of the board or watches a game he plays,
\* whatever the order of joins, re-joins and spectating (NewMatchFromState
\* refuses a stored match of which this is false).
SeatsExclusive == SeatsOK(match)

\* The move history is a legal game that leads from the initial position to
\* the current one and is as long as the sequence number says: what a restart
\* needs to rebuild the match from its history.
HistoryReplays == LineOK(match)

\* The thinking time not yet taken off the clock of side c at time t.
Pending(m, t, c) ==
    IF Live(m) /\ c = Turn[m.position]
    THEN t - m.startedAt ELSE 0

ExactClock(m, t, sp, gr) ==
    \A c \in Color :
        IF m.expired /\ c = Turn[m.position]
        THEN m.remaining[c] = 0 /\ sp[c] >= Initial + gr[c]
        ELSE m.remaining[c] - Pending(m, t, c) = Initial + gr[c] - sp[c]

\* The clocks are exact: however snapshots, refused requests, draws and moves
\* interleave, a side is charged once for the time it was on the move, never
\* for the opponent's, and gets one increment per move of its own.  A side
\* that lost on time has really used up all it had.
ClockIsExact == ExactClock(match, now, spent, granted)

AgreedDraw(m, ag) ==
    m.result = Drawn => \/ Legal[m.position] = {}
                        \/ \A c \in Color : m.players[c] \in ag

\* A draw is either on the board or was called for by both seated players in
\* the position it ended in: an offer made before the last move is dead, and a
\* repeated offer by one player agrees to nothing.
DrawIsAgreed == AgreedDraw(match, agreed)

\* No move counts once the mover's real thinking time is used up, even when
\* nobody looked at the clock in between.
NoMoveAfterFlag ==
    [][match'.sequence # match.sequence /\ Initial > 0 =>
         LET mover == Turn[match.position]
         IN  spent[mover] < Initial + granted[mover]]_vars

\* Once decided, a match is frozen: late moves, draws, resignations, snapshots
\* and joins change neither the outcome nor the board, line or times behind it.
DecidedIsFrozen ==
    [][match.result # "*" =>
         /\ match'.result = match.result
         /\ match'.position = match.position
         /\ match'.moves = match.moves
         /\ match'.remaining = match.remaining
         /\ match'.drawOfferedBy = match.drawOfferedBy]_vars

\* A match keeps the promise made to the holders of its snapshots.
Contract == INSTANCE MatchContract
              WITH line <- match.moves, outcome <- match.result,
                   Outcome <- Result, Undecided <- "*"
KeepsContract == Contract!ContractSpec
=============================================================================
