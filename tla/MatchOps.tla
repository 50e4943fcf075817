------------------------------ MODULE MatchOps ------------------------------
(***************************************************************************)
(* The operations of protocol.Match (src/protocol/protocol.go, clock.go)   *)
(* as functions from a match record to the record the operation leaves     *)
(* behind and the error it returns.  Every operation runs under Match.mu,  *)
(* so a caller composes them as atomic steps.                              *)
(*                                                                         *)
(* Chess itself is a parameter: a finite game graph given by the side to   *)
(* move (Turn), the legal moves (Legal), the position after a move         *)
(* (After), whether the side to move is in check (InCheck) and the         *)
(* position hash (Hash, not assumed injective).                            *)
(***************************************************************************)
EXTENDS Integers, SequencesExt

CONSTANTS
    Player,      \* player identifiers
    NoPlayer,    \* the empty player identifier
    Position,    \* chess positions
    Start,       \* the position a match is created with
    Move,        \* move texts a client may submit, legal or not
    Turn,        \* [Position -> Color]
    Legal,       \* [Position -> SUBSET Move]
    InCheck,     \* [Position -> BOOLEAN]
    After,       \* [Position -> [Move -> Position]]
    Hash,        \* [Position -> hash values]
    Initial,     \* ClockConfig.Initial in clock ticks; zero disables the clock
    Increment    \* ClockConfig.Increment in clock ticks

Color == {"white", "black"}
Other(c) == IF c = "white" THEN "black" ELSE "white"

ASSUME PlayerAssumption == NoPlayer \notin Player

\* The two sides alternate: the only fact about chess that the clock needs.
ASSUME GameAssumption ==
    /\ Start \in Position
    /\ Turn \in [Position -> Color]
    /\ Legal \in [Position -> SUBSET Move]
    /\ InCheck \in [Position -> BOOLEAN]
    /\ After \in [Position -> [Move -> Position]]
    /\ \A p \in Position : \A mv \in Legal[p] :
          Turn[After[p][mv]] = Other(Turn[p])

\* NewMatchWithClock refuses everything else.
ASSUME ClockAssumption ==
    /\ Initial \in Nat
    /\ Increment \in Nat
    /\ Initial = 0 => Increment = 0

Result == {"*", "1-0", "0-1", "1/2-1/2"}   \* "*": undecided (the empty string in memory)
WinFor(c) == IF c = "white" THEN "1-0" ELSE "0-1"
Drawn == "1/2-1/2"

Seat == Player \cup {NoPlayer}

\* type Match struct, with type matchClock struct flattened into it.
MatchRecord ==
    [position      : Position,
     sequence      : Nat,
     moves         : Seq(Move),
     players       : [Color -> Seat],
     spectators    : SUBSET Player,
     result        : Result,
     drawOfferedBy : Seat,
     remaining     : [Color -> Nat],
     startedAt     : Int,
     running       : BOOLEAN,
     expired       : BOOLEAN]

OK == "ok"

Done(m) == [match |-> m, err |-> OK]
Fail(m, e) == [match |-> m, err |-> e]

Seated(m, p) == \E c \in Color : m.players[c] = p
SeatOf(m, p) == CHOOSE c \in Color : m.players[c] = p

-----------------------------------------------------------------------------
(* Outcomes decided by the position alone.                                 *)

PositionResult(p) ==
    IF Legal[p] # {} THEN "*"
    ELSE IF InCheck[p] THEN WinFor(Other(Turn[p]))
    ELSE Drawn

\* The position after playing a line of moves from a position.
Replay(p, line) == FoldLeft(LAMBDA q, mv : After[q][mv], p, line)

\* Position.Apply accepts every move of the line in turn.
LegalLine(p, line) ==
    \A i \in 1 .. Len(line) : line[i] \in Legal[Replay(p, SubSeq(line, 1, i - 1))]

NewMatch ==
    [position      |-> Start,
     sequence      |-> 0,
     moves         |-> << >>,
     players       |-> [c \in Color |-> NoPlayer],
     spectators    |-> {},
     result        |-> PositionResult(Start),
     drawOfferedBy |-> NoPlayer,
     remaining     |-> [c \in Color |-> Initial],
     startedAt     |-> 0,
     running       |-> FALSE,
     expired       |-> FALSE]

-----------------------------------------------------------------------------
(* The server clock.                                                       *)

StartClock(m, now) ==
    IF /\ Initial > 0
       /\ ~m.running
       /\ m.result = "*"
       /\ \A c \in Color : m.players[c] # NoPlayer
    THEN [m EXCEPT !.running = TRUE, !.startedAt = now]
    ELSE m

\* The clock of the side to move is ticking.
Live(m) == m.running /\ m.result = "*"

\* The side to move has been thinking since the clock was last settled.
Thinking(m, now) == Live(m) /\ now > m.startedAt

\* Mutant: forgets to move startedAt, so the same thinking time is charged twice.
SyncClock_NoReset(m, now) ==
    LET turn == Turn[m.position]
        left == m.remaining[turn] - (now - m.startedAt)
    IN  IF ~Thinking(m, now) THEN m
        ELSE IF left > 0
        THEN [m EXCEPT !.remaining = [@ EXCEPT ![turn] = left]]
        ELSE [m EXCEPT !.remaining = [@ EXCEPT ![turn] = 0],
                       !.running = FALSE, !.expired = TRUE,
                       !.result = WinFor(Other(turn))]

\* Mutant: the flag falls one tick late.
SyncClock_LateFlag(m, now) ==
    LET turn == Turn[m.position]
        left == m.remaining[turn] - (now - m.startedAt)
    IN  IF ~Thinking(m, now) THEN m
        ELSE IF left >= 0
        THEN [m EXCEPT !.remaining = [@ EXCEPT ![turn] = left], !.startedAt = now]
        ELSE [m EXCEPT !.remaining = [@ EXCEPT ![turn] = 0], !.startedAt = now,
                       !.running = FALSE, !.expired = TRUE,
                       !.result = WinFor(Other(turn))]

SyncClock(m, now) ==
    LET turn == Turn[m.position]
        left == m.remaining[turn] - (now - m.startedAt)
    IN  IF ~Thinking(m, now) THEN m
        ELSE IF left > 0
        THEN [m EXCEPT !.remaining = [@ EXCEPT ![turn] = left],
                       !.startedAt = now]
        ELSE [m EXCEPT !.remaining = [@ EXCEPT ![turn] = 0],
                       !.startedAt = now,
                       !.running = FALSE,
                       !.expired = TRUE,
                       !.result = WinFor(Other(turn))]

FinishMoveClock(m, mover, now) ==
    LET credited == [m.remaining EXCEPT ![mover] = m.remaining[mover] + Increment]
    IN  IF Initial = 0 THEN m
        ELSE IF m.result = "*"
        THEN [m EXCEPT !.remaining = credited, !.running = TRUE, !.startedAt = now]
        ELSE [m EXCEPT !.remaining = credited, !.running = FALSE]

-----------------------------------------------------------------------------
(* Seats.                                                                  *)

\* Mutant: looks only at the requested seat.
JoinMatch_OtherSeatUnchecked(m, p, color, now) ==
    IF m.players[color] \notin {NoPlayer, p} THEN Fail(m, "seat_taken")
    ELSE Done(StartClock([m EXCEPT
                            !.players = [@ EXCEPT ![color] = p],
                            !.spectators = @ \ {p}], now))

\* Mutant: a player may change sides, leaving the other seat empty.
JoinMatch_MovesSeat(m, p, color, now) ==
    IF m.players[color] \notin {NoPlayer, p} THEN Fail(m, "seat_taken")
    ELSE Done(StartClock([m EXCEPT
                            !.players = [c \in Color |->
                                           IF c = color THEN p
                                           ELSE IF @[c] = p THEN NoPlayer ELSE @[c]],
                            !.spectators = @ \ {p}], now))

JoinMatch(m, p, color, now) ==
    IF \/ m.players[color] \notin {NoPlayer, p}
       \/ m.players[Other(color)] = p
    THEN Fail(m, "seat_taken")
    ELSE Done(StartClock([m EXCEPT
                            !.players = [@ EXCEPT ![color] = p],
                            !.spectators = @ \ {p}], now))

\* Mutant: a seated player may watch, too.
JoinSpectator_SeatUnchecked(m, p) == Done([m EXCEPT !.spectators = @ \cup {p}])

JoinSpectator(m, p) ==
    IF Seated(m, p) THEN Fail(m, "seat_taken")
    ELSE Done([m EXCEPT !.spectators = @ \cup {p}])

-----------------------------------------------------------------------------
(* Moves.  A request names the player, the sequence and hash it was        *)
(* computed from, and the move; the first failing check decides the error. *)

\* Mutant: a resigned or drawn game can be played on.
MoveError_AfterOutcome(m, r) ==
    IF m.expired THEN "timeout"
    ELSE IF r.player = NoPlayer THEN "unauthorized"
    ELSE IF r.sequence # m.sequence THEN "sequence_conflict"
    ELSE IF r.hash # Hash[m.position] THEN "position_mismatch"
    ELSE IF m.players[Turn[m.position]] \notin {NoPlayer, r.player}
         THEN "unauthorized"
    ELSE IF r.move \notin Legal[m.position] THEN "illegal_move"
    ELSE OK

\* Mutant: does not ask which position the move was computed from.
MoveError_Unsynchronized(m, r) ==
    IF m.expired THEN "timeout"
    ELSE IF r.player = NoPlayer THEN "unauthorized"
    ELSE IF m.result # "*" THEN "match_over"
    ELSE IF m.players[Turn[m.position]] \notin {NoPlayer, r.player}
         THEN "unauthorized"
    ELSE IF r.move \notin Legal[m.position] THEN "illegal_move"
    ELSE OK

MoveError(m, r) ==
    IF m.expired THEN "timeout"
    ELSE IF r.player = NoPlayer THEN "unauthorized"
    ELSE IF r.sequence # m.sequence THEN "sequence_conflict"
    ELSE IF r.hash # Hash[m.position] THEN "position_mismatch"
    ELSE IF m.result # "*" THEN "match_over"
    ELSE IF m.players[Turn[m.position]] \notin {NoPlayer, r.player}
         THEN "unauthorized"
    ELSE IF r.move \notin Legal[m.position] THEN "illegal_move"
    ELSE OK

\* Mutant: leaves the draw offer on the table.
CommitMove_KeepsOffer(m, mv, now) ==
    LET next   == After[m.position][mv]
        actual == PositionResult(next)
    IN  FinishMoveClock(
          [m EXCEPT
             !.position = next,
             !.sequence = @ + 1,
             !.moves    = Append(@, mv),
             !.result   = IF actual # "*" THEN actual ELSE @],
          Turn[m.position], now)

CommitMove(m, mv, now) ==
    LET next   == After[m.position][mv]
        actual == PositionResult(next)
    IN  FinishMoveClock(
          [m EXCEPT
             !.position      = next,
             !.sequence      = @ + 1,
             !.moves         = Append(@, mv),
             !.drawOfferedBy = NoPlayer,
             !.result        = IF actual # "*" THEN actual ELSE @],
          Turn[m.position], now)

ApplyMove(m, r, now) ==
    LET s == SyncClock(m, now)
    IN  IF MoveError(s, r) = OK THEN Done(CommitMove(s, r.move, now))
        ELSE Fail(s, MoveError(s, r))

-----------------------------------------------------------------------------
(* Resignation and draws: refused, in this order, after the flag, after    *)
(* any outcome, and to anyone without a seat.                              *)

SeatedError(m, p) ==
    IF m.expired THEN "timeout"
    ELSE IF m.result # "*" THEN "match_over"
    ELSE IF ~Seated(m, p) THEN "unauthorized"
    ELSE OK

Resign(m, p, now) ==
    LET s == SyncClock(m, now)
    IN  IF SeatedError(s, p) # OK THEN Fail(s, SeatedError(s, p))
        ELSE Done([s EXCEPT !.result = WinFor(Other(SeatOf(s, p)))])

OfferDraw(m, p, now) ==
    LET s == SyncClock(m, now)
    IN  IF SeatedError(s, p) # OK THEN Fail(s, SeatedError(s, p))
        ELSE IF s.drawOfferedBy \notin {NoPlayer, p}
        THEN Done([s EXCEPT !.result = Drawn])
        ELSE Done([s EXCEPT !.drawOfferedBy = p])

-----------------------------------------------------------------------------
(* What is always true of a match record.                                  *)

\* The seats are kept apart, and from the spectators.
SeatsOK(m) ==
    /\ m.players["white"] # NoPlayer => m.players["white"] # m.players["black"]
    /\ \A c \in Color : m.players[c] \notin m.spectators

\* The line is a legal game from the initial position to the current one.
LineOK(m) ==
    /\ m.sequence = Len(m.moves)
    /\ LegalLine(Start, m.moves)
    /\ m.position = Replay(Start, m.moves)
=============================================================================
