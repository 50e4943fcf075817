------------------------------ MODULE GameOps ------------------------------
(***************************************************************************)
(* The operations of chess.Game (src/game.go, src/pgn.go) as functions of  *)
(* a game record.  The rules of chess are a parameter, a graph of boards;  *)
(* a board is what repetitionKey distinguishes, and a position is a board  *)
(* with its half-move clock.                                               *)
(***************************************************************************)
EXTENDS Integers, SequencesExt

CONSTANTS
    Board,            \* boards up to repetitionKey
    Move,
    Turn,             \* [Board -> Color]
    Legal,            \* [Board -> SUBSET Move]
    Zeroing,          \* [Board -> SUBSET Move]: pawn moves and captures
    InCheck,          \* [Board -> BOOLEAN]
    Insufficient,     \* [Board -> BOOLEAN]: neither side can mate
    After,            \* [Board -> [Move -> Board]]
    FiftyMoves,       \* 100 half-moves
    SeventyFiveMoves, \* 150 half-moves
    Threefold,        \* 3 occurrences
    Fivefold          \* 5 occurrences

Color == {"white", "black"}
Other(c) == IF c = "white" THEN "black" ELSE "white"

ASSUME ChessAssumption ==
    /\ Turn \in [Board -> Color]
    /\ Legal \in [Board -> SUBSET Move]
    /\ Zeroing \in [Board -> SUBSET Move]
    /\ InCheck \in [Board -> BOOLEAN]
    /\ Insufficient \in [Board -> BOOLEAN]
    /\ After \in [Board -> [Move -> Board]]

ASSUME ThresholdAssumption ==
    /\ FiftyMoves \in Nat
    /\ SeventyFiveMoves \in Nat
    /\ FiftyMoves <= SeventyFiveMoves
    /\ Threefold \in Nat
    /\ Fivefold \in Nat
    /\ 2 <= Threefold
    /\ Threefold <= Fivefold

Rules == {"casual", "FIDE"}
Undeclared == "undeclared"   \* the empty string in Game.result
Outcome == {"1-0", "0-1", "1/2-1/2"}
WinFor(c) == IF c = "white" THEN "1-0" ELSE "0-1"

Position == [board : Board, half : Nat]

GameRecord ==
    [positions : Seq(Position),
     moves     : Seq(Move),
     cursor    : Nat,
     result    : Outcome \cup {Undeclared}]

NewGame(start) ==
    [positions |-> <<start>>, moves |-> << >>, cursor |-> 0, result |-> Undeclared]

\* applyUnchecked, of a legal move.
Successor(p, mv) ==
    [board |-> After[p.board][mv],
     half  |-> IF mv \in Zeroing[p.board] THEN 0 ELSE p.half + 1]

-----------------------------------------------------------------------------
(* The state of the game after its first n moves; the cursor picks one.    *)

Current(g) == g.positions[g.cursor + 1]

Repetitions(g, n) ==
    Cardinality({i \in 1 .. n + 1 : g.positions[i].board = g.positions[n + 1].board})

\* A half-move clock or a repetition that has come up to a threshold.
DrawThreshold(g, n, half, times) ==
    g.positions[n + 1].half >= half \/ Repetitions(g, n) >= times

\* statusWithRules: what the board and the history say, as a result.
Automatic(g, n, rules) ==
    LET b == g.positions[n + 1].board
    IN  IF Legal[b] = {}
        THEN IF InCheck[b] THEN WinFor(Other(Turn[b])) ELSE "1/2-1/2"
        ELSE IF Insufficient[b] THEN "1/2-1/2"
        ELSE IF rules = "FIDE"
        THEN IF DrawThreshold(g, n, SeventyFiveMoves, Fivefold) THEN "1/2-1/2" ELSE "*"
        ELSE IF DrawThreshold(g, n, FiftyMoves, Threefold) THEN "1/2-1/2" ELSE "*"

\* ResultWithRules: a declared result takes precedence.
ResultOf(g, rules) ==
    IF g.result # Undeclared THEN g.result ELSE Automatic(g, g.cursor, rules)

CanClaimDraw(g) ==
    /\ g.result = Undeclared
    /\ Automatic(g, g.cursor, "FIDE") = "*"
    /\ DrawThreshold(g, g.cursor, FiftyMoves, Threefold)

-----------------------------------------------------------------------------
(* Operations.                                                             *)

\* Mutant: only a position without a legal move stops the game.
CanPlay_PastDraws(g, mv, rules) ==
    g.result = Undeclared /\ mv \in Legal[Current(g).board]

CanPlay(g, mv, rules) ==
    /\ g.result = Undeclared
    /\ Automatic(g, g.cursor, rules) = "*"
    /\ mv \in Legal[Current(g).board]

\* A move discards whatever had been undone.
Played(g, mv) ==
    [positions |-> Append(SubSeq(g.positions, 1, g.cursor + 1), Successor(Current(g), mv)),
     moves     |-> Append(SubSeq(g.moves, 1, g.cursor), mv),
     cursor    |-> g.cursor + 1,
     result    |-> g.result]

CanUndo(g) == g.cursor > 0

CanRedo(g) == g.cursor < Len(g.moves)

\* Mutant: takes the move back for good.
Undone_Truncates(g) ==
    [positions |-> SubSeq(g.positions, 1, g.cursor),
     moves     |-> SubSeq(g.moves, 1, g.cursor - 1),
     cursor    |-> g.cursor - 1,
     result    |-> Undeclared]

Undone(g) == [g EXCEPT !.cursor = @ - 1, !.result = Undeclared]
Redone(g) == [g EXCEPT !.cursor = @ + 1]

-----------------------------------------------------------------------------
(* PGN: the start, the moves up to the cursor and the casual result, in    *)
(* text; ParsePGN plays the moves again under casual rules.                *)

\* Mutant: writes what was undone, too.
PGN_WholeHistory(g) ==
    [start |-> g.positions[1], line |-> g.moves, result |-> ResultOf(g, "casual")]

PGN(g) ==
    [start |-> g.positions[1], line |-> SubSeq(g.moves, 1, g.cursor),
     result |-> ResultOf(g, "casual")]

Replayed(pgn) == FoldLeft(Played, NewGame(pgn.start), pgn.line)

\* The result ParsePGN makes of the result of the text.
Declared(pgn) == IF pgn.result = "*" THEN Undeclared ELSE pgn.result

ParsePGN(pgn) == [Replayed(pgn) EXCEPT !.result = Declared(pgn)]

\* ParsePGN returns no error: every move can be played in turn, and the result
\* is not another one than the board's.
Readable(pgn) ==
    /\ \A n \in 1 .. Len(pgn.line) :
         CanPlay(FoldLeft(Played, NewGame(pgn.start), SubSeq(pgn.line, 1, n - 1)),
                 pgn.line[n], "casual")
    /\ LET actual == Automatic(Replayed(pgn), Len(pgn.line), "casual")
       IN  actual \in {"*", pgn.result}
=============================================================================
