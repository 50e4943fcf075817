---------------------------- MODULE PositionOps ----------------------------
(* The rules of chess as position.go, move.go and nullmove.go play them, on *)
(* the 64 squares of the board: pseudo-legal and legal moves, the making and *)
(* unmaking of a move with its incremental hash, and what is a position.      *)
(* A set of pieces, rights or flags stands for a bit set, and the hash for   *)
(* the set of Zobrist keys that have been XORed into it: adding a key twice  *)
(* takes it out again, and two different sets never collide.                 *)
EXTENDS Integers, FiniteSets

Opponent(color) == IF color = "white" THEN "black" ELSE "white"
Officers == {"queen", "rook", "bishop", "knight"}
Piece(type, color) == [type |-> type, color |-> color]
Empty == Piece("none", "white")

Squares == 0..63
NoSquare == 64
CounterMax == 65535             \* the counters are uint16
Rights == {"white", "black"} \X {"kingSide", "queenSide"}

File(square) == square % 8
Rank(square) == square \div 8
OnBoard(file, rank) == file \in 0..7 /\ rank \in 0..7
At(file, rank) == 8 * rank + file
Abs(n) == IF n < 0 THEN -n ELSE n
Sign(n) == IF n < 0 THEN -1 ELSE IF n > 0 THEN 1 ELSE 0

Move(from, to, promotion, flags) ==
    [from |-> from, to |-> to, promotion |-> promotion, flags |-> flags]

-----------------------------------------------------------------------------
(* The hash. *)

Xor(keys, more) == (keys \ more) \cup (more \ keys)
PieceKey(piece, square) ==
    IF piece.type = "none" THEN {} ELSE {<<"piece", piece.color, piece.type, square>>}
TurnKey == {<<"turn">>}
CastlingKey(rights) == {<<"castling", rights>>}
EnPassantKey(square) == IF square = NoSquare THEN {} ELSE {<<"enPassant", square>>}

CalculateHash(p) ==
    (UNION {PieceKey(p.board[s], s) : s \in Squares}) \cup CastlingKey(p.castling)
        \cup EnPassantKey(p.enPassant) \cup (IF p.turn = "black" THEN TurnKey ELSE {})

SetPiece(p, square, piece) ==
    [p EXCEPT !.board = [@ EXCEPT ![square] = piece],
              !.hash = Xor(Xor(@, PieceKey(p.board[square], square)), PieceKey(piece, square))]

-----------------------------------------------------------------------------
(* Attacks: from a square to a target by the geometry of the piece. *)

ClearLine(board, from, to) ==
    LET df == Sign(File(to) - File(from))
        dr == Sign(Rank(to) - Rank(from))
        far == IF df # 0 THEN Abs(File(to) - File(from)) ELSE Abs(Rank(to) - Rank(from))
    IN  \A n \in 1 .. far - 1 : board[At(File(from) + n * df, Rank(from) + n * dr)] = Empty

Forward(color) == IF color = "white" THEN 1 ELSE -1

Hits(board, from, target) ==
    LET df == File(target) - File(from)
        dr == Rank(target) - Rank(from)
        straight == df = 0 \/ dr = 0
        diagonal == Abs(df) = Abs(dr)
        type == board[from].type
    IN  CASE type = "pawn" -> dr = Forward(board[from].color) /\ Abs(df) = 1
          [] type = "knight" -> {Abs(df), Abs(dr)} = {1, 2}
          [] type = "king" -> Abs(df) <= 1 /\ Abs(dr) <= 1
          [] type = "bishop" -> diagonal /\ ClearLine(board, from, target)
          [] type = "rook" -> straight /\ ClearLine(board, from, target)
          [] type = "queen" -> (straight \/ diagonal) /\ ClearLine(board, from, target)
          [] OTHER -> FALSE

Attacked(board, target, by) ==
    \E from \in Squares : board[from] # Empty /\ board[from].color = by /\ Hits(board, from, target)

(* A side without a king counts as in check. *)
InCheck(board, color) ==
    \A s \in Squares : board[s] = Piece("king", color) => Attacked(board, s, Opponent(color))

-----------------------------------------------------------------------------
(* Pseudo-legal moves: by steps and rays. *)

KnightSteps == {s \in (-2 .. 2) \X (-2 .. 2) : Abs(s[1]) + Abs(s[2]) = 3}
KingSteps == ((-1 .. 1) \X (-1 .. 1)) \ {<<0, 0>>}
BishopSteps == {s \in KingSteps : s[1] # 0 /\ s[2] # 0}
RookSteps == KingSteps \ BishopSteps

StepTargets(board, from, steps) ==
    {At(File(from) + s[1], Rank(from) + s[2]) :
        s \in {s \in steps : OnBoard(File(from) + s[1], Rank(from) + s[2])}}

SlideTargets(board, from, steps) ==
    LET On(s, n) == OnBoard(File(from) + n * s[1], Rank(from) + n * s[2])
        To(s, n) == At(File(from) + n * s[1], Rank(from) + n * s[2])
    IN  {To(r[1], r[2]) : r \in {r \in steps \X (1..7) :
            /\ On(r[1], r[2])
            /\ \A k \in 1 .. r[2] - 1 : board[To(r[1], k)] = Empty}}

(* A piece may go to the targets its own side does not hold. *)
PieceMoves(board, from, targets) ==
    {Move(from, to, "none", IF board[to] = Empty THEN {} ELSE {"capture"}) :
        to \in {t \in targets : board[t] = Empty \/ board[t].color # board[from].color}}

PawnMove(from, to, flags) ==
    IF Rank(to) \in {0, 7} THEN {Move(from, to, promotion, flags) : promotion \in Officers}
    ELSE {Move(from, to, "none", flags)}

PawnMoves(p, from, color) ==
    LET ahead == Forward(color)
        start == IF color = "white" THEN 1 ELSE 6
        push == At(File(from), Rank(from) + ahead)
        double == At(File(from), Rank(from) + 2 * ahead)
        sides == {At(file, Rank(from) + ahead) :
                     file \in {f \in {File(from) - 1, File(from) + 1} : OnBoard(f, Rank(from) + ahead)}}
        taken(to) == p.board[to] # Empty /\ p.board[to].color # color
        passed(to) == /\ ~taken(to) /\ to = p.enPassant
                      /\ p.board[to - 8 * ahead] = Piece("pawn", Opponent(color))
    IN  IF ~OnBoard(File(from), Rank(from) + ahead) THEN {}
        ELSE (IF p.board[push] = Empty THEN PawnMove(from, push, {}) ELSE {})
             \cup (IF p.board[push] = Empty /\ Rank(from) = start /\ p.board[double] = Empty
                   THEN {Move(from, double, "none", {"pawnDouble"})} ELSE {})
             \cup (UNION {PawnMove(from, to, {"capture"}) : to \in {t \in sides : taken(t)}})
             \cup {Move(from, to, "none", {"capture", "enPassant"}) : to \in {t \in sides : passed(t)}}

(* The right, the rook's file, the files that must be empty, the king's path. *)
CastleOptions(color) ==
    {[right |-> <<color, "kingSide">>, rook |-> 7, empty |-> {5, 6}, path |-> {5, 6}, to |-> 6],
     [right |-> <<color, "queenSide">>, rook |-> 0, empty |-> {1, 2, 3}, path |-> {3, 2}, to |-> 2]}

\* Mutant: lets the king pass through an attacked square.
CastleMoves_ThroughCheck(p, from, color) ==
    LET rank == IF color = "white" THEN 0 ELSE 7
    IN  IF from # At(4, rank) \/ InCheck(p.board, color) THEN {}
        ELSE {Move(from, At(o.to, rank), "none", {"castle"}) : o \in {o \in CastleOptions(color) :
                 /\ o.right \in p.castling
                 /\ p.board[At(o.rook, rank)] = Piece("rook", color)
                 /\ \A file \in o.empty : p.board[At(file, rank)] = Empty}}

CastleMoves(p, from, color) ==
    LET rank == IF color = "white" THEN 0 ELSE 7
    IN  IF from # At(4, rank) \/ InCheck(p.board, color) THEN {}
        ELSE {Move(from, At(o.to, rank), "none", {"castle"}) : o \in {o \in CastleOptions(color) :
                 /\ o.right \in p.castling
                 /\ p.board[At(o.rook, rank)] = Piece("rook", color)
                 /\ \A file \in o.empty : p.board[At(file, rank)] = Empty
                 /\ \A file \in o.path : ~Attacked(p.board, At(file, rank), Opponent(color))}}

MovesFrom(p, from) ==
    LET type == p.board[from].type
    IN  CASE type = "pawn" -> PawnMoves(p, from, p.turn)
          [] type = "knight" -> PieceMoves(p.board, from, StepTargets(p.board, from, KnightSteps))
          [] type = "bishop" -> PieceMoves(p.board, from, SlideTargets(p.board, from, BishopSteps))
          [] type = "rook" -> PieceMoves(p.board, from, SlideTargets(p.board, from, RookSteps))
          [] type = "queen" -> PieceMoves(p.board, from, SlideTargets(p.board, from, KingSteps))
          [] type = "king" -> PieceMoves(p.board, from, StepTargets(p.board, from, KingSteps))
                                  \cup CastleMoves(p, from, p.turn)
          [] OTHER -> {}

PseudoMoves(p) ==
    UNION {MovesFrom(p, from) : from \in
              {s \in Squares : p.board[s] # Empty /\ p.board[s].color = p.turn}}

-----------------------------------------------------------------------------
(* Making a move, and the record that takes it back. *)

(* The square of the pawn an en passant capture takes. *)
Passed(to, color) == IF color = "white" THEN to - 8 ELSE to + 8

(* Where the rook of a castling move comes from and goes to. *)
RookFrom(to) == IF File(to) = 6 THEN to + 1 ELSE to - 2
RookTo(to) == IF File(to) = 6 THEN to - 1 ELSE to + 1

RookHome(right) ==
    At(IF right[2] = "kingSide" THEN 7 ELSE 0, IF right[1] = "white" THEN 0 ELSE 7)

\* Mutant: forgets that a rook taken at home ends a right.
UpdateCastling_RookTaken(rights, move, piece, captured) ==
    {right \in rights :
        ~(piece.type = "king" /\ piece.color = right[1]) /\ move.from # RookHome(right)}

UpdateCastling(rights, move, piece, captured) ==
    {right \in rights :
        /\ ~(piece.type = "king" /\ piece.color = right[1])
        /\ move.from # RookHome(right)
        /\ ~(move.to = RookHome(right) /\ captured.type = "rook")}

(* The pieces a move puts somewhere else, one setPiece after the other. *)
PiecesMoved(p, move) ==
    LET piece == p.board[move.from]
        lifted == SetPiece(p, move.from, Empty)
        placed == SetPiece(lifted, move.to, piece)
        rook == placed.board[RookFrom(move.to)]
        promoted == SetPiece(placed, move.to, Piece(move.promotion, piece.color))
    IN  IF "enPassant" \in move.flags THEN SetPiece(placed, Passed(move.to, piece.color), Empty)
        ELSE IF move.promotion # "none" THEN promoted
        ELSE IF "castle" \in move.flags
             THEN SetPiece(SetPiece(placed, RookFrom(move.to), Empty), RookTo(move.to), rook)
        ELSE placed

Captured(p, move) ==
    IF "enPassant" \in move.flags THEN p.board[Passed(move.to, p.board[move.from].color)]
    ELSE p.board[move.to]

Bump(counter) == (counter + 1) % (CounterMax + 1)

\* Mutant: leaves the old en passant key in the hash.
MakeUnchecked_KeepsPassedKey(p, move) ==
    LET piece == p.board[move.from]
        moved == PiecesMoved(p, move)
        castling == UpdateCastling(p.castling, move, piece, Captured(p, move))
        enPassant == IF "pawnDouble" \in move.flags THEN (move.from + move.to) \div 2 ELSE NoSquare
        resets == piece.type = "pawn" \/ Captured(p, move) # Empty
    IN  [moved EXCEPT !.castling = castling,
                      !.enPassant = enPassant,
                      !.halfmoveClock = IF resets THEN 0 ELSE Bump(@),
                      !.fullmoveNumber = IF piece.color = "black" THEN Bump(@) ELSE @,
                      !.turn = Opponent(@),
                      !.hash = Xor(Xor(Xor(@, CastlingKey(p.castling)), TurnKey),
                                   Xor(CastlingKey(castling), EnPassantKey(enPassant)))]

MakeUnchecked(p, move) ==
    LET piece == p.board[move.from]
        moved == PiecesMoved(p, move)
        castling == UpdateCastling(p.castling, move, piece, Captured(p, move))
        enPassant == IF "pawnDouble" \in move.flags THEN (move.from + move.to) \div 2 ELSE NoSquare
        resets == piece.type = "pawn" \/ Captured(p, move) # Empty
        old == Xor(CastlingKey(p.castling), EnPassantKey(p.enPassant))
        new == Xor(CastlingKey(castling), EnPassantKey(enPassant))
    IN  [moved EXCEPT !.castling = castling,
                      !.enPassant = enPassant,
                      !.halfmoveClock = IF resets THEN 0 ELSE Bump(@),
                      !.fullmoveNumber = IF piece.color = "black" THEN Bump(@) ELSE @,
                      !.turn = Opponent(@),
                      !.hash = Xor(Xor(Xor(@, old), TurnKey), new)]

LegalMoves(p) ==
    {move \in PseudoMoves(p) : ~InCheck(MakeUnchecked(p, move).board, p.turn)}

(* What a user or the wire asks for carries no flags. *)
ResolveMove(p, from, to, promotion) ==
    {m \in LegalMoves(p) : m.from = from /\ m.to = to /\ m.promotion = promotion}

\* Mutant: forgets the pawn taken en passant.
RememberedSquares_NoPassed(p, move) ==
    {move.from, move.to}
        \cup (IF "castle" \in move.flags THEN {RookFrom(move.to), RookTo(move.to)} ELSE {})

RememberedSquares(p, move) ==
    {move.from, move.to}
        \cup (IF "enPassant" \in move.flags THEN {Passed(move.to, p.turn)} ELSE {})
        \cup (IF "castle" \in move.flags THEN {RookFrom(move.to), RookTo(move.to)} ELSE {})

UndoOf(p, move) ==
    [squares |-> [s \in RememberedSquares(p, move) |-> p.board[s]],
     turn |-> p.turn, castling |-> p.castling, enPassant |-> p.enPassant,
     halfmoveClock |-> p.halfmoveClock, fullmoveNumber |-> p.fullmoveNumber, hash |-> p.hash]

UnmakeMove(p, undo) ==
    [board |-> [s \in Squares |-> IF s \in DOMAIN undo.squares THEN undo.squares[s] ELSE p.board[s]],
     turn |-> undo.turn, castling |-> undo.castling, enPassant |-> undo.enPassant,
     halfmoveClock |-> undo.halfmoveClock, fullmoveNumber |-> undo.fullmoveNumber,
     hash |-> undo.hash]

(* Passing the turn saturates the counters and computes the hash anew. *)
NullMove(p) ==
    LET Saturated(n) == IF n < CounterMax THEN n + 1 ELSE n
        passed == [p EXCEPT !.enPassant = NoSquare,
                            !.halfmoveClock = Saturated(@),
                            !.fullmoveNumber = IF p.turn = "black" THEN Saturated(@) ELSE @,
                            !.turn = Opponent(@)]
    IN  [passed EXCEPT !.hash = CalculateHash(passed)]

-----------------------------------------------------------------------------
(* What ParseFEN accepts, the key of a position, and dead boards. *)

Held(board, color, types) ==
    Cardinality({s \in Squares : board[s].color = color /\ board[s].type \in types})
Extra(board, color, type, kept) ==
    LET n == Held(board, color, {type}) IN IF n > kept THEN n - kept ELSE 0

MaterialPossible(board, color) ==
    /\ Held(board, color, {"king"}) = 1
    /\ Held(board, color, {"king", "pawn"} \cup Officers) <= 16
    /\ Held(board, color, {"pawn"}) <= 8
    /\ Extra(board, color, "queen", 1) + Extra(board, color, "rook", 2)
         + Extra(board, color, "bishop", 2) + Extra(board, color, "knight", 2)
            <= 8 - Held(board, color, {"pawn"})

EnPassantPossible(p) ==
    LET back == IF p.turn = "white" THEN -8 ELSE 8      \* from the target to the pawn
    IN  /\ Rank(p.enPassant) = IF p.turn = "white" THEN 5 ELSE 2
        /\ p.board[p.enPassant] = Empty
        /\ p.board[p.enPassant + back] = Piece("pawn", Opponent(p.turn))
        /\ p.board[p.enPassant - back] = Empty
        /\ p.halfmoveClock = 0

Valid(p) ==
    /\ \A s \in Squares : p.board[s].type = "pawn" => Rank(s) \notin {0, 7}
    /\ \A color \in {"white", "black"} : MaterialPossible(p.board, color)
    /\ \A s, t \in Squares : p.board[s] = Piece("king", "white") /\ p.board[t] = Piece("king", "black")
          => Abs(File(s) - File(t)) > 1 \/ Abs(Rank(s) - Rank(t)) > 1
    /\ \A right \in p.castling :
          /\ p.board[At(4, Rank(RookHome(right)))] = Piece("king", right[1])
          /\ p.board[RookHome(right)] = Piece("rook", right[1])
    /\ p.enPassant # NoSquare => EnPassantPossible(p)
    /\ ~InCheck(p.board, Opponent(p.turn))

\* Mutant: does not ask whether the capture is legal.
RepetitionKey_Pseudo(p) ==
    [board |-> p.board, turn |-> p.turn, castling |-> p.castling,
     enPassant |-> IF \E m \in PseudoMoves(p) : "enPassant" \in m.flags THEN p.enPassant ELSE NoSquare]

(* An en passant square is part of the key only if some move can use it. *)
RepetitionKey(p) ==
    [board |-> p.board, turn |-> p.turn, castling |-> p.castling,
     enPassant |-> IF \E m \in LegalMoves(p) : "enPassant" \in m.flags THEN p.enPassant ELSE NoSquare]

InsufficientMaterial(board) ==
    LET Placed(type) == {s \in Squares : board[s].type = type}
        minors == Placed("knight") \cup Placed("bishop")
        oneColor == \A s, t \in Placed("bishop") : (File(s) + Rank(s)) % 2 = (File(t) + Rank(t)) % 2
    IN  /\ Placed("pawn") \cup Placed("rook") \cup Placed("queen") = {}
        /\ oneColor
        /\ Cardinality(minors) <= 1 \/ (Placed("knight") = {} /\ Placed("bishop") # {})

=============================================================================
