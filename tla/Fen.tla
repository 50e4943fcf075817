-------------------------------- MODULE Fen --------------------------------
(* Forsyth-Edwards notation (position.go). A text is a record of its six     *)
(* fields: a rank is a sequence of symbols, each a piece or a number of      *)
(* empty squares, and the castling rights are a sequence of their letters.   *)
EXTENDS PositionOps, SequencesExt

Man(piece) == [piece |-> piece, squares |-> 1]
Gap(n) == [piece |-> Empty, squares |-> n]

\* KQkq
Letters == << <<"white", "kingSide">>, <<"white", "queenSide">>,
              <<"black", "kingSide">>, <<"black", "queenSide">> >>

(* One more square of a rank: empty ones in a row become one number.         *)
Written(symbols, piece) ==
    IF piece # Empty THEN Append(symbols, Man(piece))
    ELSE IF symbols = <<>> \/ Last(symbols).piece # Empty THEN Append(symbols, Gap(1))
    ELSE Append(Front(symbols), Gap(Last(symbols).squares + 1))

RankText(board, rank) ==
    FoldLeft(LAMBDA symbols, file : Written(symbols, board[At(file, rank)]),
             <<>>, [n \in 1 .. 8 |-> n - 1])

(* The eighth rank comes first.                                              *)
FEN(p) ==
    [ranks |-> [n \in 1 .. 8 |-> RankText(p.board, 8 - n)],
     turn |-> p.turn,
     castling |-> SelectSeq(Letters, LAMBDA right : right \in p.castling),
     enPassant |-> p.enPassant,
     halfmoveClock |-> p.halfmoveClock,
     fullmoveNumber |-> p.fullmoveNumber]

-----------------------------------------------------------------------------
RankRead(symbols) ==
    FoldLeft(LAMBDA pieces, symbol : pieces \o [n \in 1 .. symbol.squares |-> symbol.piece],
             <<>>, symbols)

Board(ranks) ==
    LET pieces == FoldLeft(LAMBDA below, rank : RankRead(rank) \o below, <<>>, ranks)
    IN  [s \in Squares |-> pieces[s + 1]]

(* What the fields say, before it is known to make sense.                    *)
Read(fen) ==
    LET p == [board |-> Board(fen.ranks), turn |-> fen.turn, castling |-> ToSet(fen.castling),
              enPassant |-> fen.enPassant, halfmoveClock |-> fen.halfmoveClock,
              fullmoveNumber |-> fen.fullmoveNumber, hash |-> {}]
    IN  [p EXCEPT !.hash = CalculateHash(p)]

\* No letter twice.
CastlingRead(letters) == IsInjective(letters)

CounterRead(n, allowZero) == n <= CounterMax /\ (allowZero \/ n # 0)

Accepted(fen) ==
    /\ Len(fen.ranks) = 8
    /\ \A rank \in ToSet(fen.ranks) : Len(RankRead(rank)) = 8
    /\ fen.turn \in {"white", "black"}
    /\ CastlingRead(fen.castling)
    /\ fen.enPassant # NoSquare => Rank(fen.enPassant) \in {2, 5}
    /\ CounterRead(fen.halfmoveClock, TRUE)
    /\ CounterRead(fen.fullmoveNumber, FALSE)
    /\ Valid(Read(fen))

(* The positions a text is read as: one, or none if it is refused.           *)
ParseFEN(fen) == IF Accepted(fen) THEN {Read(fen)} ELSE {}

=============================================================================
