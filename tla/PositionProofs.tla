--------------------------- MODULE PositionProofs ---------------------------
(***************************************************************************)
(* Proofs about Position, for every start that is accepted and any number  *)
(* of moves made, taken back and passed.                                   *)
(***************************************************************************)
EXTENDS Position, TLAPS

Colors == {"white", "black"}

\* A position by its fields.
Pos(board, turn, castling, enPassant, halfmoveClock, fullmoveNumber, hash) ==
    [board |-> board, turn |-> turn, castling |-> castling, enPassant |-> enPassant,
     halfmoveClock |-> halfmoveClock, fullmoveNumber |-> fullmoveNumber, hash |-> hash]

Shaped(p) ==
    /\ p = Pos(p.board, p.turn, p.castling, p.enPassant, p.halfmoveClock, p.fullmoveNumber, p.hash)
    /\ p.board = [s \in Squares |-> p.board[s]]
    /\ p.turn \in Colors

-----------------------------------------------------------------------------
(* The squares of the moves.                                               *)

\* Files and ranks of the board are those of its squares.
LEMMA SquareOfFileAndRank ==
    /\ \A file, rank \in 0 .. 7 : At(file, rank) \in Squares
    /\ \A s \in Squares : File(s) \in 0 .. 7 /\ Rank(s) \in 0 .. 7 /\ s = At(File(s), Rank(s))
    /\ \A file, rank \in 0 .. 7 : File(At(file, rank)) = file /\ Rank(At(file, rank)) = rank
BY DEF At, File, Rank, Squares

\* A step ends on the board.
LEMMA StepTargetsOnBoard ==
    ASSUME NEW board, NEW from \in Squares, NEW steps
    PROVE  StepTargets(board, from, steps) \subseteq Squares
BY SquareOfFileAndRank DEF StepTargets, OnBoard

\* So does a ray.
LEMMA SlideTargetsOnBoard ==
    ASSUME NEW board, NEW from \in Squares, NEW steps
    PROVE  SlideTargets(board, from, steps) \subseteq Squares
BY SquareOfFileAndRank DEF SlideTargets, OnBoard

\* What every pseudo-legal move of a piece on a square is like.
Sound(p, from, m) ==
    /\ m.from = from /\ m.to \in Squares
    /\ "enPassant" \in m.flags => Passed(m.to, p.turn) \in Squares /\ m.to = p.enPassant
    /\ "castle" \in m.flags => RookFrom(m.to) \in Squares /\ RookTo(m.to) \in Squares

\* A move of a piece that is no pawn and does not castle.
LEMMA PieceMovesSound ==
    ASSUME NEW p, NEW from \in Squares, NEW targets, targets \subseteq Squares,
           NEW m \in PieceMoves(p.board, from, targets)
    PROVE  Sound(p, from, m) /\ "enPassant" \notin m.flags
<1>1. PICK to \in targets :
        m = Move(from, to, "none", IF p.board[to] = Empty THEN {} ELSE {"capture"})
  BY DEF PieceMoves
<1>2. m.from = from /\ m.to = to /\ m.flags \subseteq {"capture"}
  BY <1>1 DEF Move
<1>3. QED BY <1>2 DEF Sound

\* The moves of a pawn to one square, with their promotions.
LEMMA PawnMoveFields ==
    ASSUME NEW from, NEW to, NEW flags, NEW m \in PawnMove(from, to, flags)
    PROVE  /\ m.from = from /\ m.to = to /\ m.flags = flags
           /\ m = Move(from, to, m.promotion, flags)
BY DEF PawnMove, Move

\* Squares in front of a pawn, and those it takes on.
Ahead(p, from, n) == At(File(from), Rank(from) + n * Forward(p.turn))
Sides(p, from) ==
    {At(file, Rank(from) + Forward(p.turn)) :
       file \in {f \in {File(from) - 1, File(from) + 1} : OnBoard(f, Rank(from) + Forward(p.turn))}}
Taken(p, to) == p.board[to] # Empty /\ p.board[to].color # p.turn
StartRank(p) == IF p.turn = "white" THEN 1 ELSE 6

Pushes(p, from, m) ==
    m \in PawnMove(from, Ahead(p, from, 1), {}) /\ p.board[Ahead(p, from, 1)] = Empty
Doubles(p, from, m) ==
    /\ m = Move(from, Ahead(p, from, 2), "none", {"pawnDouble"})
    /\ Rank(from) = StartRank(p) /\ p.board[Ahead(p, from, 1)] = Empty
Takes(p, from, m) ==
    \E to \in Sides(p, from) : Taken(p, to) /\ m \in PawnMove(from, to, {"capture"})
Passes(p, from, m) ==
    \E to \in Sides(p, from) :
      ~Taken(p, to) /\ to = p.enPassant /\ m = Move(from, to, "none", {"capture", "enPassant"})

\* A pawn's moves are of four kinds.
LEMMA PawnMovesCases ==
    ASSUME NEW p, NEW from, NEW m \in PawnMoves(p, from, p.turn)
    PROVE  /\ OnBoard(File(from), Rank(from) + Forward(p.turn))
           /\ Pushes(p, from, m) \/ Doubles(p, from, m) \/ Takes(p, from, m) \/ Passes(p, from, m)
<1> DEFINE ahead == Forward(p.turn)
           push == At(File(from), Rank(from) + ahead)
           double == At(File(from), Rank(from) + 2 * ahead)
           start == StartRank(p)
           sides == Sides(p, from)
           passed(to) == /\ ~Taken(p, to) /\ to = p.enPassant
                         /\ p.board[to - 8 * ahead] = Piece("pawn", Opponent(p.turn))
           one == IF p.board[push] = Empty THEN PawnMove(from, push, {}) ELSE {}
           two == IF p.board[push] = Empty /\ Rank(from) = start /\ p.board[double] = Empty
                  THEN {Move(from, double, "none", {"pawnDouble"})} ELSE {}
           takes == UNION {PawnMove(from, to, {"capture"}) : to \in {t \in sides : Taken(p, t)}}
           passes == {Move(from, to, "none", {"capture", "enPassant"}) :
                        to \in {t \in sides : passed(t)}}
<1>1. OnBoard(File(from), Rank(from) + ahead)
  BY DEF PawnMoves
<1>2. m \in one \cup two \cup takes \cup passes
  BY <1>1 DEF PawnMoves, Taken, Sides, StartRank
<1>3. push = Ahead(p, from, 1) /\ double = Ahead(p, from, 2)
  <2>1. 1 * ahead = ahead
    BY DEF Forward
  <2>2. QED BY <2>1 DEF Ahead
<1> HIDE DEF sides, push, double, ahead, start
<1>4. m \in one => Pushes(p, from, m)
  BY <1>3 DEF Pushes
<1>5. m \in two => Doubles(p, from, m)
  BY <1>3 DEF Doubles, start
<1>6. m \in takes => Takes(p, from, m)
  BY DEF Takes, sides
<1>7. m \in passes => Passes(p, from, m)
  BY DEF Passes, sides
<1> HIDE DEF one, two, takes, passes
<1>8. QED BY <1>1, <1>2, <1>4, <1>5, <1>6, <1>7 DEF ahead

\* The squares of a pawn's moves by file and rank.
LEMMA PawnSquares ==
    ASSUME NEW p, p.turn \in Colors, NEW from \in Squares,
           OnBoard(File(from), Rank(from) + Forward(p.turn))
    PROVE  /\ Ahead(p, from, 1) \in Squares
           /\ File(Ahead(p, from, 1)) = File(from)
           /\ Rank(Ahead(p, from, 1)) = Rank(from) + Forward(p.turn)
           /\ Rank(from) = StartRank(p) =>
                /\ Ahead(p, from, 2) \in Squares
                /\ File(Ahead(p, from, 2)) = File(from)
                /\ Rank(Ahead(p, from, 2)) = Rank(from) + 2 * Forward(p.turn)
           /\ \A to \in Sides(p, from) :
                /\ to \in Squares /\ Passed(to, p.turn) \in Squares
                /\ File(to) # File(from) /\ Rank(to) = Rank(from) + Forward(p.turn)
<1> DEFINE ahead == Forward(p.turn)
           f == File(from)
           r == Rank(from)
<1>1. /\ ahead \in {-1, 1} /\ f \in 0 .. 7 /\ r \in 0 .. 7 /\ r + ahead \in 0 .. 7
      /\ StartRank(p) + 2 * ahead \in 0 .. 7 /\ 1 * ahead = ahead
      /\ ahead = IF p.turn = "white" THEN 1 ELSE -1
  BY SquareOfFileAndRank DEF OnBoard, Forward, Colors, StartRank
<1>2. /\ Ahead(p, from, 1) = At(f, r + ahead)
      /\ Ahead(p, from, 2) = At(f, r + 2 * ahead)
  BY <1>1 DEF Ahead
<1>3. ASSUME NEW to \in Sides(p, from)
      PROVE  /\ to \in Squares /\ Passed(to, p.turn) \in Squares
             /\ File(to) # f /\ Rank(to) = r + ahead
  <2>1. PICK file \in {f - 1, f + 1} : OnBoard(file, r + ahead) /\ to = At(file, r + ahead)
    BY DEF Sides
  <2>2. file \in 0 .. 7 /\ file # f
    BY <1>1, <2>1 DEF OnBoard
  <2> HIDE DEF ahead, f, r
  <2>3. Passed(to, p.turn) = At(file, r)
    BY <1>1, <2>1, <2>2 DEF Passed, At
  <2>4. File(to) = file /\ Rank(to) = r + ahead /\ to \in Squares /\ At(file, r) \in Squares
    BY <1>1, <2>1, <2>2, SquareOfFileAndRank
  <2>5. QED BY <2>2, <2>3, <2>4
<1> HIDE DEF ahead, f, r
<1>4. QED BY <1>1, <1>2, <1>3, SquareOfFileAndRank DEF ahead, f, r

\* A pawn's moves.
LEMMA PawnMovesSound ==
    ASSUME NEW p, p.turn \in Colors, NEW from \in Squares, NEW m \in PawnMoves(p, from, p.turn)
    PROVE  Sound(p, from, m)
<1>1. /\ OnBoard(File(from), Rank(from) + Forward(p.turn))
      /\ Pushes(p, from, m) \/ Doubles(p, from, m) \/ Takes(p, from, m) \/ Passes(p, from, m)
  BY PawnMovesCases
<1>2. CASE Pushes(p, from, m)
  <2>1. Ahead(p, from, 1) \in Squares /\ m \in PawnMove(from, Ahead(p, from, 1), {})
    BY <1>1, <1>2, PawnSquares DEF Pushes
  <2>2. QED BY <2>1, PawnMoveFields DEF Sound
<1>3. CASE Doubles(p, from, m)
  <2>1. Ahead(p, from, 2) \in Squares /\ m = Move(from, Ahead(p, from, 2), "none", {"pawnDouble"})
    BY <1>1, <1>3, PawnSquares DEF Doubles
  <2>2. QED BY <2>1 DEF Move, Sound
<1>4. CASE Takes(p, from, m)
  <2>1. PICK to \in Squares : m \in PawnMove(from, to, {"capture"})
    BY <1>1, <1>4, PawnSquares DEF Takes
  <2>2. QED BY <2>1, PawnMoveFields DEF Sound
<1>5. CASE Passes(p, from, m)
  <2>1. PICK to \in Squares : /\ Passed(to, p.turn) \in Squares /\ to = p.enPassant
                              /\ m = Move(from, to, "none", {"capture", "enPassant"})
    BY <1>1, <1>5, PawnSquares DEF Passes
  <2>2. QED BY <2>1 DEF Move, Sound
<1>6. QED BY <1>1, <1>2, <1>3, <1>4, <1>5

\* A castling move, with the squares of its rook.
LEMMA CastleMovesSound ==
    ASSUME NEW p, NEW from \in Squares, NEW m \in CastleMoves(p, from, p.turn)
    PROVE  Sound(p, from, m) /\ "enPassant" \notin m.flags
<1> DEFINE rank == IF p.turn = "white" THEN 0 ELSE 7
<1>1. PICK file \in {2, 6} : m = Move(from, At(file, rank), "none", {"castle"})
  BY DEF CastleMoves, CastleOptions
<1>2. /\ At(file, rank) \in Squares /\ File(At(file, rank)) = file
      /\ RookFrom(At(file, rank)) \in Squares /\ RookTo(At(file, rank)) \in Squares
  <2>1. file \in 0 .. 7 /\ rank \in 0 .. 7
    OBVIOUS
  <2>2. At(file, rank) \in Squares /\ File(At(file, rank)) = file
    BY <2>1, SquareOfFileAndRank
  <2>3. CASE file = 6
    BY <2>1, <2>2, <2>3 DEF RookFrom, RookTo, At, Squares
  <2>4. CASE file = 2
    BY <2>1, <2>2, <2>4 DEF RookFrom, RookTo, At, Squares
  <2>5. QED BY <2>2, <2>3, <2>4
<1>3. QED BY <1>1, <1>2 DEF Move, Sound

LEMMA MovesFromSound ==
    ASSUME NEW p, Shaped(p), NEW from \in Squares, NEW m \in MovesFrom(p, from)
    PROVE  Sound(p, from, m)
<1> DEFINE steps(S) == PieceMoves(p.board, from, StepTargets(p.board, from, S))
           rays(S) == PieceMoves(p.board, from, SlideTargets(p.board, from, S))
<1>1. \/ m \in PawnMoves(p, from, p.turn)
      \/ \E S : m \in steps(S)
      \/ \E S : m \in rays(S)
      \/ m \in CastleMoves(p, from, p.turn)
  BY DEF MovesFrom
<1>2. ASSUME NEW S, m \in steps(S) PROVE Sound(p, from, m)
  BY <1>2, StepTargetsOnBoard, PieceMovesSound
<1>3. ASSUME NEW S, m \in rays(S) PROVE Sound(p, from, m)
  BY <1>3, SlideTargetsOnBoard, PieceMovesSound
<1>4. CASE m \in PawnMoves(p, from, p.turn)
  BY <1>4, PawnMovesSound DEF Shaped
<1>5. CASE m \in CastleMoves(p, from, p.turn)
  BY <1>5, CastleMovesSound
<1> HIDE DEF steps, rays
<1>6. QED BY <1>1, <1>2, <1>3, <1>4, <1>5

\* Every pseudo-legal move starts from a piece of the side to move.
LEMMA PseudoMovesSound ==
    ASSUME NEW p, Shaped(p), NEW m \in PseudoMoves(p)
    PROVE  /\ m.from \in Squares /\ p.board[m.from].color = p.turn
           /\ Sound(p, m.from, m)
<1>1. PICK from \in Squares : p.board[from].color = p.turn /\ m \in MovesFrom(p, from)
  BY DEF PseudoMoves
<1>2. Sound(p, from, m)
  BY <1>1, MovesFromSound
<1>3. m.from = from
  BY <1>2 DEF Sound
<1>4. QED BY <1>1, <1>2, <1>3

-----------------------------------------------------------------------------
(* Pieces that are put somewhere else.                                     *)

\* The keys of the pieces on a board.
BoardKeys(board) == UNION {PieceKey(board[s], s) : s \in Squares}

\* Keys that are no piece's.
Apart(keys) == \A piece, s : PieceKey(piece, s) \cap keys = {}

\* The hash of q is that of its pieces and some other keys.
HashOver(q, keys) == q.hash = BoardKeys(q.board) \cup keys

\* r is q with another piece on a square.
Changed(q, r, sq, x) ==
    /\ Shaped(r)
    /\ r.board[sq] = x
    /\ \A s \in Squares : s # sq => r.board[s] = q.board[s]
    /\ r.turn = q.turn /\ r.castling = q.castling /\ r.enPassant = q.enPassant
    /\ r.halfmoveClock = q.halfmoveClock /\ r.fullmoveNumber = q.fullmoveNumber
    /\ r.hash = Xor(Xor(q.hash, PieceKey(q.board[sq], sq)), PieceKey(x, sq))

\* One square changes, and the hash with it.
LEMMA SetPieceFields ==
    ASSUME NEW q, Shaped(q), NEW sq \in Squares, NEW x
    PROVE  Changed(q, SetPiece(q, sq, x), sq, x)
<1> DEFINE board == [q.board EXCEPT ![sq] = x]
           hash == Xor(Xor(q.hash, PieceKey(q.board[sq], sq)), PieceKey(x, sq))
           r == Pos(board, q.turn, q.castling, q.enPassant, q.halfmoveClock, q.fullmoveNumber, hash)
<1>1. SetPiece(q, sq, x) = [q EXCEPT !.board = board, !.hash = hash]
  BY DEF SetPiece, Shaped, Pos
<1>2. /\ board = [s \in Squares |-> IF s = sq THEN x ELSE q.board[s]]
      /\ board[sq] = x /\ \A s \in Squares : s # sq => board[s] = q.board[s]
  BY DEF Shaped
<1>3. board = [s \in Squares |-> board[s]]
  BY <1>2
<1> HIDE DEF board, hash
<1>4. SetPiece(q, sq, x) = r
  BY <1>1 DEF Shaped, Pos
<1>5. /\ r.board = board /\ r.turn = q.turn /\ r.castling = q.castling /\ r.enPassant = q.enPassant
      /\ r.halfmoveClock = q.halfmoveClock /\ r.fullmoveNumber = q.fullmoveNumber /\ r.hash = hash
  BY DEF Pos
<1>6. Shaped(r)
  BY <1>3, <1>5 DEF Shaped
<1>7. QED BY <1>2, <1>4, <1>5, <1>6 DEF board, hash, Changed

\* The key of a piece belongs to its square.
LEMMA PieceKeyOfSquare ==
    ASSUME NEW one, NEW two, NEW s, NEW t, s # t
    PROVE  PieceKey(one, s) \cap PieceKey(two, t) = {}
BY DEF PieceKey

\* setPiece takes the key of the old piece out and puts that of the new one in.
LEMMA SetPieceHash ==
    ASSUME NEW q, Shaped(q), NEW keys, Apart(keys), HashOver(q, keys), NEW sq \in Squares, NEW x
    PROVE  HashOver(SetPiece(q, sq, x), keys)
<1> DEFINE r == SetPiece(q, sq, x)
           old == PieceKey(q.board[sq], sq)
           new == PieceKey(x, sq)
           others == UNION {PieceKey(q.board[s], s) : s \in Squares \ {sq}}
<1>1. /\ r.board[sq] = x /\ \A s \in Squares : s # sq => r.board[s] = q.board[s]
      /\ r.hash = Xor(Xor(q.hash, old), new)
  <2>1. Changed(q, r, sq, x)
    BY SetPieceFields
  <2> HIDE DEF r
  <2>2. QED BY <2>1 DEF Changed
<1>2. BoardKeys(q.board) = others \cup old
  BY DEF BoardKeys
<1>3. BoardKeys(r.board) = others \cup new
  <2> HIDE DEF r, new
  <2>1. ASSUME NEW k PROVE k \in BoardKeys(r.board) <=> k \in others \cup new
    <3>1. k \in BoardKeys(r.board) <=> \E s \in Squares : k \in PieceKey(r.board[s], s)
      BY DEF BoardKeys
    <3>2. k \in others <=> \E s \in Squares \ {sq} : k \in PieceKey(r.board[s], s)
      BY <1>1
    <3>3. k \in new <=> k \in PieceKey(r.board[sq], sq)
      BY <1>1 DEF new
    <3> HIDE DEF others
    <3>4. QED BY <3>1, <3>2, <3>3
  <2>2. QED BY <2>1
<1>4. others \cap old = {} /\ others \cap new = {}
  BY PieceKeyOfSquare
<1>5. keys \cap old = {} /\ keys \cap new = {}
  BY DEF Apart
<1> HIDE DEF r, old, new, others
<1>6. Xor(Xor(others \cup old \cup keys, old), new) = others \cup new \cup keys
  BY <1>4, <1>5 DEF Xor
<1>7. QED
  <2>1. q.hash = others \cup old \cup keys
    BY <1>2 DEF HashOver
  <2>2. r.hash = others \cup new \cup keys
    BY <1>1, <1>6, <2>1
  <2>3. QED BY <1>3, <2>2 DEF HashOver, r

\* q is p with other pieces on some squares, and its hash follows.
Rearranged(p, q, squares) ==
    /\ Shaped(q)
    /\ q.turn = p.turn /\ q.castling = p.castling /\ q.enPassant = p.enPassant
    /\ q.halfmoveClock = p.halfmoveClock /\ q.fullmoveNumber = p.fullmoveNumber
    /\ \A s \in Squares \ squares : q.board[s] = p.board[s]
    /\ \A keys : Apart(keys) /\ HashOver(p, keys) => HashOver(q, keys)

LEMMA SetPieceRearranges ==
    ASSUME NEW p, NEW q, NEW squares, Rearranged(p, q, squares),
           NEW sq \in Squares, sq \in squares, NEW x
    PROVE  Rearranged(p, SetPiece(q, sq, x), squares)
<1> DEFINE r == SetPiece(q, sq, x)
<1>1. Changed(q, r, sq, x)
  BY SetPieceFields DEF Rearranged
<1>2. ASSUME NEW keys, Apart(keys), HashOver(p, keys) PROVE HashOver(r, keys)
  BY <1>2, SetPieceHash DEF Rearranged
<1> HIDE DEF r
<1>3. Rearranged(p, r, squares)
  BY <1>1, <1>2 DEF Rearranged, Changed
<1>4. QED BY <1>3 DEF r

\* A move changes the squares its undo record remembers and no other.
LEMMA PiecesMovedRearranges ==
    ASSUME NEW p, Shaped(p), NEW m \in PseudoMoves(p)
    PROVE  /\ RememberedSquares(p, m) \subseteq Squares
           /\ Rearranged(p, PiecesMoved(p, m), RememberedSquares(p, m))
<1> DEFINE squares == RememberedSquares(p, m)
           piece == p.board[m.from]
           lifted == SetPiece(p, m.from, Empty)
           placed == SetPiece(lifted, m.to, piece)
           rook == placed.board[RookFrom(m.to)]
           promoted == SetPiece(placed, m.to, Piece(m.promotion, piece.color))
           taken == SetPiece(placed, Passed(m.to, piece.color), Empty)
           gone == SetPiece(placed, RookFrom(m.to), Empty)
           castled == SetPiece(gone, RookTo(m.to), rook)
<1>1. /\ m.from \in Squares /\ m.to \in Squares /\ piece.color = p.turn
      /\ "enPassant" \in m.flags => Passed(m.to, p.turn) \in Squares
      /\ "castle" \in m.flags => RookFrom(m.to) \in Squares /\ RookTo(m.to) \in Squares
  BY PseudoMovesSound DEF Sound
<1>2. /\ squares \subseteq Squares /\ m.from \in squares /\ m.to \in squares
      /\ "enPassant" \in m.flags => Passed(m.to, p.turn) \in squares
      /\ "castle" \in m.flags => RookFrom(m.to) \in squares /\ RookTo(m.to) \in squares
  BY <1>1 DEF RememberedSquares
<1>3. Rearranged(p, p, squares)
  BY DEF Rearranged
<1>4. PiecesMoved(p, m) \in
        {IF "enPassant" \in m.flags THEN taken ELSE placed, promoted,
         IF "castle" \in m.flags THEN castled ELSE placed}
  BY DEF PiecesMoved
<1> HIDE DEF squares, piece, lifted, placed, rook, promoted, taken, gone, castled
<1>5. Rearranged(p, lifted, squares)
  BY <1>1, <1>2, <1>3, SetPieceRearranges DEF lifted
<1>6. Rearranged(p, placed, squares)
  BY <1>1, <1>2, <1>5, SetPieceRearranges DEF placed
<1>7. Rearranged(p, promoted, squares)
  BY <1>1, <1>2, <1>6, SetPieceRearranges DEF promoted
<1>8. "enPassant" \in m.flags => Rearranged(p, taken, squares)
  BY <1>1, <1>2, <1>6, SetPieceRearranges DEF taken
<1>9. "castle" \in m.flags => Rearranged(p, gone, squares)
  BY <1>1, <1>2, <1>6, SetPieceRearranges DEF gone
<1>10. "castle" \in m.flags => Rearranged(p, castled, squares)
  BY <1>1, <1>2, <1>9, SetPieceRearranges DEF castled
<1>11. QED BY <1>2, <1>4, <1>6, <1>7, <1>8, <1>10 DEF squares

-----------------------------------------------------------------------------
(* Making a move and taking it back.                                       *)

\* What a move makes of a position, its pieces apart.
Made(p, m, q) ==
    /\ Shaped(q)
    /\ q.board = PiecesMoved(p, m).board
    /\ q.turn = Opponent(p.turn)
    /\ q.hash = Xor(Xor(Xor(PiecesMoved(p, m).hash,
                            Xor(CastlingKey(p.castling), EnPassantKey(p.enPassant))),
                        TurnKey),
                    Xor(CastlingKey(q.castling), EnPassantKey(q.enPassant)))

LEMMA MakeFields ==
    ASSUME NEW p, Shaped(p), NEW m \in PseudoMoves(p)
    PROVE  Made(p, m, MakeUnchecked(p, m))
<1> DEFINE moved == PiecesMoved(p, m)
           piece == p.board[m.from]
           castling == UpdateCastling(p.castling, m, piece, Captured(p, m))
           enPassant == IF "pawnDouble" \in m.flags THEN (m.from + m.to) \div 2 ELSE NoSquare
           halfmoveClock == IF piece.type = "pawn" \/ Captured(p, m) # Empty THEN 0
                            ELSE Bump(moved.halfmoveClock)
           fullmoveNumber == IF piece.color = "black" THEN Bump(moved.fullmoveNumber)
                             ELSE moved.fullmoveNumber
           turn == Opponent(moved.turn)
           hash == Xor(Xor(Xor(moved.hash, Xor(CastlingKey(p.castling), EnPassantKey(p.enPassant))),
                           TurnKey),
                       Xor(CastlingKey(castling), EnPassantKey(enPassant)))
           q == Pos(moved.board, turn, castling, enPassant, halfmoveClock, fullmoveNumber, hash)
<1>1. Rearranged(p, moved, RememberedSquares(p, m))
  BY PiecesMovedRearranges
<1>2. MakeUnchecked(p, m) =
        [moved EXCEPT !.castling = castling, !.enPassant = enPassant,
                      !.halfmoveClock = halfmoveClock, !.fullmoveNumber = fullmoveNumber,
                      !.turn = turn, !.hash = hash]
  <2>1. moved = Pos(moved.board, moved.turn, moved.castling, moved.enPassant,
                    moved.halfmoveClock, moved.fullmoveNumber, moved.hash)
    BY <1>1 DEF Rearranged, Shaped
  <2> HIDE DEF moved
  <2>2. QED BY <2>1 DEF MakeUnchecked, Pos, moved
<1>3. MakeUnchecked(p, m) = q
  <2>1. moved = Pos(moved.board, moved.turn, moved.castling, moved.enPassant,
                    moved.halfmoveClock, moved.fullmoveNumber, moved.hash)
    BY <1>1 DEF Rearranged, Shaped
  <2> HIDE DEF moved, castling, enPassant, halfmoveClock, fullmoveNumber, turn, hash
  <2>2. QED BY <1>2, <2>1 DEF Pos
<1>4. /\ q.board = moved.board /\ q.turn = turn /\ q.hash = hash
      /\ q.castling = castling /\ q.enPassant = enPassant
      /\ q.halfmoveClock = halfmoveClock /\ q.fullmoveNumber = fullmoveNumber
  <2> HIDE DEF moved, castling, enPassant, halfmoveClock, fullmoveNumber, turn, hash
  <2>1. QED BY DEF Pos
<1>5. turn = Opponent(p.turn) /\ turn \in Colors
  BY <1>1 DEF Rearranged, Opponent, Colors
<1>6. Shaped(q)
  <2>1. moved.board = [s \in Squares |-> moved.board[s]]
    BY <1>1 DEF Rearranged, Shaped
  <2> HIDE DEF moved, castling, enPassant, halfmoveClock, fullmoveNumber, turn, hash, q
  <2>2. q = Pos(q.board, q.turn, q.castling, q.enPassant, q.halfmoveClock, q.fullmoveNumber, q.hash)
    BY <1>4 DEF q
  <2>3. QED BY <1>4, <1>5, <2>1, <2>2 DEF Shaped
<1>7. Made(p, m, q)
  <2> HIDE DEF q, turn
  <2>1. q.hash = Xor(Xor(Xor(moved.hash, Xor(CastlingKey(p.castling), EnPassantKey(p.enPassant))),
                         TurnKey),
                     Xor(CastlingKey(q.castling), EnPassantKey(q.enPassant)))
    BY <1>4
  <2>2. QED BY <1>4, <1>5, <1>6, <2>1 DEF Made
<1>8. QED BY <1>3, <1>7

\* UnmakeMove gives back what makeUnchecked changed.
LEMMA UnmakeUndoes ==
    ASSUME NEW p, Shaped(p), NEW m \in PseudoMoves(p)
    PROVE  UnmakeMove(MakeUnchecked(p, m), UndoOf(p, m)) = p
<1> DEFINE q == MakeUnchecked(p, m)
           squares == RememberedSquares(p, m)
           u == UndoOf(p, m)
           board == [s \in Squares |-> IF s \in DOMAIN u.squares THEN u.squares[s] ELSE q.board[s]]
<1>1. \A s \in Squares \ squares : q.board[s] = p.board[s]
  <2>1. Made(p, m, q) /\ Rearranged(p, PiecesMoved(p, m), squares)
    BY MakeFields, PiecesMovedRearranges
  <2> HIDE DEF q
  <2>2. QED BY <2>1 DEF Made, Rearranged
<1>2. /\ u.squares = [s \in squares |-> p.board[s]] /\ u.turn = p.turn /\ u.castling = p.castling
      /\ u.enPassant = p.enPassant /\ u.halfmoveClock = p.halfmoveClock
      /\ u.fullmoveNumber = p.fullmoveNumber /\ u.hash = p.hash
  BY DEF UndoOf
<1>3. UnmakeMove(q, u) = Pos(board, p.turn, p.castling, p.enPassant,
                             p.halfmoveClock, p.fullmoveNumber, p.hash)
  <2> HIDE DEF q, u
  <2>1. QED BY <1>2 DEF UnmakeMove, Pos
<1>4. board = [s \in Squares |-> p.board[s]]
  <2> HIDE DEF q, u, squares
  <2>1. ASSUME NEW s \in Squares
        PROVE  (IF s \in DOMAIN u.squares THEN u.squares[s] ELSE q.board[s]) = p.board[s]
    BY <1>1, <1>2
  <2>2. QED BY <2>1
<1> HIDE DEF board
<1>5. QED BY <1>3, <1>4 DEF Shaped

\* The keys of the side to move, the rights and the en passant square are no
\* piece's, and each is there once.
LEMMA OtherKeys ==
    ASSUME NEW rights, NEW square
    PROVE  /\ Apart(CastlingKey(rights)) /\ Apart(EnPassantKey(square)) /\ Apart(TurnKey)
           /\ CastlingKey(rights) \cap EnPassantKey(square) = {}
           /\ CastlingKey(rights) \cap TurnKey = {} /\ EnPassantKey(square) \cap TurnKey = {}
<1>1. Apart(CastlingKey(rights)) /\ Apart(EnPassantKey(square)) /\ Apart(TurnKey)
  BY DEF Apart, PieceKey, CastlingKey, EnPassantKey, TurnKey
<1>2. CastlingKey(rights) \cap EnPassantKey(square) = {}
  BY DEF CastlingKey, EnPassantKey
<1>3. CastlingKey(rights) \cap TurnKey = {} /\ EnPassantKey(square) \cap TurnKey = {}
  BY DEF CastlingKey, EnPassantKey, TurnKey
<1>4. QED BY <1>1, <1>2, <1>3

RightHash(p) == p.hash = CalculateHash(p)

\* The keys that are no piece's.
OtherHash(p) ==
    CastlingKey(p.castling) \cup EnPassantKey(p.enPassant)
        \cup (IF p.turn = "black" THEN TurnKey ELSE {})

LEMMA HashParts ==
    ASSUME NEW p
    PROVE  /\ CalculateHash(p) = BoardKeys(p.board) \cup OtherHash(p)
           /\ Apart(OtherHash(p))
<1>1. CalculateHash(p) = BoardKeys(p.board) \cup OtherHash(p)
  BY DEF CalculateHash, BoardKeys, OtherHash
<1>2. Apart(OtherHash(p))
  <2> DEFINE c == CastlingKey(p.castling)
             e == EnPassantKey(p.enPassant)
  <2>1. Apart(c) /\ Apart(e) /\ Apart(TurnKey)
    BY OtherKeys
  <2> HIDE DEF c, e
  <2>2. Apart(c \cup e \cup (IF p.turn = "black" THEN TurnKey ELSE {}))
    BY <2>1 DEF Apart
  <2>3. QED BY <2>2 DEF OtherHash, c, e
<1>3. QED BY <1>1, <1>2

\* The hash that is kept up to date is the hash of the new position.
LEMMA HashFollows ==
    ASSUME NEW p, Shaped(p), RightHash(p), NEW m \in PseudoMoves(p)
    PROVE  RightHash(MakeUnchecked(p, m))
<1> DEFINE q == MakeUnchecked(p, m)
           moved == PiecesMoved(p, m)
           pieces == BoardKeys(q.board)
           c == CastlingKey(p.castling)
           e == EnPassantKey(p.enPassant)
           d == CastlingKey(q.castling)
           f == EnPassantKey(q.enPassant)
           t == IF p.turn = "black" THEN TurnKey ELSE {}
           v == IF q.turn = "black" THEN TurnKey ELSE {}
<1>1. Made(p, m, q) /\ Rearranged(p, moved, RememberedSquares(p, m))
  BY MakeFields, PiecesMovedRearranges
<1>2. HashOver(p, OtherHash(p)) /\ Apart(OtherHash(p))
  BY HashParts DEF RightHash, HashOver
<1> HIDE DEF q, moved
<1>3. moved.hash = pieces \cup OtherHash(p)
  BY <1>1, <1>2 DEF Rearranged, HashOver, Made, moved
<1>4. q.hash = Xor(Xor(Xor(pieces \cup (c \cup e \cup t), Xor(c, e)), TurnKey), Xor(d, f))
  BY <1>1, <1>3 DEF Made, OtherHash, moved
<1>5. (p.turn = "black" /\ v = {} /\ t = TurnKey) \/ (p.turn = "white" /\ v = TurnKey /\ t = {})
  BY <1>1 DEF Made, Shaped, Colors, Opponent
<1>6. /\ c \cap e = {} /\ d \cap f = {} /\ c \cap TurnKey = {} /\ e \cap TurnKey = {}
      /\ d \cap TurnKey = {} /\ f \cap TurnKey = {}
      /\ pieces \cap c = {} /\ pieces \cap e = {} /\ pieces \cap d = {} /\ pieces \cap f = {}
      /\ pieces \cap TurnKey = {}
  <2>1. /\ c \cap e = {} /\ d \cap f = {} /\ c \cap TurnKey = {} /\ e \cap TurnKey = {}
        /\ d \cap TurnKey = {} /\ f \cap TurnKey = {}
        /\ Apart(c) /\ Apart(e) /\ Apart(d) /\ Apart(f) /\ Apart(TurnKey)
    BY OtherKeys
  <2>2. ASSUME NEW keys, Apart(keys) PROVE pieces \cap keys = {}
    BY <2>2 DEF Apart, BoardKeys
  <2> HIDE DEF c, e, d, f, pieces
  <2>3. QED BY <2>1, <2>2
<1>7. CalculateHash(q) = pieces \cup (d \cup f \cup v)
  BY HashParts DEF OtherHash
<1> HIDE DEF c, e, d, f, t, v, pieces
<1>8. Xor(pieces \cup (c \cup e \cup t), Xor(c, e)) = pieces \cup t
  BY <1>5, <1>6 DEF Xor
<1>9. Xor(pieces \cup t, TurnKey) = pieces \cup v
  BY <1>5, <1>6 DEF Xor
<1>10. Xor(pieces \cup v, Xor(d, f)) = pieces \cup (d \cup f \cup v)
  BY <1>5, <1>6 DEF Xor
<1>11. QED BY <1>4, <1>7, <1>8, <1>9, <1>10 DEF RightHash, q

-----------------------------------------------------------------------------
(* Reading a position, and passing the turn.                               *)

Good(p) == Shaped(p) /\ RightHash(p)

\* ParseFEN computes the hash once the other fields are read.
LEMMA ParseFENGood ==
    ASSUME NEW fen, NEW p \in ParseFEN(fen)
    PROVE  Good(p)
<1> DEFINE board == Board(fen.ranks)
           castling == ToSet(fen.castling)
           raw == Pos(board, fen.turn, castling, fen.enPassant, fen.halfmoveClock,
                      fen.fullmoveNumber, {})
           hash == CalculateHash(raw)
           q == Pos(board, fen.turn, castling, fen.enPassant, fen.halfmoveClock,
                    fen.fullmoveNumber, hash)
<1>1. p = Read(fen) /\ fen.turn \in Colors
  BY DEF ParseFEN, Accepted, Colors
<1>2. board = [s \in Squares |-> board[s]]
  BY DEF Board
<1> HIDE DEF board, castling
<1>3. Read(fen) = [raw EXCEPT !.hash = hash]
  BY DEF Read, Pos, board, castling
<1>4. Read(fen) = q
  <2> HIDE DEF hash
  <2>1. QED BY <1>3 DEF Pos
<1>5. /\ raw.board = board /\ raw.turn = fen.turn /\ raw.castling = castling
      /\ raw.enPassant = fen.enPassant
  BY DEF Pos
<1>6. /\ q.board = board /\ q.turn = fen.turn /\ q.castling = castling
      /\ q.enPassant = fen.enPassant /\ q.halfmoveClock = fen.halfmoveClock
      /\ q.fullmoveNumber = fen.fullmoveNumber /\ q.hash = hash
  <2> HIDE DEF hash
  <2>1. QED BY DEF Pos
<1>7. CalculateHash(raw) = CalculateHash(q)
  <2> HIDE DEF raw, q
  <2>1. BoardKeys(raw.board) = BoardKeys(q.board) /\ OtherHash(raw) = OtherHash(q)
    BY <1>5, <1>6 DEF OtherHash
  <2>2. QED BY <2>1, HashParts
<1>8. Shaped(q)
  <2>1. q = Pos(q.board, q.turn, q.castling, q.enPassant, q.halfmoveClock, q.fullmoveNumber, q.hash)
    <3> HIDE DEF hash, q
    <3>1. QED BY <1>6 DEF q
  <2> HIDE DEF hash, q
  <2>2. QED BY <1>1, <1>2, <1>6, <2>1 DEF Shaped
<1> HIDE DEF q
<1>9. QED BY <1>1, <1>4, <1>6, <1>7, <1>8 DEF Good, RightHash

\* So does MakeNullMove.
LEMMA NullMoveGood ==
    ASSUME NEW p, Shaped(p)
    PROVE  Good(NullMove(p))
<1> DEFINE saturated(n) == IF n < CounterMax THEN n + 1 ELSE n
           clock == saturated(p.halfmoveClock)
           number == IF p.turn = "black" THEN saturated(p.fullmoveNumber) ELSE p.fullmoveNumber
           turn == Opponent(p.turn)
           raw == Pos(p.board, turn, p.castling, NoSquare, clock, number, p.hash)
           hash == CalculateHash(raw)
           q == Pos(p.board, turn, p.castling, NoSquare, clock, number, hash)
<1> DEFINE passed == [p EXCEPT !.enPassant = NoSquare, !.halfmoveClock = saturated(@),
                               !.fullmoveNumber = IF p.turn = "black" THEN saturated(@) ELSE @,
                               !.turn = Opponent(@)]
<1>1. passed = raw
  <2>1. passed = [p EXCEPT !.enPassant = NoSquare, !.halfmoveClock = clock,
                           !.fullmoveNumber = number, !.turn = turn]
    <3>1. p = Pos(p.board, p.turn, p.castling, p.enPassant, p.halfmoveClock, p.fullmoveNumber, p.hash)
      BY DEF Shaped
    <3> HIDE DEF saturated
    <3>2. QED BY <3>1 DEF Pos
  <2> HIDE DEF clock, number, turn, passed
  <2>2. p = Pos(p.board, p.turn, p.castling, p.enPassant, p.halfmoveClock, p.fullmoveNumber, p.hash)
    BY DEF Shaped
  <2>3. QED BY <2>1, <2>2 DEF Pos
<1>2. NullMove(p) = [raw EXCEPT !.hash = hash]
  <2>1. NullMove(p) = [passed EXCEPT !.hash = CalculateHash(passed)]
    BY DEF NullMove
  <2> HIDE DEF passed, raw
  <2>2. QED BY <1>1, <2>1
<1>3. NullMove(p) = q
  <2> HIDE DEF clock, number, turn, hash
  <2>1. QED BY <1>2 DEF Pos
<1>4. /\ raw.board = p.board /\ raw.turn = turn /\ raw.castling = p.castling
      /\ raw.enPassant = NoSquare
  <2> HIDE DEF clock, number, turn, passed
  <2>1. QED BY DEF Pos
<1>5. /\ q.board = p.board /\ q.turn = turn /\ q.castling = p.castling
      /\ q.enPassant = NoSquare /\ q.halfmoveClock = clock
      /\ q.fullmoveNumber = number /\ q.hash = hash
  <2> HIDE DEF clock, number, turn, hash
  <2>1. QED BY DEF Pos
<1> HIDE DEF clock, number
<1>6. turn \in Colors
  BY DEF Shaped, Opponent, Colors
<1> HIDE DEF turn
<1>7. CalculateHash(raw) = CalculateHash(q)
  <2> HIDE DEF raw, q
  <2>1. BoardKeys(raw.board) = BoardKeys(q.board) /\ OtherHash(raw) = OtherHash(q)
    BY <1>4, <1>5 DEF OtherHash
  <2>2. QED BY <2>1, HashParts
<1>8. Shaped(q)
  <2>1. q = Pos(q.board, q.turn, q.castling, q.enPassant, q.halfmoveClock, q.fullmoveNumber, q.hash)
    <3> HIDE DEF hash, q
    <3>1. QED BY <1>5 DEF q
  <2> HIDE DEF hash, q
  <2>2. QED BY <1>5, <1>6, <2>1 DEF Shaped
<1> HIDE DEF q
<1>9. QED BY <1>3, <1>5, <1>7, <1>8 DEF Good, RightHash

\* And makeUnchecked keeps it up.
LEMMA MakeGood ==
    ASSUME NEW p, Good(p), NEW m \in PseudoMoves(p)
    PROVE  Good(MakeUnchecked(p, m))
<1>1. Made(p, m, MakeUnchecked(p, m)) /\ RightHash(MakeUnchecked(p, m))
  BY MakeFields, HashFollows DEF Good
<1>2. QED BY <1>1 DEF Made, Good

-----------------------------------------------------------------------------
(* The invariant: the position and the earlier ones are shaped as positions *)
(* with the right hash, and each undo record leads one step back.           *)

\* The earlier positions and the one they led to.
Path == Append(past, position)

Stacked ==
    /\ \E S : past \in Seq(S)
    /\ \E S : undos \in Seq(S)
    /\ Len(undos) = Len(past)

StepsBack(i) ==
    Good(past[i]) /\ UnmakeMove(Path[i + 1], undos[i]) = past[i]

IInv ==
    /\ Good(position)
    /\ Stacked
    /\ \A i \in 1 .. Len(past) : StepsBack(i)

\* The positions on the path, by number.
LEMMA OnPath ==
    ASSUME Stacked
    PROVE  /\ Len(past) \in Nat
           /\ Path[Len(past) + 1] = position
           /\ \A i \in 1 .. Len(past) : Path[i] = past[i]
<1>1. PICK S : past \in Seq(S)
  BY DEF Stacked
<1>2. past \in Seq(S \cup {position}) /\ position \in S \cup {position}
  BY <1>1
<1>3. QED BY <1>2 DEF Path

LEMMA InitHolds == Init => IInv
<1> SUFFICES ASSUME Init PROVE IInv
  OBVIOUS
<1>1. Good(position)
  BY ParseFENGood DEF Init
<1>2. past = <<>> /\ undos = <<>>
  BY DEF Init
<1>3. Stacked /\ Len(past) = 0
  BY <1>2 DEF Stacked
<1>4. QED BY <1>1, <1>3 DEF IInv

LEMMA MakeKeeps ==
    ASSUME IInv, NEW move \in LegalMoves(position), MakeLegalMove(move)
    PROVE  IInv'
<1> DEFINE undo == UndoOf(position, move)
           n == Len(past)
<1>1. move \in PseudoMoves(position)
  BY DEF LegalMoves
<1>2. /\ position' = MakeUnchecked(position, move)
      /\ undos' = Append(undos, undo) /\ past' = Append(past, position)
  BY DEF MakeLegalMove
<1>3. Good(position')
  BY <1>1, <1>2, MakeGood DEF IInv
<1>4. UnmakeMove(position', undo) = position
  BY <1>1, <1>2, UnmakeUndoes DEF IInv, Good
<1> HIDE DEF undo
<1>5. /\ Stacked' /\ n \in Nat /\ Len(past') = n + 1
      /\ undos'[n + 1] = undo /\ past'[n + 1] = position
      /\ \A i \in 1 .. n : undos'[i] = undos[i] /\ past'[i] = past[i]
  <2>1. PICK S : past \in Seq(S)
    BY DEF IInv, Stacked
  <2>2. PICK T : undos \in Seq(T)
    BY DEF IInv, Stacked
  <2>3. past \in Seq(S \cup {position}) /\ undos \in Seq(T \cup {undo}) /\ Len(undos) = Len(past)
    BY <2>1, <2>2 DEF IInv, Stacked
  <2>4. /\ past' \in Seq(S \cup {position}) /\ undos' \in Seq(T \cup {undo})
        /\ Len(past') = n + 1 /\ Len(undos') = n + 1 /\ n \in Nat
        /\ undos'[n + 1] = undo /\ past'[n + 1] = position
    BY <1>2, <2>3
  <2>5. \A i \in 1 .. n : undos'[i] = undos[i] /\ past'[i] = past[i]
    BY <1>2, <2>3
  <2>6. Stacked'
    BY <2>4 DEF Stacked
  <2>7. QED BY <2>4, <2>5, <2>6
<1>6. Path'[n + 2] = position' /\ \A i \in 1 .. n + 1 : Path'[i] = Path[i]
  <2>1. /\ Path'[Len(past') + 1] = position'
        /\ \A i \in 1 .. Len(past') : Path'[i] = past'[i]
    <3>1. PICK S : past' \in Seq(S)
      BY <1>5 DEF Stacked
    <3>2. past' \in Seq(S \cup {position'}) /\ position' \in S \cup {position'}
      BY <3>1
    <3>3. QED BY <3>2 DEF Path
  <2>2. Path[n + 1] = position /\ \A i \in 1 .. n : Path[i] = past[i]
    BY OnPath DEF IInv
  <2>3. QED BY <1>5, <2>1, <2>2
<1>7. ASSUME NEW i \in 1 .. n + 1 PROVE StepsBack(i)'
  <2>1. CASE i = n + 1
    BY <1>4, <1>5, <1>6, <2>1 DEF StepsBack, IInv
  <2>2. CASE i \in 1 .. n
    <3>1. StepsBack(i)
      BY <2>2 DEF IInv
    <3>2. i + 1 \in 1 .. n + 1
      BY <1>5, <2>2
    <3>3. Path'[i + 1] = Path[i + 1]
      BY <1>6, <3>2
    <3> HIDE DEF n
    <3>4. QED BY <1>5, <2>2, <3>1, <3>3 DEF StepsBack
  <2>3. QED BY <1>5, <2>1, <2>2
<1>8. QED BY <1>3, <1>5, <1>7 DEF IInv

LEMMA UnmakeKeeps ==
    ASSUME IInv, Unmake
    PROVE  IInv'
<1> DEFINE n == Len(past)
<1>1. n \in Nat /\ Len(undos) = n /\ n # 0
  <2>1. PICK T : undos \in Seq(T)
    BY DEF IInv, Stacked
  <2>2. undos # <<>> /\ Len(undos) = n
    BY DEF Unmake, IInv, Stacked
  <2>3. QED BY <2>1, <2>2
<1>2. /\ undos' = SubSeq(undos, 1, n - 1) /\ past' = SubSeq(past, 1, n - 1)
      /\ position' = UnmakeMove(position, undos[n])
  BY <1>1 DEF Unmake
<1>3. position = Path[n + 1] /\ StepsBack(n)
  BY <1>1, OnPath DEF IInv
<1>4. position' = past[n] /\ Good(position')
  BY <1>2, <1>3 DEF StepsBack
<1>5. /\ Stacked' /\ Len(past') = n - 1
      /\ \A i \in 1 .. n - 1 : undos'[i] = undos[i] /\ past'[i] = past[i]
  <2>1. PICK S : past \in Seq(S)
    BY DEF IInv, Stacked
  <2>2. PICK T : undos \in Seq(T)
    BY DEF IInv, Stacked
  <2>3. /\ past' \in Seq(S) /\ Len(past') = n - 1
        /\ \A i \in 1 .. n - 1 : past'[i] = past[i]
    BY <1>1, <1>2, <2>1
  <2>4. /\ undos' \in Seq(T) /\ Len(undos') = n - 1
        /\ \A i \in 1 .. n - 1 : undos'[i] = undos[i]
    BY <1>1, <1>2, <2>2
  <2>5. QED BY <2>3, <2>4 DEF Stacked
<1>6. \A i \in 1 .. n : Path'[i] = Path[i]
  <2>1. /\ Path'[Len(past') + 1] = position'
        /\ \A i \in 1 .. Len(past') : Path'[i] = past'[i]
    <3>1. PICK S : past' \in Seq(S)
      BY <1>5 DEF Stacked
    <3>2. past' \in Seq(S \cup {position'}) /\ position' \in S \cup {position'}
      BY <3>1
    <3>3. QED BY <3>2 DEF Path
  <2>2. \A i \in 1 .. n : Path[i] = past[i]
    BY OnPath DEF IInv
  <2> HIDE DEF n
  <2>3. QED BY <1>1, <1>4, <1>5, <2>1, <2>2
<1>7. ASSUME NEW i \in 1 .. n - 1 PROVE StepsBack(i)'
  <2>1. StepsBack(i)
    BY <1>1 DEF IInv
  <2>2. i + 1 \in 1 .. n
    BY <1>1
  <2>3. Path'[i + 1] = Path[i + 1]
    BY <1>6, <2>2
  <2> HIDE DEF n
  <2>4. QED BY <1>5, <2>1, <2>3 DEF StepsBack
<1> HIDE DEF n
<1>8. QED BY <1>4, <1>5, <1>7 DEF IInv

LEMMA PassKeeps ==
    ASSUME IInv, Pass
    PROVE  IInv'
<1>1. Good(position')
  BY NullMoveGood DEF Pass, IInv, Good
<1>2. past' = <<>> /\ undos' = <<>>
  BY DEF Pass
<1>3. Stacked' /\ Len(past') = 0
  BY <1>2 DEF Stacked
<1>4. QED BY <1>1, <1>3 DEF IInv

LEMMA StepHolds == IInv /\ [Next]_vars => IInv'
<1> SUFFICES ASSUME IInv, [Next]_vars PROVE IInv'
  OBVIOUS
<1>1. CASE Make
  BY <1>1, MakeKeeps DEF Make
<1>2. CASE Unmake
  BY <1>2, UnmakeKeeps
<1>3. CASE Pass
  BY <1>3, PassKeeps
<1>4. CASE UNCHANGED vars
  BY <1>4 DEF vars, IInv, Stacked, StepsBack, Path
<1>5. QED BY <1>1, <1>2, <1>3, <1>4 DEF Next

LEMMA Invariance == Spec => []IInv
<1>1. QED BY InitHolds, StepHolds, PTL DEF Spec

(* The incremental hash of makeUnchecked (move.go), the recomputed one of    *)
(* MakeNullMove and the restored one of UnmakeMove are always calculateHash  *)
(* of the position: no sequence of moves, passes and moves taken back makes  *)
(* the keys drift.                                                           *)
THEOREM HashStaysRight == Spec => []HashIsRight
<1>1. IInv => HashIsRight
  BY DEF IInv, Good, RightHash, HashIsRight
<1>2. QED BY <1>1, Invariance, PTL

(* UnmakeMove (move.go) with the record on top of the stack gives back the   *)
(* very position makeUnchecked was called on, for every kind of move and     *)
(* however many moves lie under it.                                          *)
THEOREM UnmakeGivesBack == Spec => []UnmakeRestores
<1>1. ASSUME IInv, undos # <<>> PROVE UnmakeMove(position, undos[Len(undos)]) = past[Len(past)]
  <2>1. PICK T : undos \in Seq(T)
    BY <1>1 DEF IInv, Stacked
  <2>2. Len(undos) = Len(past) /\ Len(past) \in Nat /\ Len(past) # 0
    BY <1>1, <2>1 DEF IInv, Stacked
  <2>3. position = Path[Len(past) + 1] /\ StepsBack(Len(past))
    BY <1>1, <2>2, OnPath DEF IInv
  <2>4. QED BY <2>2, <2>3 DEF StepsBack
<1>2. IInv => UnmakeRestores
  BY <1>1 DEF UnmakeRestores
<1>3. QED BY <1>2, Invariance, PTL

-----------------------------------------------------------------------------
(* What an en passant square is good for.                                  *)

Without(p) == [p EXCEPT !.enPassant = NoSquare]

LEMMA WithoutFields ==
    ASSUME NEW p, Shaped(p)
    PROVE  /\ Shaped(Without(p)) /\ Without(p).enPassant = NoSquare
           /\ Without(p).board = p.board /\ Without(p).turn = p.turn
           /\ Without(p).castling = p.castling
<1> DEFINE q == Pos(p.board, p.turn, p.castling, NoSquare, p.halfmoveClock, p.fullmoveNumber, p.hash)
<1>1. Without(p) = q
  BY DEF Without, Shaped, Pos
<1>2. /\ q.board = p.board /\ q.turn = p.turn /\ q.castling = p.castling /\ q.enPassant = NoSquare
      /\ q.halfmoveClock = p.halfmoveClock /\ q.fullmoveNumber = p.fullmoveNumber /\ q.hash = p.hash
  BY DEF Pos
<1>3. q = Pos(q.board, q.turn, q.castling, q.enPassant, q.halfmoveClock, q.fullmoveNumber, q.hash)
  <2> HIDE DEF q
  <2>1. QED BY <1>2 DEF q
<1> HIDE DEF q
<1>4. QED BY <1>1, <1>2, <1>3 DEF Shaped

Plain(moves) == {m \in moves : "enPassant" \notin m.flags}

\* A pawn without the square keeps its other moves.
LEMMA PawnMovesWithout ==
    ASSUME NEW p, Shaped(p), NEW from \in Squares
    PROVE  PawnMoves(Without(p), from, p.turn) = Plain(PawnMoves(p, from, p.turn))
<1> DEFINE q == Without(p)
           ahead == Forward(p.turn)
           f == File(from)
           r == Rank(from)
           push == At(f, r + ahead)
           double == At(f, r + 2 * ahead)
           start == IF p.turn = "white" THEN 1 ELSE 6
           sides == {At(file, r + ahead) : file \in {g \in {f - 1, f + 1} : OnBoard(g, r + ahead)}}
           taken(to) == p.board[to] # Empty /\ p.board[to].color # p.turn
           passed(square, to) == /\ ~taken(to) /\ to = square
                                 /\ p.board[to - 8 * ahead] = Piece("pawn", Opponent(p.turn))
           one == IF p.board[push] = Empty THEN PawnMove(from, push, {}) ELSE {}
           two == IF p.board[push] = Empty /\ r = start /\ p.board[double] = Empty
                  THEN {Move(from, double, "none", {"pawnDouble"})} ELSE {}
           takes == UNION {PawnMove(from, to, {"capture"}) : to \in {t \in sides : taken(t)}}
           passes(square) == {Move(from, to, "none", {"capture", "enPassant"}) :
                                to \in {t \in sides : passed(square, t)}}
<1>1. q.board = p.board /\ q.enPassant = NoSquare
  BY WithoutFields
<1>2. PawnMoves(p, from, p.turn) =
        IF ~OnBoard(f, r + ahead) THEN {} ELSE one \cup two \cup takes \cup passes(p.enPassant)
  BY DEF PawnMoves
<1>3. PawnMoves(q, from, p.turn) =
        IF ~OnBoard(f, r + ahead) THEN {} ELSE one \cup two \cup takes \cup passes(q.enPassant)
  <2> HIDE DEF q
  <2>1. QED BY <1>1 DEF PawnMoves
<1>4. passes(NoSquare) = {}
  <2>1. NoSquare \notin sides
    <3>1. SUFFICES ASSUME NEW file, OnBoard(file, r + ahead) PROVE At(file, r + ahead) # NoSquare
      OBVIOUS
    <3> HIDE DEF r, ahead
    <3>2. At(file, r + ahead) \in Squares
      BY <3>1, SquareOfFileAndRank DEF OnBoard
    <3>3. QED BY <3>2 DEF Squares, NoSquare
  <2> HIDE DEF sides
  <2>2. QED BY <2>1
<1>5. \A m \in one : "enPassant" \notin m.flags
  <2> HIDE DEF push
  <2>1. QED BY PawnMoveFields
<1>6. \A m \in two : "enPassant" \notin m.flags
  <2> HIDE DEF double, push, r
  <2>1. QED BY DEF Move
<1>7. \A m \in takes : "enPassant" \notin m.flags
  <2> HIDE DEF sides
  <2>1. ASSUME NEW m \in takes PROVE \E to : m \in PawnMove(from, to, {"capture"})
    OBVIOUS
  <2> HIDE DEF takes
  <2>2. QED BY <2>1, PawnMoveFields
<1>8. \A m \in passes(p.enPassant) : "enPassant" \in m.flags
  <2> HIDE DEF sides
  <2>1. QED BY DEF Move
<1> HIDE DEF q, one, two, takes, passes, r, ahead, f
<1>9. PawnMoves(q, from, p.turn) = Plain(PawnMoves(p, from, p.turn))
  BY <1>1, <1>2, <1>3, <1>4, <1>5, <1>6, <1>7, <1>8 DEF Plain
<1>10. QED BY <1>9 DEF q

\* So does every piece.
LEMMA MovesFromWithout ==
    ASSUME NEW p, Shaped(p), NEW from \in Squares
    PROVE  MovesFrom(Without(p), from) = Plain(MovesFrom(p, from))
<1> DEFINE q == Without(p)
           type == p.board[from].type
           king == PieceMoves(p.board, from, StepTargets(p.board, from, KingSteps))
           castles == CastleMoves(p, from, p.turn)
           steps(S) == PieceMoves(p.board, from, StepTargets(p.board, from, S))
           rays(S) == PieceMoves(p.board, from, SlideTargets(p.board, from, S))
<1>1. q.board = p.board /\ q.turn = p.turn /\ q.castling = p.castling
  BY WithoutFields
<1>2. ASSUME NEW S PROVE Plain(steps(S)) = steps(S) /\ Plain(rays(S)) = rays(S)
  <2>1. ASSUME NEW m \in steps(S) PROVE "enPassant" \notin m.flags
    BY StepTargetsOnBoard, PieceMovesSound
  <2>2. ASSUME NEW m \in rays(S) PROVE "enPassant" \notin m.flags
    BY SlideTargetsOnBoard, PieceMovesSound
  <2> HIDE DEF steps, rays
  <2>3. QED BY <2>1, <2>2 DEF Plain
<1>3. Plain(castles) = castles /\ CastleMoves(q, from, p.turn) = castles
  <2>1. \A m \in castles : "enPassant" \notin m.flags
    BY CastleMovesSound
  <2>2. CastleMoves(q, from, p.turn) = castles
    <3> HIDE DEF q
    <3>1. QED BY <1>1 DEF CastleMoves
  <2> HIDE DEF castles
  <2>3. QED BY <2>1, <2>2 DEF Plain
<1>4. PawnMoves(q, from, p.turn) = Plain(PawnMoves(p, from, p.turn))
  BY PawnMovesWithout
<1>5. MovesFrom(p, from) =
        CASE type = "pawn" -> PawnMoves(p, from, p.turn)
          [] type = "knight" -> steps(KnightSteps)
          [] type = "bishop" -> rays(BishopSteps)
          [] type = "rook" -> rays(RookSteps)
          [] type = "queen" -> rays(KingSteps)
          [] type = "king" -> steps(KingSteps) \cup castles
          [] OTHER -> {}
  BY DEF MovesFrom
<1>6. MovesFrom(q, from) =
        CASE type = "pawn" -> PawnMoves(q, from, p.turn)
          [] type = "knight" -> steps(KnightSteps)
          [] type = "bishop" -> rays(BishopSteps)
          [] type = "rook" -> rays(RookSteps)
          [] type = "queen" -> rays(KingSteps)
          [] type = "king" -> steps(KingSteps) \cup castles
          [] OTHER -> {}
  <2> HIDE DEF q, castles
  <2>1. QED BY <1>1, <1>3 DEF MovesFrom
<1> HIDE DEF q, type, castles, steps, rays
<1>7. Plain({}) = {} /\ \A A, B : Plain(A \cup B) = Plain(A) \cup Plain(B)
  BY DEF Plain
<1>8. MovesFrom(q, from) = Plain(MovesFrom(p, from))
  <2>1. CASE type = "pawn"
    BY <1>4, <1>5, <1>6, <2>1
  <2>2. CASE type = "king"
    BY <1>2, <1>3, <1>5, <1>6, <1>7, <2>2
  <2>3. CASE type \notin {"pawn", "king"}
    BY <1>2, <1>5, <1>6, <1>7, <2>3
  <2>4. QED BY <2>1, <2>2, <2>3
<1>9. QED BY <1>8 DEF q

LEMMA PseudoMovesWithout ==
    ASSUME NEW p, Shaped(p)
    PROVE  PseudoMoves(Without(p)) = Plain(PseudoMoves(p))
<1> DEFINE q == Without(p)
           own == {s \in Squares : p.board[s] # Empty /\ p.board[s].color = p.turn}
<1>1. PseudoMoves(p) = UNION {MovesFrom(p, from) : from \in own}
  BY DEF PseudoMoves
<1>2. PseudoMoves(q) = UNION {MovesFrom(q, from) : from \in own}
  <2>1. q.board = p.board /\ q.turn = p.turn
    BY WithoutFields
  <2> HIDE DEF q
  <2>2. QED BY <2>1 DEF PseudoMoves
<1>3. \A from \in own : MovesFrom(q, from) = Plain(MovesFrom(p, from))
  BY MovesFromWithout
<1> HIDE DEF q, own
<1>4. PseudoMoves(q) = Plain(PseudoMoves(p))
  BY <1>1, <1>2, <1>3 DEF Plain
<1>5. QED BY <1>4 DEF q

\* The same pieces end up on the same squares.
Alike(p, q) == Shaped(p) /\ Shaped(q) /\ p.board = q.board

LEMMA SetPieceAlike ==
    ASSUME NEW p, NEW q, Alike(p, q), NEW sq \in Squares, NEW x
    PROVE  Alike(SetPiece(p, sq, x), SetPiece(q, sq, x))
<1> DEFINE r == SetPiece(p, sq, x)
           s == SetPiece(q, sq, x)
<1>1. Changed(p, r, sq, x) /\ Changed(q, s, sq, x)
  BY SetPieceFields DEF Alike
<1> HIDE DEF r, s
<1>2. Shaped(r) /\ Shaped(s) /\ \A t \in Squares : r.board[t] = s.board[t]
  BY <1>1 DEF Changed, Alike
<1>3. [t \in Squares |-> r.board[t]] = [t \in Squares |-> s.board[t]]
  BY <1>2
<1>4. r.board = s.board
  BY <1>2, <1>3 DEF Shaped
<1>5. QED BY <1>2, <1>4 DEF Alike, r, s

LEMMA PiecesMovedAlike ==
    ASSUME NEW p, NEW q, Alike(p, q), NEW m, Sound(p, m.from, m), m.from \in Squares,
           p.board[m.from].color = p.turn
    PROVE  PiecesMoved(p, m).board = PiecesMoved(q, m).board
<1> DEFINE piece == p.board[m.from]
           lifted(x) == SetPiece(x, m.from, Empty)
           placed(x) == SetPiece(lifted(x), m.to, piece)
           rook(x) == placed(x).board[RookFrom(m.to)]
           promoted(x) == SetPiece(placed(x), m.to, Piece(m.promotion, piece.color))
           taken(x) == SetPiece(placed(x), Passed(m.to, piece.color), Empty)
           gone(x) == SetPiece(placed(x), RookFrom(m.to), Empty)
           castled(x) == SetPiece(gone(x), RookTo(m.to), rook(x))
           result(x) == IF "enPassant" \in m.flags THEN taken(x)
                        ELSE IF m.promotion # "none" THEN promoted(x)
                        ELSE IF "castle" \in m.flags THEN castled(x) ELSE placed(x)
<1>1. /\ m.from \in Squares /\ m.to \in Squares
      /\ "enPassant" \in m.flags => Passed(m.to, piece.color) \in Squares
      /\ "castle" \in m.flags => RookFrom(m.to) \in Squares /\ RookTo(m.to) \in Squares
  BY DEF Sound
<1>2. PiecesMoved(p, m) = result(p)
  BY DEF PiecesMoved
<1>3. PiecesMoved(q, m) = result(q)
  <2>1. q.board[m.from] = piece
    BY DEF Alike
  <2> HIDE DEF piece
  <2>2. QED BY <2>1 DEF PiecesMoved
<1> HIDE DEF piece
<1>4. Alike(lifted(p), lifted(q))
  BY <1>1, SetPieceAlike
<1> HIDE DEF lifted
<1>5. Alike(placed(p), placed(q))
  BY <1>1, <1>4, SetPieceAlike
<1>6. rook(p) = rook(q)
  <2> HIDE DEF placed
  <2>1. QED BY <1>5 DEF Alike
<1> HIDE DEF placed, rook
<1>7. Alike(promoted(p), promoted(q))
  BY <1>1, <1>5, SetPieceAlike
<1>8. "enPassant" \in m.flags => Alike(taken(p), taken(q))
  BY <1>1, <1>5, SetPieceAlike
<1>9. "castle" \in m.flags => Alike(gone(p), gone(q))
  BY <1>1, <1>5, SetPieceAlike
<1> HIDE DEF gone
<1>10. "castle" \in m.flags => Alike(castled(p), castled(q))
  BY <1>1, <1>6, <1>9, SetPieceAlike
<1> HIDE DEF promoted, taken, castled
<1>11. Alike(result(p), result(q))
  BY <1>5, <1>7, <1>8, <1>10
<1> HIDE DEF result
<1>12. QED BY <1>2, <1>3, <1>11 DEF Alike

\* Forgetting the square takes the en passant captures away, and no other move.
LEMMA LegalMovesWithout ==
    ASSUME NEW p, Shaped(p)
    PROVE  LegalMoves(Without(p)) = Plain(LegalMoves(p))
<1> DEFINE q == Without(p)
           safe(x, m) == ~InCheck(MakeUnchecked(x, m).board, x.turn)
<1>1. Alike(p, q) /\ q.turn = p.turn
  BY WithoutFields DEF Alike
<1>2. PseudoMoves(q) = Plain(PseudoMoves(p))
  BY PseudoMovesWithout
<1> HIDE DEF q
<1>3. ASSUME NEW m \in PseudoMoves(q) PROVE safe(p, m) <=> safe(q, m)
  <2>1. m \in PseudoMoves(p)
    BY <1>2 DEF Plain
  <2>2. PiecesMoved(p, m).board = PiecesMoved(q, m).board
    BY <1>1, <2>1, PseudoMovesSound, PiecesMovedAlike
  <2>3. /\ MakeUnchecked(p, m).board = PiecesMoved(p, m).board
        /\ MakeUnchecked(q, m).board = PiecesMoved(q, m).board
    BY <1>1, <2>1, MakeFields DEF Made, Alike
  <2>4. QED BY <1>1, <2>2, <2>3
<1>4. LegalMoves(p) = {m \in PseudoMoves(p) : safe(p, m)}
  BY DEF LegalMoves
<1>5. LegalMoves(q) = {m \in PseudoMoves(q) : safe(q, m)}
  BY DEF LegalMoves
<1> HIDE DEF safe
<1>6. LegalMoves(q) = Plain(LegalMoves(p))
  BY <1>2, <1>3, <1>4, <1>5 DEF Plain
<1>7. QED BY <1>6 DEF q

(* RepetitionKey (position.go) keeps the en passant square exactly when some *)
(* legal move takes it: two positions that differ in a square nobody can use *)
(* count as the same, and two that differ in a legal move never do.          *)
THEOREM KeyKeepsWhatCounts == Spec => []KeyDecidesMoves
<1>1. ASSUME IInv PROVE KeyDecidesMoves
  <2> DEFINE moves == LegalMoves(position)
             used == \E m \in moves : "enPassant" \in m.flags
  <2>1. Shaped(position)
    BY <1>1 DEF IInv, Good
  <2>2. LegalMoves([position EXCEPT !.enPassant = NoSquare]) = Plain(moves)
    BY <2>1, LegalMovesWithout DEF Without
  <2>3. RepetitionKey(position).enPassant = IF used THEN position.enPassant ELSE NoSquare
    BY DEF RepetitionKey
  <2>4. ASSUME position.enPassant = NoSquare PROVE ~used
    <3>1. SUFFICES ASSUME NEW m \in moves, "enPassant" \in m.flags PROVE FALSE
      OBVIOUS
    <3>2. m \in PseudoMoves(position)
      BY DEF LegalMoves
    <3>3. m.to \in Squares /\ m.to = position.enPassant
      BY <2>1, <3>1, <3>2, PseudoMovesSound DEF Sound
    <3>4. QED BY <2>4, <3>3 DEF Squares, NoSquare
  <2> HIDE DEF moves
  <2>5. Plain(moves) = moves <=> ~used
    BY DEF Plain
  <2> HIDE DEF used
  <2>6. QED BY <2>2, <2>3, <2>4, <2>5 DEF KeyDecidesMoves, moves
<1>2. IInv => KeyDecidesMoves
  BY <1>1
<1>3. QED BY <1>2, Invariance, PTL

-----------------------------------------------------------------------------
(* What tells two moves apart.                                             *)

HomeRank(p) == IF p.turn = "white" THEN 0 ELSE 7

PawnLike(p, m) ==
    /\ OnBoard(File(m.from), Rank(m.from) + Forward(p.turn))
    /\ \/ Pushes(p, m.from, m) \/ Doubles(p, m.from, m)
       \/ Takes(p, m.from, m) \/ Passes(p, m.from, m)

StepLike(p, m) ==
    /\ m.to \in Squares
    /\ m = Move(m.from, m.to, "none", IF p.board[m.to] = Empty THEN {} ELSE {"capture"})
    /\ p.board[m.from].type = "king" => File(m.to) - File(m.from) \in -1 .. 1

CastleLike(p, m) ==
    \E file \in {2, 6} : m = Move(At(4, HomeRank(p)), At(file, HomeRank(p)), "none", {"castle"})

Kinded(p, m) ==
    LET type == p.board[m.from].type
    IN  /\ m.from \in Squares /\ p.board[m.from] # Empty
        /\ type \in {"pawn", "king"} \cup Officers
        /\ type = "pawn" => PawnLike(p, m)
        /\ type \in Officers => StepLike(p, m)
        /\ type = "king" => StepLike(p, m) \/ CastleLike(p, m)

LEMMA PieceMovesLike ==
    ASSUME NEW p, NEW from, NEW targets, targets \subseteq Squares,
           p.board[from].type = "king" => \A t \in targets : File(t) - File(from) \in -1 .. 1,
           NEW m \in PieceMoves(p.board, from, targets)
    PROVE  m.from = from /\ StepLike(p, m)
<1>1. PICK to \in targets :
        m = Move(from, to, "none", IF p.board[to] = Empty THEN {} ELSE {"capture"})
  BY DEF PieceMoves
<1>2. m.from = from /\ m.to = to
  BY <1>1 DEF Move
<1>3. QED BY <1>1, <1>2 DEF StepLike

\* A king's step goes to a neighbouring file.
LEMMA KingStepsNear ==
    ASSUME NEW board, NEW from \in Squares, NEW t \in StepTargets(board, from, KingSteps)
    PROVE  File(t) - File(from) \in -1 .. 1
<1>1. PICK s \in KingSteps :
        /\ OnBoard(File(from) + s[1], Rank(from) + s[2])
        /\ t = At(File(from) + s[1], Rank(from) + s[2])
  BY DEF StepTargets
<1>2. s[1] \in -1 .. 1
  BY DEF KingSteps
<1>3. File(t) = File(from) + s[1] /\ File(from) \in 0 .. 7
  BY <1>1, SquareOfFileAndRank DEF OnBoard
<1> HIDE DEF File
<1>4. QED BY <1>2, <1>3

LEMMA MoveKinds ==
    ASSUME NEW p, Shaped(p), NEW m \in PseudoMoves(p)
    PROVE  Kinded(p, m)
<1>1. PICK from \in Squares : p.board[from] # Empty /\ m \in MovesFrom(p, from)
  BY DEF PseudoMoves
<1>2. m.from = from
  <2>1. \A x \in MovesFrom(p, from) : Sound(p, from, x)
    BY MovesFromSound
  <2>2. QED BY <1>1, <2>1 DEF Sound
<1> DEFINE type == p.board[from].type
<1>3. CASE type = "pawn"
  <2>1. m \in PawnMoves(p, from, p.turn)
    BY <1>1, <1>3 DEF MovesFrom
  <2>2. PawnLike(p, m)
    BY <1>2, <2>1, PawnMovesCases DEF PawnLike
  <2>3. QED BY <1>1, <1>2, <1>3, <2>2 DEF Kinded, Officers
<1>4. CASE type = "king"
  <2>1. \/ m \in PieceMoves(p.board, from, StepTargets(p.board, from, KingSteps))
        \/ m \in CastleMoves(p, from, p.turn)
    BY <1>1, <1>4 DEF MovesFrom
  <2>2. CASE m \in PieceMoves(p.board, from, StepTargets(p.board, from, KingSteps))
    <3>1. StepLike(p, m)
      BY <2>2, KingStepsNear, StepTargetsOnBoard, PieceMovesLike
    <3>2. QED BY <1>1, <1>2, <1>4, <3>1 DEF Kinded, Officers
  <2>3. CASE m \in CastleMoves(p, from, p.turn)
    <3>1. from = At(4, HomeRank(p))
      BY <2>3 DEF CastleMoves, HomeRank
    <3>2. CastleLike(p, m)
      BY <2>3, <3>1 DEF CastleMoves, CastleOptions, CastleLike, HomeRank
    <3>3. QED BY <1>1, <1>2, <1>4, <3>2 DEF Kinded, Officers
  <2>4. QED BY <2>1, <2>2, <2>3
<1>5. CASE type \notin {"pawn", "king"}
  <2>1. /\ type \in Officers
        /\ \/ \E S : m \in PieceMoves(p.board, from, StepTargets(p.board, from, S))
           \/ \E S : m \in PieceMoves(p.board, from, SlideTargets(p.board, from, S))
    BY <1>1, <1>5 DEF MovesFrom, Officers
  <2>2. StepLike(p, m)
    BY <1>5, <2>1, StepTargetsOnBoard, SlideTargetsOnBoard, PieceMovesLike
  <2>3. QED BY <1>1, <1>2, <1>5, <2>1, <2>2 DEF Kinded, Officers
<1>6. QED BY <1>3, <1>4, <1>5

\* The flags of a pawn's move are those its squares and the board say.
PawnFlags(p, from, to) ==
    IF Rank(to) # Rank(from) + Forward(p.turn) THEN {"pawnDouble"}
    ELSE IF File(to) = File(from) THEN {}
    ELSE IF Taken(p, to) THEN {"capture"} ELSE {"capture", "enPassant"}

LEMMA PawnFlagsFollow ==
    ASSUME NEW p, p.turn \in Colors, NEW m, m.from \in Squares, PawnLike(p, m)
    PROVE  /\ m = Move(m.from, m.to, m.promotion, PawnFlags(p, m.from, m.to))
           /\ m.to \in Squares
           /\ Rank(m.to) = Rank(m.from) + Forward(p.turn) \/ Doubles(p, m.from, m)
<1> DEFINE from == m.from
           r == Rank(from)
           ahead == Forward(p.turn)
<1>1. /\ ahead \in {-1, 1} /\ r \in Nat
      /\ OnBoard(File(from), Rank(from) + Forward(p.turn))
  BY SquareOfFileAndRank DEF PawnLike, Forward
<1>2. CASE Pushes(p, from, m)
  <2>1. m.to = Ahead(p, from, 1) /\ m.flags = {} /\ m = Move(from, m.to, m.promotion, {})
    BY <1>2, PawnMoveFields DEF Pushes
  <2>2. m.to \in Squares /\ Rank(m.to) = r + ahead /\ File(m.to) = File(from)
    BY <1>1, <2>1, PawnSquares
  <2>3. QED BY <2>1, <2>2 DEF PawnFlags
<1>3. CASE Doubles(p, from, m)
  <2>1. /\ m.to = Ahead(p, from, 2) /\ m.promotion = "none" /\ r = StartRank(p)
        /\ m = Move(from, m.to, m.promotion, {"pawnDouble"})
    BY <1>3 DEF Doubles, Move
  <2>2. m.to \in Squares /\ Rank(m.to) = r + 2 * ahead
    BY <1>1, <2>1, PawnSquares
  <2>3. Rank(m.to) # r + ahead
    <3> HIDE DEF r, ahead
    <3>1. QED BY <1>1, <2>2
  <2>4. QED BY <1>3, <2>1, <2>2, <2>3 DEF PawnFlags
<1>4. CASE Takes(p, from, m)
  <2>1. PICK to \in Sides(p, from) : Taken(p, to) /\ m \in PawnMove(from, to, {"capture"})
    BY <1>4 DEF Takes
  <2>2. m.to = to /\ m = Move(from, to, m.promotion, {"capture"})
    BY <2>1, PawnMoveFields
  <2>3. to \in Squares /\ Rank(to) = r + ahead /\ File(to) # File(from)
    BY <1>1, PawnSquares
  <2>4. QED BY <2>1, <2>2, <2>3 DEF PawnFlags
<1>5. CASE Passes(p, from, m)
  <2>1. PICK to \in Sides(p, from) :
          ~Taken(p, to) /\ m = Move(from, to, "none", {"capture", "enPassant"})
    BY <1>5 DEF Passes
  <2>2. m.to = to /\ m.promotion = "none"
    BY <2>1 DEF Move
  <2>3. to \in Squares /\ Rank(to) = r + ahead /\ File(to) # File(from)
    BY <1>1, PawnSquares
  <2>4. QED BY <2>1, <2>2, <2>3 DEF PawnFlags
<1>6. QED BY <1>2, <1>3, <1>4, <1>5 DEF PawnLike

\* A king that castles goes two files.
LEMMA CastleSquares ==
    ASSUME NEW p, NEW m, CastleLike(p, m)
    PROVE  /\ m.from = At(4, HomeRank(p)) /\ m.promotion = "none" /\ m.flags = {"castle"}
           /\ m = Move(m.from, m.to, "none", {"castle"})
           /\ File(m.to) \in {2, 6} /\ m.to = At(File(m.to), HomeRank(p))
           /\ File(m.from) = 4
<1>1. PICK file \in {2, 6} : m = Move(At(4, HomeRank(p)), At(file, HomeRank(p)), "none", {"castle"})
  BY DEF CastleLike
<1>2. m.from = At(4, HomeRank(p)) /\ m.to = At(file, HomeRank(p)) /\ m.promotion = "none"
      /\ m.flags = {"castle"}
  BY <1>1 DEF Move
<1>3. File(At(file, HomeRank(p))) = file /\ File(At(4, HomeRank(p))) = 4
  <2>1. HomeRank(p) \in 0 .. 7 /\ file \in 0 .. 7 /\ 4 \in 0 .. 7
    BY DEF HomeRank
  <2>2. QED BY <2>1, SquareOfFileAndRank
<1>4. QED BY <1>1, <1>2, <1>3

\* A move is its origin, its target and its promotion.
LEMMA SameMove ==
    ASSUME NEW p, Shaped(p), NEW m \in PseudoMoves(p), NEW n \in PseudoMoves(p),
           m.from = n.from, m.to = n.to, m.promotion = n.promotion
    PROVE  m = n
<1> DEFINE type == p.board[m.from].type
<1>1. Kinded(p, m) /\ Kinded(p, n) /\ p.turn \in Colors
  BY MoveKinds DEF Shaped
<1>2. CASE type = "pawn"
  <2>1. PawnLike(p, m) /\ PawnLike(p, n) /\ m.from \in Squares
    BY <1>1, <1>2 DEF Kinded
  <2>2. QED BY <1>1, <2>1, PawnFlagsFollow
<1>3. CASE type # "pawn"
  <2>1. StepLike(p, m) \/ (type = "king" /\ CastleLike(p, m))
    BY <1>1, <1>3 DEF Kinded
  <2>2. StepLike(p, n) \/ (type = "king" /\ CastleLike(p, n))
    BY <1>1, <1>3 DEF Kinded
  <2>3. CASE StepLike(p, m) /\ StepLike(p, n)
    BY <2>3 DEF StepLike
  <2>4. CASE CastleLike(p, m) /\ CastleLike(p, n)
    BY <2>4, CastleSquares
  <2>5. ASSUME NEW x, NEW y, x.from = y.from, x.to = y.to, p.board[x.from].type = "king",
               StepLike(p, x), CastleLike(p, y)
        PROVE  FALSE
    <3>1. File(x.to) - File(x.from) \in -1 .. 1
      BY <2>5 DEF StepLike
    <3>2. File(x.to) \in {2, 6} /\ File(x.from) = 4
      BY <2>5, CastleSquares
    <3> HIDE DEF File
    <3>3. QED BY <3>1, <3>2
  <2>6. QED BY <2>1, <2>2, <2>3, <2>4, <2>5
<1>4. QED BY <1>2, <1>3

-----------------------------------------------------------------------------
(* What tells the texts of two moves apart.                                *)

\* A text of a move that does not castle, by its parts.
LEMMA PlainText ==
    ASSUME NEW p, NEW m, NEW moves, "castle" \notin m.flags
    PROVE  LET text == SanForLegal(p, m, moves)
               type == p.board[m.from].type
               takes == "capture" \in m.flags
           IN  /\ text.piece = type /\ text.to = m.to /\ text.promotion = m.promotion
               /\ text.takes = takes
               /\ type # "pawn" => text.from = Disambiguation(p, m, moves)
               /\ type = "pawn" /\ takes => text.from = {<<"file", File(m.from)>>}
BY DEF SanForLegal

\* A text of a move that castles.
LEMMA CastleText ==
    ASSUME NEW p, NEW m, NEW moves, "castle" \in m.flags
    PROVE  LET text == SanForLegal(p, m, moves)
           IN  /\ text.piece = IF File(m.to) = 6 THEN "O-O" ELSE "O-O-O"
               /\ text.promotion = m.promotion
BY DEF SanForLegal

\* Coordinates that are written alike are alike.
LEMMA Coordinates ==
    /\ \A a, d : {<<"file", a>>} # {<<"rank", d>>}
    /\ \A a, b, d : {<<"file", a>>} # {<<"file", b>>, <<"rank", d>>}
    /\ \A a, b : {<<"file", a>>} = {<<"file", b>>} => a = b
    /\ \A c, d : {<<"rank", c>>} = {<<"rank", d>>} => c = d
<1>1. \A a, d : <<"file", a>> # <<"rank", d>>
  OBVIOUS
<1>2. /\ \A a, b : <<"file", a>> = <<"file", b>> => a = b
      /\ \A c, d : <<"rank", c>> = <<"rank", d>> => c = d
  OBVIOUS
<1>3. QED BY <1>1, <1>2

\* The coordinates of two rivals are never written alike.
LEMMA RivalsDiffer ==
    ASSUME NEW p, NEW moves, NEW m \in moves, NEW n \in moves,
           m.from \in Squares, n.from \in Squares, m.from # n.from, m.to = n.to,
           p.board[m.from].type = p.board[n.from].type
    PROVE  Disambiguation(p, m, moves) # Disambiguation(p, n, moves)
<1> DEFINE a == File(m.from)
           b == File(n.from)
           c == Rank(m.from)
           d == Rank(n.from)
           one == Disambiguation(p, m, moves)
           two == Disambiguation(p, n, moves)
<1>1. n \in Rivals(p, m, moves) /\ m \in Rivals(p, n, moves)
  BY DEF Rivals
<1>2. \/ a # b /\ one = {<<"file", a>>}
      \/ c # d /\ one = {<<"rank", c>>}
      \/ one = {<<"file", a>>, <<"rank", c>>}
  BY <1>1 DEF Disambiguation
<1>3. \/ two = {<<"file", b>>}
      \/ two = {<<"rank", d>>}
      \/ two = {<<"file", b>>, <<"rank", d>>}
  BY <1>1 DEF Disambiguation
<1>4. a # b \/ c # d
  BY SquareOfFileAndRank
<1> HIDE DEF a, b, c, d, one, two
<1>5. SUFFICES ASSUME one = two PROVE FALSE
  BY DEF one, two
<1>6. CASE one = {<<"file", a>>} /\ a # b
  <2>1. CASE two = {<<"file", b>>}
    BY <1>5, <1>6, <2>1, Coordinates
  <2>2. CASE two # {<<"file", b>>}
    BY <1>3, <1>5, <1>6, <2>2, Coordinates
  <2>3. QED BY <2>1, <2>2
<1>7. CASE one = {<<"rank", c>>} /\ c # d
  <2>1. CASE two = {<<"rank", d>>}
    BY <1>5, <1>7, <2>1, Coordinates
  <2>2. CASE two = {<<"file", b>>}
    <3>1. <<"file", b>> # <<"rank", c>>
      OBVIOUS
    <3>2. QED BY <1>5, <1>7, <2>2, <3>1
  <2>3. CASE two = {<<"file", b>>, <<"rank", d>>}
    <3>1. <<"file", b>> # <<"rank", c>>
      OBVIOUS
    <3>2. QED BY <1>5, <1>7, <2>3, <3>1
  <2>4. QED BY <1>3, <2>1, <2>2, <2>3
<1>8. CASE one = {<<"file", a>>, <<"rank", c>>}
  <2>1. <<"file", a>> \in two /\ <<"rank", c>> \in two
    BY <1>5, <1>8
  <2>2. /\ <<"file", a>> # <<"rank", d>> /\ <<"rank", c>> # <<"file", b>>
    OBVIOUS
  <2>3. two = {<<"file", b>>, <<"rank", d>>}
    BY <1>3, <2>1, <2>2
  <2>4. <<"file", a>> = <<"file", b>> /\ <<"rank", c>> = <<"rank", d>>
    BY <2>1, <2>2, <2>3
  <2>5. a = b /\ c = d
    BY <2>4
  <2>6. QED BY <1>4, <2>5
<1>9. QED BY <1>2, <1>6, <1>7, <1>8

\* A move whose text is no castling's does not castle.
LEMMA TextOfKind ==
    ASSUME NEW p, NEW m, NEW moves, Kinded(p, m)
    PROVE  /\ CastleLike(p, m) => "castle" \in m.flags
           /\ StepLike(p, m) => "castle" \notin m.flags
           /\ SanForLegal(p, m, moves).piece \in {"O-O", "O-O-O"} <=> "castle" \in m.flags
<1>1. CastleLike(p, m) => "castle" \in m.flags
  BY CastleSquares
<1>2. StepLike(p, m) => "castle" \notin m.flags
  <2>1. StepLike(p, m) => m.flags \in {{}, {"capture"}}
    BY DEF StepLike, Move
  <2>2. QED BY <2>1
<1>3. CASE "castle" \in m.flags
  BY <1>1, <1>2, <1>3, CastleText
<1>4. CASE "castle" \notin m.flags
  <2>1. SanForLegal(p, m, moves).piece = p.board[m.from].type
    BY <1>4, PlainText
  <2>2. p.board[m.from].type \in {"pawn", "king", "queen", "rook", "bishop", "knight"}
    BY DEF Kinded, Officers
  <2>3. QED BY <1>1, <1>2, <1>4, <2>1, <2>2
<1>5. QED BY <1>1, <1>2, <1>3, <1>4

\* Two pawns of one side never go to the same square with the same text.
LEMMA PawnsApart ==
    ASSUME NEW p, p.turn \in Colors, NEW m, NEW n, m.from \in Squares, n.from \in Squares,
           p.board[m.from] # Empty, p.board[n.from] # Empty, PawnLike(p, m), PawnLike(p, n),
           m.to = n.to, "capture" \in m.flags <=> "capture" \in n.flags,
           "capture" \in m.flags => File(m.from) = File(n.from)
    PROVE  m.from = n.from
<1> DEFINE ahead == Forward(p.turn)
           Straight(x) == File(x.to) = File(x.from)
           Short(x) == Rank(x.to) = Rank(x.from) + ahead
           Long(x) == /\ Rank(x.from) = StartRank(p) /\ Rank(x.to) = Rank(x.from) + 2 * ahead
                      /\ p.board[At(File(x.from), Rank(x.from) + ahead)] = Empty
<1>0. ahead \in {-1, 1} /\ StartRank(p) \in Nat
  BY DEF Forward, StartRank
<1>1. ASSUME NEW x, x.from \in Squares, PawnLike(p, x)
      PROVE  /\ "capture" \in x.flags => Short(x)
             /\ "capture" \notin x.flags => Straight(x) /\ (Short(x) \/ Long(x))
  <2>1. /\ OnBoard(File(x.from), Rank(x.from) + Forward(p.turn))
        /\ 1 * ahead = ahead
    BY <1>0, <1>1 DEF PawnLike
  <2>2. CASE Pushes(p, x.from, x)
    <3>1. x.to = Ahead(p, x.from, 1) /\ x.flags = {}
      BY <2>2, PawnMoveFields DEF Pushes
    <3>2. QED BY <1>1, <2>1, <3>1, PawnSquares
  <2>3. CASE Doubles(p, x.from, x)
    <3>1. /\ x.to = Ahead(p, x.from, 2) /\ x.flags = {"pawnDouble"}
          /\ Rank(x.from) = StartRank(p) /\ p.board[Ahead(p, x.from, 1)] = Empty
      BY <2>3 DEF Doubles, Move
    <3>2. Ahead(p, x.from, 1) = At(File(x.from), Rank(x.from) + ahead)
      BY <2>1 DEF Ahead
    <3>3. QED BY <1>1, <2>1, <3>1, <3>2, PawnSquares
  <2>4. CASE Takes(p, x.from, x)
    <3>1. PICK to \in Sides(p, x.from) : x \in PawnMove(x.from, to, {"capture"})
      BY <2>4 DEF Takes
    <3>2. x.to = to /\ x.flags = {"capture"}
      BY <3>1, PawnMoveFields
    <3>3. QED BY <1>1, <2>1, <3>2, PawnSquares
  <2>5. CASE Passes(p, x.from, x)
    <3>1. PICK to \in Sides(p, x.from) : x = Move(x.from, to, "none", {"capture", "enPassant"})
      BY <2>5 DEF Passes
    <3>2. x.to = to /\ x.flags = {"capture", "enPassant"}
      BY <3>1 DEF Move
    <3>3. QED BY <1>1, <2>1, <3>2, PawnSquares
  <2>6. QED BY <1>1, <2>2, <2>3, <2>4, <2>5 DEF PawnLike
<1>2. ASSUME NEW x, NEW y, x.from \in Squares, y.from \in Squares, x.to = y.to,
             Straight(x), Straight(y), Short(x), Long(y), p.board[x.from] # Empty
      PROVE  FALSE
  <2>1. File(x.from) \in 0 .. 7 /\ Rank(x.from) \in 0 .. 7 /\ x.from = At(File(x.from), Rank(x.from))
    BY <1>2, SquareOfFileAndRank
  <2>2. Rank(y.from) \in 0 .. 7
    BY <1>2, SquareOfFileAndRank
  <2> HIDE DEF File, Rank, ahead
  <2>3. File(x.from) = File(y.from) /\ Rank(x.from) = Rank(y.from) + ahead
    BY <1>0, <1>2, <2>1, <2>2
  <2>4. QED BY <1>2, <2>1, <2>3
<1>3. /\ "capture" \in m.flags => Short(m) /\ Short(n)
      /\ "capture" \notin m.flags => Straight(m) /\ Straight(n) /\ (Short(m) \/ Long(m))
                                        /\ (Short(n) \/ Long(n))
  BY <1>1
<1>4. File(m.from) = File(n.from)
  <2> HIDE DEF File, Short, Long
  <2>1. QED BY <1>3
<1>5. (Short(m) /\ Short(n)) \/ (Long(m) /\ Long(n))
  <2> HIDE DEF Short, Long, Straight
  <2>1. QED BY <1>2, <1>3
<1>6. Rank(m.from) = Rank(n.from)
  <2>1. Rank(m.from) \in 0 .. 7 /\ Rank(n.from) \in 0 .. 7
    BY SquareOfFileAndRank
  <2> HIDE DEF Rank, File, ahead
  <2>2. QED BY <1>0, <1>5, <2>1
<1>7. m.from = At(File(m.from), Rank(m.from)) /\ n.from = At(File(n.from), Rank(n.from))
  BY SquareOfFileAndRank
<1> HIDE DEF File, Rank
<1>8. QED BY <1>4, <1>6, <1>7

\* Legal moves with one text are one move.
LEMMA SameText ==
    ASSUME NEW p, Shaped(p), NEW moves, moves \subseteq PseudoMoves(p), NEW m \in moves, NEW n \in moves,
           SanForLegal(p, m, moves) = SanForLegal(p, n, moves)
    PROVE  m = n
<1> DEFINE one == SanForLegal(p, m, moves)
           two == SanForLegal(p, n, moves)
           type == p.board[m.from].type
<1>1. Kinded(p, m) /\ Kinded(p, n) /\ p.turn \in Colors
  BY MoveKinds DEF Shaped
<1>2. "castle" \in m.flags <=> "castle" \in n.flags
  BY <1>1, TextOfKind
<1>3. CASE "castle" \in m.flags
  <2>1. one.piece = (IF File(m.to) = 6 THEN "O-O" ELSE "O-O-O")
        /\ two.piece = (IF File(n.to) = 6 THEN "O-O" ELSE "O-O-O")
    BY <1>2, <1>3, CastleText
  <2>2. CastleLike(p, m) /\ CastleLike(p, n)
    <3>1. ASSUME NEW x, Kinded(p, x), "castle" \in x.flags PROVE CastleLike(p, x)
      <4>1. ~StepLike(p, x)
        BY <3>1, TextOfKind
      <4>2. p.board[x.from].type # "pawn"
        <5>1. SUFFICES ASSUME p.board[x.from].type = "pawn" PROVE FALSE
          OBVIOUS
        <5>2. x.from \in Squares /\ PawnLike(p, x)
          BY <3>1, <5>1 DEF Kinded
        <5>3. x.flags = PawnFlags(p, x.from, x.to)
          BY <1>1, <5>2, PawnFlagsFollow DEF Move
        <5>4. QED BY <3>1, <5>3 DEF PawnFlags
      <4>3. QED BY <3>1, <4>1, <4>2 DEF Kinded
    <3>2. QED BY <1>1, <1>2, <1>3, <3>1
  <2>3. File(m.to) = File(n.to)
    <3>1. File(m.to) \in {2, 6} /\ File(n.to) \in {2, 6}
      BY <2>2, CastleSquares
    <3> HIDE DEF File
    <3>2. QED BY <2>1, <3>1
  <2>4. m.from = n.from /\ m.to = n.to /\ m.promotion = n.promotion
    BY <2>2, <2>3, CastleSquares
  <2>5. QED BY <2>4, SameMove
<1>4. CASE "castle" \notin m.flags
  <2>1. /\ p.board[m.from].type = p.board[n.from].type /\ m.to = n.to /\ m.promotion = n.promotion
        /\ "capture" \in m.flags <=> "capture" \in n.flags
        /\ type # "pawn" => Disambiguation(p, m, moves) = Disambiguation(p, n, moves)
        /\ type = "pawn" /\ "capture" \in m.flags =>
             {<<"file", File(m.from)>>} = {<<"file", File(n.from)>>}
    <3>1. "castle" \notin n.flags
      BY <1>2, <1>4
    <3>2. /\ one.piece = type /\ one.to = m.to /\ one.promotion = m.promotion
          /\ one.takes = ("capture" \in m.flags)
          /\ type # "pawn" => one.from = Disambiguation(p, m, moves)
          /\ type = "pawn" /\ "capture" \in m.flags => one.from = {<<"file", File(m.from)>>}
      BY <1>4, PlainText
    <3>3. /\ two.piece = p.board[n.from].type /\ two.to = n.to /\ two.promotion = n.promotion
          /\ two.takes = ("capture" \in n.flags)
          /\ p.board[n.from].type # "pawn" => two.from = Disambiguation(p, n, moves)
          /\ p.board[n.from].type = "pawn" /\ "capture" \in n.flags =>
               two.from = {<<"file", File(n.from)>>}
      BY <3>1, PlainText
    <3>4. one = two
      OBVIOUS
    <3> HIDE DEF one, two, type, File
    <3>5. type = p.board[n.from].type
      BY <3>2, <3>3, <3>4
    <3>6. "capture" \in m.flags <=> "capture" \in n.flags
      BY <3>2, <3>3, <3>4
    <3>7. QED BY <3>2, <3>3, <3>4, <3>5, <3>6 DEF type
  <2>2. m.from = n.from
    <3>1. CASE type = "pawn"
      <4>1. "capture" \in m.flags => File(m.from) = File(n.from)
        <5>1. ASSUME NEW a, NEW b, {<<"file", a>>} = {<<"file", b>>} PROVE a = b
          <6>1. <<"file", a>> = <<"file", b>>
            BY <5>1
          <6>2. QED BY <6>1
        <5> HIDE DEF File
        <5>2. QED BY <2>1, <3>1, <5>1
      <4>2. /\ m.from \in Squares /\ n.from \in Squares
            /\ p.board[m.from] # Empty /\ p.board[n.from] # Empty
            /\ PawnLike(p, m) /\ PawnLike(p, n)
        BY <1>1, <2>1, <3>1 DEF Kinded
      <4>3. QED BY <1>1, <2>1, <4>1, <4>2, PawnsApart
    <3>2. CASE type # "pawn"
      <4>1. m.from \in Squares /\ n.from \in Squares
        BY <1>1 DEF Kinded
      <4>2. QED BY <2>1, <3>2, <4>1, RivalsDiffer
    <3>3. QED BY <3>1, <3>2
  <2>3. QED BY <2>1, <2>2, SameMove
<1>5. QED BY <1>3, <1>4

(* No two legal moves have the same SAN text (sanForLegal, game.go), and     *)
(* none have the same origin, target and promotion: the first match ParseSAN *)
(* and resolveMove find is the move that was meant.                          *)
THEOREM SANTellsMovesApart == Spec => []SANReadsBack
<1>1. ASSUME IInv PROVE SANReadsBack
  <2> DEFINE moves == LegalMoves(position)
  <2>1. Shaped(position) /\ moves \subseteq PseudoMoves(position)
    BY <1>1 DEF IInv, Good, LegalMoves
  <2>2. Texts(position) = {[move |-> m, text |-> SanForLegal(position, m, moves)] : m \in moves}
    BY DEF Texts
  <2>3. ASSUME NEW one \in Texts(position), NEW two \in Texts(position),
               \/ one.text = two.text
               \/ one.move.from = two.move.from /\ one.move.to = two.move.to
                    /\ one.move.promotion = two.move.promotion
        PROVE  one = two
    <3> HIDE DEF moves
    <3>1. PICK m \in moves : one = [move |-> m, text |-> SanForLegal(position, m, moves)]
      BY <2>2
    <3>2. PICK n \in moves : two = [move |-> n, text |-> SanForLegal(position, n, moves)]
      BY <2>2
    <3>3. /\ one.move = m /\ one.text = SanForLegal(position, m, moves)
          /\ two.move = n /\ two.text = SanForLegal(position, n, moves)
      BY <3>1, <3>2
    <3>4. m = n
      <4>1. CASE one.text = two.text
        BY <2>1, <3>3, <4>1, SameText
      <4>2. CASE one.text # two.text
        BY <2>1, <2>3, <3>3, <4>2, SameMove
      <4>3. QED BY <4>1, <4>2
    <3>5. QED BY <3>1, <3>2, <3>4
  <2>4. QED BY <2>3 DEF SANReadsBack
<1>2. IInv => SANReadsBack
  BY <1>1
<1>3. QED BY <1>2, Invariance, PTL

=============================================================================
