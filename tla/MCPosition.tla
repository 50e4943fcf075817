----------------------------- MODULE MCPosition -----------------------------
(* Start positions in which castling, en passant, promotion, pins, double    *)
(* checks and dead boards are a move or two away, and positions of           *)
(* perft_test.go with the counts it gives.                                   *)
EXTENDS Position, Perft

Text(ranks, turn, castling, enPassant, halfmoveClock, fullmoveNumber) ==
    [ranks |-> ranks, turn |-> turn, castling |-> castling, enPassant |-> enPassant,
     halfmoveClock |-> halfmoveClock, fullmoveNumber |-> fullmoveNumber]

wP == Man(Piece("pawn", "white"))
wN == Man(Piece("knight", "white"))
wB == Man(Piece("bishop", "white"))
wR == Man(Piece("rook", "white"))
wQ == Man(Piece("queen", "white"))
wK == Man(Piece("king", "white"))
bP == Man(Piece("pawn", "black"))
bN == Man(Piece("knight", "black"))
bB == Man(Piece("bishop", "black"))
bR == Man(Piece("rook", "black"))
bQ == Man(Piece("queen", "black"))
bK == Man(Piece("king", "black"))
g1 == Gap(1)
g2 == Gap(2)
g3 == Gap(3)
g4 == Gap(4)
g5 == Gap(5)
g6 == Gap(6)
g7 == Gap(7)
g8 == Gap(8)

(* Both sides may castle either way, and a pawn promotes by taking a rook at home. *)
(* r3k2r/1P6/8/8/8/8/6p1/R3K2R w KQkq - 0 1 *)
Castles ==
    Text(<<<<bR, g3, bK, g2, bR>>, <<g1, wP, g6>>, <<g8>>, <<g8>>,
           <<g8>>, <<g8>>, <<g6, bP, g1>>, <<wR, g3, wK, g2, wR>>>>,
         "white", <<Letters[1], Letters[2], Letters[3], Letters[4]>>, NoSquare, 0, 1)

(* Four queens that share files and ranks may go to one square. *)
(* 6k1/8/8/Q3Q3/8/8/8/Q3Q2K w - - 0 1 *)
Queens ==
    Text(<<<<g6, bK, g1>>, <<g8>>, <<g8>>, <<wQ, g3, wQ, g3>>,
           <<g8>>, <<g8>>, <<g8>>, <<wQ, g3, wQ, g2, wK>>>>,
         "white", <<>>, NoSquare, 0, 1)

(* A dead board with something left to take. *)
(* 8/8/1k6/2b5/3B4/8/8/4K3 w - - 0 1 *)
Bishops ==
    Text(<<<<g8>>, <<g8>>, <<g1, bK, g6>>, <<g2, bB, g5>>,
           <<g3, wB, g4>>, <<g8>>, <<g8>>, <<g4, wK, g3>>>>,
         "white", <<>>, NoSquare, 0, 1)

(* The counters are at the end of their range. *)
(* 7k/8/8/8/8/8/8/K7 b - - 65535 65535 *)
Late ==
    Text(<<<<g7, bK>>, <<g8>>, <<g8>>, <<g8>>,
           <<g8>>, <<g8>>, <<g8>>, <<wK, g7>>>>,
         "black", <<>>, NoSquare, 65535, 65535)

(* A pawn that may be taken in passing. *)
(* 4k3/8/8/3pP3/8/8/8/4K3 w - d6 0 2 *)
Passing ==
    Text(<<<<g4, bK, g3>>, <<g8>>, <<g8>>, <<g3, bP, wP, g3>>,
           <<g8>>, <<g8>>, <<g8>>, <<g4, wK, g3>>>>,
         "white", <<>>, At(3, 5), 0, 2)

(* perft_test.go, en-passant: pawns pinned along a rank. *)
(* 8/2p5/3p4/KP5r/1R3p1k/8/4P1P1/8 w - - 0 1 *)
EnPassant ==
    Text(<<<<g8>>, <<g2, bP, g5>>, <<g3, bP, g4>>, <<wK, wP, g5, bR>>,
           <<g1, wR, g3, bP, g1, bK>>, <<g8>>, <<g4, wP, g1, wP, g1>>, <<g8>>>>,
         "white", <<>>, NoSquare, 0, 1)

(* perft_test.go, kiwipete. *)
(* r3k2r/p1ppqpb1/bn2pnp1/3PN3/1p2P3/2N2Q1p/PPPBBPPP/R3K2R w KQkq - 0 1 *)
Kiwipete ==
    Text(<<<<bR, g3, bK, g2, bR>>, <<bP, g1, bP, bP, bQ, bP, bB, g1>>, <<bB, bN, g2, bP, bN, bP, g1>>, <<g3, wP, wN, g3>>,
           <<g1, bP, g2, wP, g3>>, <<g2, wN, g2, wQ, g1, bP>>, <<wP, wP, wP, wB, wB, wP, wP, wP>>, <<wR, g3, wK, g2, wR>>>>,
         "white", <<Letters[1], Letters[2], Letters[3], Letters[4]>>, NoSquare, 0, 1)

(* perft_test.go, promotions. *)
(* r3k2r/Pppp1ppp/1b3nbN/nP6/BBP1P3/q4N2/Pp1P2PP/R2Q1RK1 w kq - 0 1 *)
Promotions ==
    Text(<<<<bR, g3, bK, g2, bR>>, <<wP, bP, bP, bP, g1, bP, bP, bP>>, <<g1, bB, g3, bN, bB, wN>>, <<bN, wP, g6>>,
           <<wB, wB, wP, g1, wP, g3>>, <<bQ, g4, wN, g2>>, <<wP, bP, g1, wP, g2, wP, wP>>, <<wR, g2, wQ, g1, wR, wK, g1>>>>,
         "white", <<Letters[3], Letters[4]>>, NoSquare, 0, 1)

(* perft_test.go, castling. *)
(* rnbq1k1r/pp1Pbppp/2p5/8/2B5/8/PPP1NnPP/RNBQK2R w KQ - 1 8 *)
Castling ==
    Text(<<<<bR, bN, bB, bQ, g1, bK, g1, bR>>, <<bP, bP, g1, wP, bB, bP, bP, bP>>, <<g2, bP, g5>>, <<g8>>,
           <<g2, wB, g5>>, <<g8>>, <<wP, wP, wP, g1, wN, bN, wP, wP>>, <<wR, wN, wB, wQ, wK, g2, wR>>>>,
         "white", <<Letters[1], Letters[2]>>, NoSquare, 1, 8)

MCStarts == {Castles, Passing, Queens, Bishops, Late, EnPassant, Kiwipete, Promotions, Castling}
MCMaxPlies ==
    [fen \in MCStarts |-> IF fen \in {Kiwipete, Castling} THEN 1
                        ELSE IF fen \in {Bishops, Passing, Late} THEN 3 ELSE 2]

(* perft_test.go: nodes two plies deep. *)
PerftNodes == {<<EnPassant, 191>>, <<Kiwipete, 2039>>, <<Promotions, 264>>, <<Castling, 1486>>}

(* perft.Count gives the node counts of perft_test.go and leaves the position *)
(* it counts from as it was.                                                  *)
PerftIsRight ==
    \A row \in PerftNodes : undos = <<>> /\ position \in ParseFEN(row[1]) =>
        Count(position, 2) = [nodes |-> row[2], position |-> position]

=============================================================================
