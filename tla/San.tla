-------------------------------- MODULE San --------------------------------
(* Standard algebraic notation (game.go) of the moves of a position. A text  *)
(* is a record of its parts: two texts are equal when their parts are.       *)
EXTENDS PositionOps

(* Other pieces of the same type that may go to the same square. *)
Rivals(p, move, legalMoves) ==
    {m \in legalMoves : m.from # move.from /\ m.to = move.to
                              /\ p.board[m.from].type = p.board[move.from].type}

\* Mutant: never writes both coordinates.
Disambiguation_FileOrRank(p, move, legalMoves) ==
    LET rivals == Rivals(p, move, legalMoves)
    IN  IF rivals = {} THEN {}
        ELSE IF \A m \in rivals : File(m.from) # File(move.from) THEN {<<"file", File(move.from)>>}
        ELSE {<<"rank", Rank(move.from)>>}

(* Which coordinates of the origin are written. *)
Disambiguation(p, move, legalMoves) ==
    LET rivals == Rivals(p, move, legalMoves)
        fileUnique == \A m \in rivals : File(m.from) # File(move.from)
        rankUnique == \A m \in rivals : Rank(m.from) # Rank(move.from)
    IN  IF rivals = {} THEN {}
        ELSE IF fileUnique THEN {<<"file", File(move.from)>>}
        ELSE IF rankUnique THEN {<<"rank", Rank(move.from)>>}
        ELSE {<<"file", File(move.from)>>, <<"rank", Rank(move.from)>>}

CheckSuffix(p, move) ==
    LET next == MakeUnchecked(p, move)
    IN  IF ~InCheck(next.board, next.turn) THEN "none"
        ELSE IF LegalMoves(next) = {} THEN "#" ELSE "+"

SanForLegal(p, move, legalMoves) ==
    LET type == p.board[move.from].type
        takes == "capture" \in move.flags
        text == [piece |-> type, from |-> {}, takes |-> takes, to |-> move.to,
                 promotion |-> move.promotion, suffix |-> CheckSuffix(p, move)]
    IN  IF "castle" \in move.flags
        THEN [text EXCEPT !.piece = IF File(move.to) = 6 THEN "O-O" ELSE "O-O-O", !.to = NoSquare]
        ELSE IF type # "pawn" THEN [text EXCEPT !.from = Disambiguation(p, move, legalMoves)]
        ELSE IF takes THEN [text EXCEPT !.from = {<<"file", File(move.from)>>}]
        ELSE text

(* The legal moves with their texts; ParseSAN takes the first that matches. *)
Texts(p) ==
    LET legalMoves == LegalMoves(p)
    IN  {[move |-> m, text |-> SanForLegal(p, m, legalMoves)] : m \in legalMoves}

=============================================================================
