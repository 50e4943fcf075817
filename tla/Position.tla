------------------------------ MODULE Position ------------------------------
(* One chess.Position in the hands of a search: legal moves are made and     *)
(* unmade in last-in first-out order, and a null move passes the turn on a   *)
(* copy. Before each move the observer past keeps the position as it was.    *)
EXTENDS San, Fen

CONSTANTS
    Starts,     \* FEN texts
    MaxPlies    \* bound, for each start: moves and passes made and not unmade

VARIABLES
    position,   \* the position
    undos,      \* the undo records of the caller, the last one on top
    past,       \* observer: the positions the undo records were taken from
    left        \* bound: moves and passes left

vars == <<position, undos, past, left>>

Init ==
    /\ \E fen \in Starts : position \in ParseFEN(fen) /\ left = MaxPlies[fen]
    /\ undos = <<>>
    /\ past = <<>>

(* MakeLegalMove: what the search does with each legal move. *)
MakeLegalMove(move) ==
    /\ left > 0
    /\ left' = left - 1
    /\ undos' = Append(undos, UndoOf(position, move))
    /\ past' = Append(past, position)
    /\ position' = MakeUnchecked(position, move)

Make == \E move \in LegalMoves(position) : MakeLegalMove(move)

Unmake ==
    /\ undos # <<>>
    /\ position' = UnmakeMove(position, undos[Len(undos)])
    /\ undos' = SubSeq(undos, 1, Len(undos) - 1)
    /\ past' = SubSeq(past, 1, Len(past) - 1)
    /\ left' = left + 1

(* The copy has no undo records of its own. *)
Pass ==
    /\ left > 0
    /\ left' = left - 1
    /\ ~InCheck(position.board, position.turn)
    /\ position' = NullMove(position)
    /\ undos' = <<>>
    /\ past' = <<>>

Next == Make \/ Unmake \/ Pass

Spec == Init /\ [][Next]_vars

-----------------------------------------------------------------------------
(* The hash kept up move by move is the hash computed from the board, the    *)
(* side, the rights and the en passant square.                               *)
HashIsRight == position.hash = CalculateHash(position)

(* Every position moves lead to can be saved or sent and read back: ParseFEN *)
(* accepts its text and makes of it the very same position, hash included.   *)
(* Only a position whose move number ran over its 16 bits is refused.        *)
FENReadsBack == ParseFEN(FEN(position)) = IF position.fullmoveNumber = 0 THEN {} ELSE {position}

(* Taking a move back gives the very position it was made in, counters,      *)
(* rights, hash and the squares of captured, promoted and castled pieces     *)
(* included.                                                                 *)
UnmakeRestores ==
    undos # <<>> => UnmakeMove(position, undos[Len(undos)]) = past[Len(past)]

(* Two legal moves never share a SAN text, nor origin, target and promotion: *)
(* ParseSAN and resolveMove find the very move that was written.             *)
SANReadsBack ==
    \A one, two \in Texts(position) :
        \/ one.text = two.text
        \/ one.move.from = two.move.from /\ one.move.to = two.move.to
              /\ one.move.promotion = two.move.promotion
        => one = two

(* The key that counts repetitions forgets an en passant square exactly when *)
(* forgetting it takes no legal move away.                                   *)
KeyDecidesMoves ==
    RepetitionKey(position).enPassant = NoSquare
        <=> LegalMoves([position EXCEPT !.enPassant = NoSquare]) = LegalMoves(position)

=============================================================================
