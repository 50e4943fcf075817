------------------------------- MODULE Perft -------------------------------
(* perft.Count: the leaves of the tree of legal moves, each made and unmade  *)
(* on one position. The answer carries the position left behind.             *)
EXTENDS PositionOps

RECURSIVE Count(_, _)
RECURSIVE CountMoves(_, _, _)

CountMoves(p, moves, depth) ==
    IF moves = {} THEN [nodes |-> 0, position |-> p]
    ELSE LET move == CHOOSE m \in moves : TRUE
             child == Count(MakeUnchecked(p, move), depth - 1)
             rest == CountMoves(UnmakeMove(child.position, UndoOf(p, move)), moves \ {move}, depth)
         IN  [nodes |-> child.nodes + rest.nodes, position |-> rest.position]

Count(p, depth) ==
    IF depth = 0 THEN [nodes |-> 1, position |-> p]
    ELSE CountMoves(p, LegalMoves(p), depth)

=============================================================================
