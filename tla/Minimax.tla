------------------------------ MODULE Minimax ------------------------------
(* What the search of SearchOps is measured against: minimax to a depth with *)
(* a full quiescence below it, no windows, no table, no pruning. A position  *)
(* that a search may meet at several plies has a range of scores: a mate     *)
(* counts its ply, and a table entry of a greater depth may stand in.        *)
EXTENDS SearchOps

LOCAL INSTANCE FiniteSetsExt

CONSTANTS
    Horizon         \* the deepest iteration

Exactly(score) == [lo |-> score, hi |-> score]
Negated(range) == [lo |-> -range.hi, hi |-> -range.lo]
Best(ranges) == [lo |-> Max({r.lo : r \in ranges}), hi |-> Max({r.hi : r \in ranges})]
Hull(ranges) == [lo |-> Min({r.lo : r \in ranges}), hi |-> Max({r.hi : r \in ranges})]

End(p) == IF InCheck(p) THEN Hull({Exactly(ply - MateScore) : ply \in Node[p].plies}) ELSE Exactly(0)

RECURSIVE Quiet(_), AtDepth(_, _), ScoreRange(_, _)

Quiet(p) ==
    LET noisy == {i \in DOMAIN OrderedMoves(p) :
                     InCheck(p) \/ OrderedMoves(p)[i].takes \/ OrderedMoves(p)[i].promotes}
    IN  IF OrderedMoves(p) = <<>> THEN End(p)
        ELSE Best({Negated(Quiet(OrderedMoves(p)[i].next)) : i \in noisy}
                    \cup (IF InCheck(p) THEN {} ELSE {Exactly(StandPat(p))}))

AtDepth(p, depth) ==
    IF OrderedMoves(p) = <<>> THEN End(p)
    ELSE IF depth = 0 THEN Quiet(p)
    ELSE Best({Negated(ScoreRange(OrderedMoves(p)[i].next, depth - 1)) : i \in DOMAIN OrderedMoves(p)})

(* An entry met at one ply may come from another, of this or of an earlier   *)
(* iteration: it is at most as much deeper as the plies differ.              *)
ScoreRange(p, depth) ==
    LET deepest == Min({depth + Max(Node[p].plies) - Min(Node[p].plies), Horizon - Min(Node[p].plies)})
    IN  Hull({AtDepth(p, d) : d \in depth .. Larger(depth, deepest)})

(* The loop of Bot.Search without limits: the state after each depth.        *)
RECURSIVE Deepened(_, _, _)

Widened(i, p, depth, probes, alpha, beta) ==
    IF alpha < i.best /\ i.best < beta THEN i
    ELSE Iteration(p, depth, -Infinity, Infinity, probes, i.control)

Windowed(p, depth, probes, alpha, beta, c) ==
    Widened(Iteration(p, depth, alpha, beta, probes, c), p, depth, probes, alpha, beta)

Reached(i) ==
    [best |-> i.move, score |-> i.best, control |-> [i.control EXCEPT !.pvMove = i.move]]

DeepenedOnce(last, p, depth, probes) ==
    Reached(Windowed(p, depth, probes,
                     IF depth = 1 THEN -Infinity ELSE last.score - 50,
                     IF depth = 1 THEN Infinity ELSE last.score + 50, last.control))

Deepened(p, depth, probes) ==
    IF depth = 0
    THEN [best |-> OrderedMoves(p)[1].name, score |-> 0, control |-> NewControl(0, Infinity, "none")]
    ELSE DeepenedOnce(Deepened(p, depth - 1, probes), p, depth, probes)

=============================================================================
