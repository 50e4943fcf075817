----------------------------- MODULE SearchOps -----------------------------
(* The alpha-beta search of engine/ on a game graph: search.go (search,      *)
(* quiescence, move ordering), search_iteration.go, transposition.go and     *)
(* search_history.go. A move of the graph is a record: its name (origin,     *)
(* target, promotion and flags), its squares (origin and target: promotions  *)
(* to different pieces share them), the position it leads to, whether it     *)
(* takes or promotes, its static priority and the material it gains. The     *)
(* control of a search is threaded through every call; an answer is a score, *)
(* the control after it, and an error, "none" but for a search that was      *)
(* stopped.                                                                  *)
EXTENDS Integers, Sequences, FiniteSets, TLC

CONSTANTS
    Graph,          \* position -> [moves: its legal moves in the generator's order,
                    \*   turn, checked: the side to move and whether it is in check,
                    \*   evaluation: the evaluator's score, from white's view,
                    \*   hasPiece: the side to move has more than pawns and a king,
                    \*   null: the position after a null move (of one with hasPiece),
                    \*   hash: the low bits of its hash, which find its slot,
                    \*   plies: those at which lines from the root meet it]
    TableSize       \* the requested size of the transposition table

MateScore == 100000
Infinity == 1000000
DeltaMargin == 120
QuiescenceCheckLimit == 1
MaxPly == 64
HistoryMax == 1048576

NoMove == <<>>
NoEntry == [key |-> -1, depth |-> -1, score |-> 0, move |-> NoMove, bound |-> "exact"]

Larger(m, n) == IF m > n THEN m ELSE n

(* The smallest power of two that is not below the size asked for. *)
Capacity ==
    LET Powers == {2 ^ k : k \in 0..16}
    IN  CHOOSE n \in Powers : n >= TableSize /\ \A other \in Powers : other >= TableSize => n <= other

(* A stable sort, the greatest key first.                                    *)
Sorted(moves, keys) ==
    LET Ahead(i) == {j \in DOMAIN moves : keys[j] > keys[i] \/ (keys[j] = keys[i] /\ j < i)}
    IN  [k \in DOMAIN moves |-> moves[CHOOSE i \in DOMAIN moves : Cardinality(Ahead(i)) = k - 1]] \o <<>>

Priorities(moves) == [i \in DOMAIN moves |-> moves[i].priority]

(* The graph with every position's moves ordered; appending the empty        *)
(* sequence makes TLC compute the table once.                                *)
Node == LET graph == Graph
        IN  [p \in DOMAIN graph |->
                [graph[p] EXCEPT !.moves = Sorted(@, Priorities(@))]] \o <<>>
OrderedMoves(p) == Node[p].moves
InCheck(p) == Node[p].checked
SlotOf(p) == Node[p].hash % Capacity

(* limit 0: no limit. stopAt: visits before the context ends, of kind stop;  *)
(* below 0 if it has ended before the search is called.                      *)
NewControl(limit, stopAt, stop) ==
    [nodes |-> 0, limit |-> limit, stopAt |-> stopAt, stop |-> stop, pvMove |-> NoMove,
     table |-> [slot \in 0 .. Capacity - 1 |-> NoEntry], killers |-> <<>>, history |-> <<>>,
     reductions |-> 0, nullCutoffs |-> 0, deltaPrunes |-> 0]

Answer(score, c) == [score |-> score, control |-> c, err |-> "none"]
Stopped(c, err) == [score |-> 0, control |-> c, err |-> err]

Visit(c) ==
    IF c.nodes >= c.stopAt THEN Stopped(c, c.stop)
    ELSE IF c.limit # 0 /\ c.nodes >= c.limit THEN Stopped(c, "ErrSearchLimit")
    ELSE Answer(0, [c EXCEPT !.nodes = @ + 1])

-----------------------------------------------------------------------------
(* The transposition table. An entry keeps its whole key, here the position. *)

Lookup(c, p) ==
    LET entry == c.table[SlotOf(p)] IN IF entry.key = p THEN entry ELSE NoEntry

Store(c, p, entry) ==
    LET current == c.table[SlotOf(p)]
    IN  IF current # NoEntry /\ current.key # p /\ current.depth > entry.depth THEN c
        ELSE [c EXCEPT !.table = [@ EXCEPT ![SlotOf(p)] = entry]]

\* Mutant: a cutoff is stored as an exact score.
Bound_CutoffExact(best, alpha, beta) == IF best <= alpha THEN "upper" ELSE "exact"

Bound(best, alpha, beta) ==
    IF best <= alpha THEN "upper" ELSE IF best >= beta THEN "lower" ELSE "exact"

(* An entry that makes searching the position again needless. *)
Settles(entry, depth, alpha, beta) ==
    /\ entry # NoEntry
    /\ entry.depth >= depth
    /\ \/ entry.bound = "exact"
       \/ entry.bound = "lower" /\ entry.score >= beta
       \/ entry.bound = "upper" /\ entry.score <= alpha

-----------------------------------------------------------------------------
(* The order of moves, killers and history. A killer list is a pair of names *)
(* for a ply, history a score for a pair of squares; absent ones have none.  *)

Killers(c, ply) == IF ply \in DOMAIN c.killers THEN c.killers[ply] ELSE <<NoMove, NoMove>>
HistoryScore(c, move) == IF move.squares \in DOMAIN c.history THEN c.history[move.squares] ELSE 0

SearchPriority(c, ply, move) ==
    move.priority + HistoryScore(c, move) \div 100
        + (IF Killers(c, ply)[1] = move.name THEN 10000
           ELSE IF Killers(c, ply)[2] = move.name THEN 5000 ELSE 0)

(* The second sort puts the smallest priority first, as the code does. *)
OrderedSearchMoves(c, p, ply) ==
    LET moves == OrderedMoves(p)
    IN  Sorted(moves, [i \in DOMAIN moves |-> -SearchPriority(c, ply, moves[i])])

(* The preferred move changes places with the first. *)
Prioritize(moves, name) ==
    IF ~\E i \in DOMAIN moves : moves[i].name = name THEN moves
    ELSE LET i == CHOOSE i \in DOMAIN moves : moves[i].name = name
         IN  [moves EXCEPT ![1] = moves[i], ![i] = moves[1]]

RecordCutoff(c, ply, move, depth) ==
    LET sum == HistoryScore(c, move) + depth * depth
        known == ply >= MaxPly \/ Killers(c, ply)[1] = move.name
    IN  IF move.takes THEN c
        ELSE [c EXCEPT
                !.history = (move.squares :> IF sum > HistoryMax THEN HistoryMax ELSE sum) @@ @,
                !.killers = IF known THEN @ ELSE (ply :> <<move.name, Killers(c, ply)[1]>>) @@ @]

-----------------------------------------------------------------------------
(* Quiescence: captures and promotions only, every evasion when in check. *)

StandPat(p) == IF Node[p].turn = "black" THEN -Node[p].evaluation ELSE Node[p].evaluation

QuiescenceMoves(p, ply) ==
    IF InCheck(p) THEN OrderedMoves(p)
    ELSE SelectSeq(OrderedMoves(p), LAMBDA move :
            move.takes \/ move.promotes \/ (ply < QuiescenceCheckLimit /\ InCheck(move.next)))

Hopeless(p, move, standPat, alpha) ==
    /\ ~InCheck(p) /\ move.takes /\ ~move.promotes
    /\ ~InCheck(move.next)
    /\ standPat + move.gain + DeltaMargin < alpha

RECURSIVE Quiescence(_, _, _, _, _), QuiescenceLoop(_, _, _, _, _, _, _)

QuiescenceAfter(answer, p, rest, ply, standPat, alpha, beta) ==
    IF answer.err # "none" THEN answer
    ELSE IF -answer.score >= beta THEN Answer(-answer.score, answer.control)
    ELSE QuiescenceLoop(p, rest, ply, standPat, Larger(alpha, -answer.score), beta, answer.control)

QuiescenceLoop(p, moves, ply, standPat, alpha, beta, c) ==
    IF moves = <<>> THEN Answer(alpha, c)
    ELSE IF Hopeless(p, Head(moves), standPat, alpha)
         THEN QuiescenceLoop(p, Tail(moves), ply, standPat, alpha, beta,
                             [c EXCEPT !.deltaPrunes = @ + 1])
    ELSE QuiescenceAfter(Quiescence(Head(moves).next, ply + 1, -beta, -alpha, c),
                         p, Tail(moves), ply, standPat, alpha, beta)

Noisy(p, ply, moves, standPat, alpha, beta, c) ==
    IF InCheck(p) /\ moves = <<>> THEN Answer(ply - MateScore, c)
    ELSE IF ~InCheck(p) /\ standPat >= beta THEN Answer(standPat, c)
    ELSE IF OrderedMoves(p) = <<>> THEN Answer(0, c)
    ELSE QuiescenceLoop(p, moves, ply, standPat,
                        IF InCheck(p) THEN alpha ELSE Larger(alpha, standPat), beta, c)

Quiescence(p, ply, alpha, beta, c) ==
    IF Visit(c).err # "none" THEN Visit(c)
    ELSE Noisy(p, ply, QuiescenceMoves(p, ply), IF InCheck(p) THEN 0 ELSE StandPat(p),
               alpha, beta, Visit(c).control)

-----------------------------------------------------------------------------
(* The search below the root. *)

MayPass(p, depth) == depth >= 3 /\ ~InCheck(p) /\ Node[p].hasPiece

(* Late quiet moves are searched a ply shallower with a null window first.   *)
Late(p, depth, index, move) ==
    depth >= 3 /\ index > 3 /\ ~InCheck(p) /\ ~move.takes /\ ~move.promotes

(* After all the moves, or a cutoff: s is what the loop has found.           *)
Finish(p, depth, ply, beta, s, c) ==
    Answer(s.best, Store(c, p, [key |-> p, depth |-> depth, score |-> s.best,
                                move |-> s.move, bound |-> Bound(s.best, s.from, beta)]))

RECURSIVE SearchNode(_, _, _, _, _, _), SearchLoop(_, _, _, _, _, _, _, _)

(* A reduced move that raises alpha is searched again in full.               *)
Confirmed(first, p, depth, ply, alpha, beta) ==
    IF first.err # "none" \/ -first.score <= alpha THEN first
    ELSE SearchNode(p, depth, ply, -beta, -alpha, first.control)

SearchMove(p, depth, ply, beta, index, move, s, c) ==
    IF Late(p, depth, index, move)
    THEN Confirmed(SearchNode(move.next, depth - 2, ply + 1, -s.alpha - 1, -s.alpha,
                              [c EXCEPT !.reductions = @ + 1]),
                   move.next, depth - 1, ply + 1, s.alpha, beta)
    ELSE SearchNode(move.next, depth - 1, ply + 1, -beta, -s.alpha, c)

Improved(s, move, score) ==
    [s EXCEPT !.best = Larger(@, score), !.alpha = Larger(@, score),
              !.move = IF score > s.best THEN move.name ELSE @]

SearchAfter(answer, p, depth, ply, beta, moves, index, s) ==
    LET found == Improved(s, moves[index], -answer.score)
    IN  IF answer.err # "none" THEN answer
        ELSE IF found.alpha >= beta
             THEN Finish(p, depth, ply, beta, found,
                         RecordCutoff(answer.control, ply, moves[index], depth))
        ELSE IF index = Len(moves) THEN Finish(p, depth, ply, beta, found, answer.control)
        ELSE SearchLoop(p, depth, ply, beta, moves, index + 1, found, answer.control)

SearchLoop(p, depth, ply, beta, moves, index, s, c) ==
    SearchAfter(SearchMove(p, depth, ply, beta, index, moves[index], s, c),
                p, depth, ply, beta, moves, index, s)

Start(alpha, moves) ==
    [from |-> alpha, alpha |-> alpha, best |-> -Infinity, move |-> moves[1].name]

(* After the table and the null move: the moves, or what is left at depth 0. *)
Expand(p, depth, ply, alpha, beta, preferred, c) ==
    LET moves == Prioritize(OrderedSearchMoves(c, p, ply), preferred)
    IN  IF OrderedMoves(p) = <<>> THEN Answer(IF InCheck(p) THEN ply - MateScore ELSE 0, c)
        ELSE IF depth = 0 THEN Quiescence(p, ply, alpha, beta, c)
        ELSE SearchLoop(p, depth, ply, beta, moves, 1, Start(alpha, moves), c)

Passed(passed, p, depth, ply, alpha, beta, preferred) ==
    IF passed.err # "none" THEN passed
    ELSE IF -passed.score >= beta
         THEN Answer(-passed.score, [passed.control EXCEPT !.nullCutoffs = @ + 1])
    ELSE Expand(p, depth, ply, alpha, beta, preferred, passed.control)

SearchNode(p, depth, ply, alpha, beta, c) ==
    LET visit == Visit(c)
        cached == IF depth > 0 THEN Lookup(c, p) ELSE NoEntry
    IN  IF visit.err # "none" THEN visit
        ELSE IF Settles(cached, depth, alpha, beta) THEN Answer(cached.score, visit.control)
        ELSE IF MayPass(p, depth)
             THEN Passed(SearchNode(Node[p].null, depth - 3, ply + 1, -beta, -beta + 1, visit.control),
                         p, depth, ply, alpha, beta, cached.move)
        ELSE Expand(p, depth, ply, alpha, beta, cached.move, visit.control)

-----------------------------------------------------------------------------
(* One iteration at the root. A bot that plays the best move only probes     *)
(* later moves with a null window; one that varies keeps a score per move.   *)

RECURSIVE IterationLoop(_, _, _, _, _, _, _, _)

Probed(first, p, depth, alpha, beta) ==
    IF first.err # "none" \/ -first.score <= alpha \/ -first.score >= beta THEN first
    ELSE SearchNode(p, depth, 1, -beta, -alpha, first.control)

RootMove(p, depth, alpha, beta, probe, c) ==
    IF probe THEN Probed(SearchNode(p, depth, 1, -alpha - 1, -alpha, c), p, depth, alpha, beta)
    ELSE SearchNode(p, depth, 1, -beta, -alpha, c)

IterationAfter(answer, p, depth, beta, probes, moves, index, s) ==
    LET score == -answer.score
        found == [Improved(s, moves[index], score) EXCEPT !.control = answer.control,
                     !.candidates = Append(@, [move |-> moves[index].name, score |-> score])]
    IN  IF answer.err # "none" THEN [s EXCEPT !.err = answer.err, !.control = answer.control]
        ELSE IF score >= beta \/ index = Len(moves) THEN found
        ELSE IterationLoop(p, depth, beta, probes, moves, index + 1, found, answer.control)

IterationLoop(p, depth, beta, probes, moves, index, s, c) ==
    IterationAfter(RootMove(moves[index].next, depth - 1, s.alpha, beta, probes /\ index > 1, c),
                   p, depth, beta, probes, moves, index, s)

Iteration(p, depth, alpha, beta, probes, c) ==
    LET moves == Prioritize(OrderedSearchMoves(c, p, 0), c.pvMove)
    IN  IterationLoop(p, depth, beta, probes, moves, 1,
            [alpha |-> alpha, best |-> -Infinity, move |-> moves[1].name, candidates |-> <<>>,
             err |-> "none", control |-> c], c)

(* The candidates a varying bot may choose from. *)
Eligible(candidates, best, loss) == SelectSeq(candidates, LAMBDA m : m.score >= best - loss)

=============================================================================
