------------------------------- MODULE Search -------------------------------
(* Bot.Search: the book, or else iterative deepening under a limit of nodes  *)
(* and a context that may end before the call or at any visit, one iteration *)
(* of one window a step.                                                     *)
EXTENDS Minimax

CONSTANTS
    Roots,          \* positions to search
    MaxDepth,       \* root -> depth asked for
    Bots,           \* records [probes, hot, losses, reads]: see Choices, BookMove
    Book,           \* root -> the move the book has for it, or NoMove
    Limits          \* records [nodes, stopAt, stop]: see NewControl

ASSUME SearchAssumption == /\ \A p \in Roots : OrderedMoves(p) # <<>> /\ MaxDepth[p] >= 1
                           /\ TableSize \in Nat /\ DOMAIN Book = Roots

VARIABLES
    root, bot,
    control,        \* searchControl
    depth,          \* the iteration at work
    window,         \* its aspiration window
    best,           \* the move that would be returned now, NoMove at first
    stats,          \* the last completed depth and its score
    err             \* "called", "searching", or the error returned; "none" is nil

vars == <<root, bot, control, depth, window, best, stats, err>>

FullWindow == [alpha |-> -Infinity, beta |-> Infinity]
Aspiration(score) == [alpha |-> score - 50, beta |-> score + 50]

Init ==
    /\ root \in Roots /\ bot \in Bots
    /\ \E limits \in Limits : control = NewControl(limits.nodes, limits.stopAt, limits.stop)
    /\ depth = 1
    /\ window = FullWindow
    /\ best = NoMove
    /\ stats = [depth |-> 0, score |-> 0]
    /\ err = "called"

EndedBefore == control.stopAt < 0

(* A book may hold any move for a position; only a legal one is played.      *)
InBook == bot.reads /\ \E i \in DOMAIN OrderedMoves(root) : OrderedMoves(root)[i].name = Book[root]

Refused ==
    /\ err = "called" /\ EndedBefore
    /\ err' = control.stop
    /\ UNCHANGED <<root, bot, control, depth, window, best, stats>>

BookMove ==
    /\ err = "called" /\ ~EndedBefore /\ InBook
    /\ best' = Book[root] /\ err' = "none"
    /\ UNCHANGED <<root, bot, control, depth, window, stats>>

Begin ==
    /\ err = "called" /\ ~EndedBefore /\ ~InBook
    /\ best' = OrderedMoves(root)[1].name /\ err' = "searching"
    /\ UNCHANGED <<root, bot, control, depth, window, stats>>

\* Mutant: a score below the window is taken at its word.
Outside_HighOnly(i) == i.best >= window.beta

Outside(i) == i.best <= window.alpha \/ i.best >= window.beta

(* The move of a finished iteration: the best; of a bot with a temperature   *)
(* and a seed, any that loses no more than the loss the dice allow.          *)
Choices(i) ==
    IF ~bot.hot THEN {i.move}
    ELSE UNION {LET eligible == Eligible(i.candidates, i.best, loss)
                IN  {eligible[n].move : n \in DOMAIN eligible} : loss \in bot.losses}

\* Mutant: the best move of the unfinished iteration is returned.
Interrupted_Partial(i) ==
    /\ i.err # "none"
    /\ err' = IF i.err = "ErrSearchLimit" /\ stats.depth > 0 THEN "none" ELSE i.err
    /\ best' = i.move
    /\ UNCHANGED <<depth, window, stats>>

Interrupted(i) ==
    /\ i.err # "none"
    /\ err' = IF i.err = "ErrSearchLimit" /\ stats.depth > 0 THEN "none" ELSE i.err
    /\ UNCHANGED <<depth, window, best, stats>>

SearchedAgain(i) ==
    /\ i.err = "none" /\ Outside(i)
    /\ window' = FullWindow
    /\ UNCHANGED <<depth, best, stats, err>>

Completed(i) ==
    /\ i.err = "none" /\ ~Outside(i)
    /\ best' \in Choices(i)
    /\ stats' = [depth |-> depth, score |-> i.best]
    /\ depth' = depth + 1
    /\ window' = Aspiration(i.best)
    /\ UNCHANGED err

Iterate ==
    /\ err = "searching" /\ depth <= MaxDepth[root]
    /\ \E i \in {Iteration(root, depth, window.alpha, window.beta, bot.probes, control)} :
           /\ Interrupted(i) \/ SearchedAgain(i) \/ Completed(i)
           /\ control' = [i.control EXCEPT !.pvMove = IF depth' > depth THEN best' ELSE @]
    /\ UNCHANGED <<root, bot>>

Returned ==
    /\ err = "searching" /\ depth > MaxDepth[root]
    /\ err' = "none"
    /\ UNCHANGED <<root, bot, control, depth, window, best, stats>>

Next == Refused \/ BookMove \/ Begin \/ Iterate \/ Returned

Spec == Init /\ [][Next]_vars

-----------------------------------------------------------------------------
Unpruned == control.reductions = 0 /\ control.nullCutoffs = 0 /\ control.deltaPrunes = 0

Within(score, range) == range.lo <= score /\ score <= range.hi

(* Whatever iteration, ply and window an entry of the transposition table    *)
(* comes from, its bound holds for the position it is stored under: the      *)
(* entry cannot mislead a later search that meets the position elsewhere.    *)
(* Null moves, reductions and delta pruning are allowed to be wrong.         *)
TableSound ==
    Unpruned => \A slot \in DOMAIN control.table :
        LET entry == control.table[slot]
            range == ScoreRange(entry.key, entry.depth)
        IN  entry # NoEntry =>
                /\ entry.bound \in {"exact", "upper"} => range.lo <= entry.score
                /\ entry.bound \in {"exact", "lower"} => entry.score <= range.hi

(* Alpha-beta with null-window probes, an aspiration window, the table and   *)
(* reordered moves finds the minimax score of every depth it completes, and  *)
(* a best move that has it.                                                  *)
RootIsMinimax ==
    Unpruned /\ stats.depth > 0 =>
        /\ Within(stats.score, AtDepth(root, stats.depth))
        /\ ~bot.hot => \E i \in DOMAIN OrderedMoves(root) :
              /\ OrderedMoves(root)[i].name = best
              /\ Within(-stats.score, ScoreRange(OrderedMoves(root)[i].next, stats.depth - 1))

(* A limit takes depth away and nothing else: wherever it strikes, also in   *)
(* the middle of an iteration or between its two windows, the move returned  *)
(* is the one of an unlimited search to the last completed depth, the first  *)
(* move if there is none. No more nodes are visited than allowed, and a      *)
(* limit of nodes is an error only before the first depth is complete. The   *)
(* comment of Search promises a nil error after a complete depth for every   *)
(* limit (search.go:99-103); a limit of time breaks that: the error is       *)
(* DeadlineExceeded (search.go:147-148), with the same move.                 *)
LimitsTakeOnlyDepth ==
    /\ control.limit # 0 => control.nodes <= control.limit
    /\ err = "ErrSearchLimit" => stats.depth = 0
    /\ err \notin {"called", "searching"} /\ ~EndedBefore /\ ~InBook /\ ~bot.hot =>
          best = Deepened(root, stats.depth, bot.probes).best
=============================================================================
