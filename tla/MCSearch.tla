------------------------------ MODULE MCSearch ------------------------------
(* Games drawn from a seed, in layers: a move leads to the next layer, where *)
(* lines meet again. In a "tree" game a position has one distance from the   *)
(* root; in a "jump" game the root also reaches layer three at once, so that *)
(* entries are found at two plies; in a "pruned" game null moves, late-move  *)
(* reductions and delta pruning come in.                                     *)
EXTENDS Search

CONSTANTS Games      \* a sequence of <<kind, seed>>

MCGames == [seed \in 1..8 |-> <<"tree", seed>>] \o [seed \in 1..8 |-> <<"jump", seed>>]
                \o <<<<"pruned", 3>>, <<"pruned", 8>>, <<"pruned", 9>>>>

(* A position is a number: its game, its layer and its place in the layer.   *)
Positions == 1 .. 40 * Len(Games)
At(game, layer, k) == 40 * game + 5 * layer + k - 39
Game(p) == (p + 39) \div 40
Layer(p) == ((p - 1) % 40) \div 5
Place(p) == (p - 1) % 5
Wide(kind) == IF kind = "pruned" THEN 5 ELSE IF kind = "tree" THEN 3 ELSE 2
Salt(kind) == IF kind = "tree" THEN 17 ELSE IF kind = "jump" THEN 3571 ELSE 8191

(* Pseudo-random numbers below n, and the number a position draws from.      *)
Scramble(x, a, b) == (x * x + a * x + b) % 10007
Draw(code, salt, n) == Scramble(Scramble((code + salt * 6007) % 10007, 4099, 12345), 7919, 543) % n
Code(p, game) == game[2] * 7907 + Layer(p) * 1009 + Place(p) * 4021 + Salt(game[1])

(* Some positions below the root are the end of the game.                    *)
Over(layer, code) == layer \in 2..6 /\ Draw(code, 1, 6) = 0
Checked(layer, code) == layer \in 1..6 /\ Draw(code, 2, 4) = 0

(* A move into stalemate is quiet and drawn; quiescence would answer it by   *)
(* the evaluation.                                                           *)
Stalemate(layer, code) == Over(layer, code) /\ ~Checked(layer, code)

(* The promotions of a place share their squares.                            *)
MoveTo(name, next, kind, code, takes, promotes) ==
    [name |-> name, squares |-> IF promotes THEN <<name[1], 0>> ELSE name,
     next |-> next, takes |-> takes, promotes |-> promotes,
     priority |-> (IF takes THEN 10 + Draw(code, 40 + name[2], 40) ELSE 0)
                    + (IF promotes THEN 50 ELSE 0),
     gain |-> IF kind = "pruned" THEN 100 ELSE 5000]

MoveOf(name, next, game, code, quiet) ==
    MoveTo(name, next, game[1], code, ~quiet /\ Draw(code, 20 + name[2], 3) = 0,
           ~quiet /\ Draw(code, 30 + name[2], 12) = 0)

Target(p, game, layer, code, j) ==
    At(Game(p), IF game[1] = "jump" /\ layer = 0 /\ j = 1 THEN 3 ELSE layer + 1,
       Draw(code, 10 + j, Wide(game[1])))

Quietly(name, next, game, code) ==
    MoveOf(name, next, game, code, Stalemate(Layer(next), Code(next, game)))

(* Layer seven is below every horizon: one quiet move, so that it is no end.   *)
MovesOf(p, game, layer, code) ==
    IF Over(layer, code) THEN <<>>
    ELSE IF layer = 7 THEN <<[name |-> <<0, 0>>, squares |-> <<0, 0>>, next |-> p, takes |-> FALSE, promotes |-> FALSE,
                              priority |-> 0, gain |-> 0]>>
    ELSE [j \in 1 .. Wide(game[1]) - Draw(code, 3, 2) |->
            Quietly(<<Place(p), j>>, Target(p, game, layer, code, j), game, code)] \o <<>>

NodeOf(p, game, layer, code) ==
    [moves |-> MovesOf(p, game, layer, code), turn |-> IF layer % 2 = 0 THEN "white" ELSE "black",
     checked |-> Checked(layer, code), evaluation |-> Draw(code, 4, 401) - 200,
     hasPiece |-> game[1] = "pruned", null |-> At(Game(p), IF layer = 7 THEN 6 ELSE layer + 1, 0),
     hash |-> 3 * layer + 5 * Place(p),
     plies |-> IF game[1] = "jump" /\ layer >= 3 THEN {layer, layer - 2} ELSE {layer}]

MCGraph == [p \in Positions |-> NodeOf(p, Games[Game(p)], Layer(p), Code(p, Games[Game(p)]))]

MCRoots == {At(game, 0, 0) : game \in DOMAIN Games}
MCMaxDepth == [p \in MCRoots |-> IF Games[Game(p)][1] = "jump" THEN 5 ELSE 4]
MCBots == {[probes |-> TRUE, hot |-> FALSE, losses |-> {0}, reads |-> FALSE],
           [probes |-> FALSE, hot |-> TRUE, losses |-> {0, 40}, reads |-> FALSE],
           [probes |-> TRUE, hot |-> FALSE, losses |-> {0}, reads |-> TRUE]}

(* A book that knows a move of the first game, and an illegal one of the next. *)
MCBook == [p \in MCRoots |-> IF p = At(1, 0, 0) THEN <<0, 2>> ELSE IF p = At(2, 0, 0) THEN <<0, 9>> ELSE <<>>]
Never == 1000000
MCLimits == {[nodes |-> 0, stopAt |-> Never, stop |-> "Canceled"],
             [nodes |-> 8, stopAt |-> -1, stop |-> "Canceled"],
             [nodes |-> 8, stopAt |-> Never, stop |-> "Canceled"],
             [nodes |-> 30, stopAt |-> Never, stop |-> "Canceled"],
             [nodes |-> 200, stopAt |-> 150, stop |-> "Canceled"],
             [nodes |-> 0, stopAt |-> 45, stop |-> "DeadlineExceeded"]}
=============================================================================
