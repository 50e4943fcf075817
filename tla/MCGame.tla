------------------------------- MODULE MCGame -------------------------------
(***************************************************************************)
(* Game on a small graph: w0 and b0 repeat each other, w0 b0 w1 b1 is a    *)
(* longer cycle on which the half-move clock outruns the repetitions, and  *)
(* zeroing moves lead to a mate, a stalemate, a dead board and a second    *)
(* pair of boards that repeat each other.                                  *)
(***************************************************************************)
EXTENDS Game

Edges == [w0    |-> [a |-> "b0", z |-> "dead"],
          b0    |-> [a |-> "w0", b |-> "w1"],
          w1    |-> [a |-> "b1", z |-> "mate"],
          b1    |-> [a |-> "w0", z |-> "w2"],
          w2    |-> [a |-> "b2"],
          b2    |-> [a |-> "w2", z |-> "stale"],
          mate  |-> << >>,
          stale |-> << >>,
          dead  |-> [a |-> "w0"]]

MCBoard == DOMAIN Edges
MCMove == {"a", "b", "z"}
MCTurn == [b \in MCBoard |-> IF b \in {"w0", "w1", "w2", "stale"} THEN "white" ELSE "black"]
MCLegal == [b \in MCBoard |-> DOMAIN Edges[b]]
MCZeroing == [b \in MCBoard |-> DOMAIN Edges[b] \cap {"z"}]
MCInCheck == [b \in MCBoard |-> b = "mate"]
MCInsufficient == [b \in MCBoard |-> b = "dead"]
MCAfter == [b \in MCBoard |-> [mv \in MCMove |->
              IF mv \in DOMAIN Edges[b] THEN Edges[b][mv] ELSE b]]
MCStart == [board |-> "w0", half |-> 0]
=============================================================================
