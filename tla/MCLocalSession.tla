--------------------------- MODULE MCLocalSession ---------------------------
(* A small graph of boards: a promotion to one of two pieces, a mate, and a  *)
(* way back to the start that repeats it.                                    *)
EXTENDS LocalSession

Edges == [w0 |-> [a |-> "b0"],
          b0 |-> [a |-> "w1", r |-> "w0"],
          w1 |-> [q |-> "mate", r |-> "b1"],
          b1 |-> [a |-> "w0"],
          mate |-> << >>]

MCBoard == DOMAIN Edges
MCMove == {"a", "q", "r"}
MCTurn == [b \in MCBoard |-> IF b \in {"w0", "w1"} THEN "white" ELSE "black"]
MCLegal == [b \in MCBoard |-> DOMAIN Edges[b]]
MCZeroing == [b \in MCBoard |-> DOMAIN Edges[b] \cap {"q"}]
MCInCheck == [b \in MCBoard |-> b = "mate"]
MCInsufficient == [b \in MCBoard |-> FALSE]
MCAfter == [b \in MCBoard |-> [mv \in MCMove |-> IF mv \in DOMAIN Edges[b] THEN Edges[b][mv] ELSE b]]
MCPromotions == [b \in MCBoard |-> IF b = "w1" THEN {{"q", "r"}} ELSE {}]

MCStart == [board |-> "w0", half |-> 0]
MCStarts == {[board |-> "w1", half |-> 0]}
MCLoads == {[Played(Played(NewGame(MCStart), "a"), "a") EXCEPT !.result = Undeclared]}

MCSetups == {[board |-> FALSE, bot |-> "nobody", timed |-> TRUE],
             [board |-> FALSE, bot |-> "white", timed |-> TRUE],
             [board |-> TRUE, bot |-> "nobody", timed |-> TRUE],
             [board |-> TRUE, bot |-> "black", timed |-> TRUE],
             [board |-> TRUE, bot |-> "nobody", timed |-> FALSE]}
=============================================================================
