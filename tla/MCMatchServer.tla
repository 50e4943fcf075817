--------------------------- MODULE MCMatchServer ---------------------------
(***************************************************************************)
(* MatchServer on a game that goes on or is stalemate after its first move.*)
(***************************************************************************)
EXTENDS MatchServer, TLC

MCPosition == {"p0", "p1", "stale"}
MCMove == {"a", "b"}
MCTurn == [p \in MCPosition |-> IF p = "p0" THEN "white" ELSE "black"]
MCLegal == [p \in MCPosition |->
              CASE p = "p0" -> {"a", "b"}
                [] p = "p1" -> {"a"}
                [] OTHER -> {}]
MCInCheck == [p \in MCPosition |-> FALSE]
MCAfter == [p \in MCPosition |-> [mv \in MCMove |->
              IF p # "p0" THEN "p0" ELSE IF mv = "a" THEN "p1" ELSE "stale"]]
MCHash == [p \in MCPosition |-> p]

MCSymmetry == Permutations(Player) \cup Permutations(Handler)
=============================================================================
