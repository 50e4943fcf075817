--------------------------- MODULE MCDurableMatch ---------------------------
(***************************************************************************)
(* DurableMatch on a three-position game: one move each side, then a       *)
(* position that ends the game.  Two ticks make a millisecond.             *)
(***************************************************************************)
EXTENDS DurableMatch, TLC

MCPosition == {"p0", "p1", "stale"}
MCMove == {"a", "b"}
MCTurn == [p \in MCPosition |-> IF p = "p1" THEN "black" ELSE "white"]
MCLegal == [p \in MCPosition |->
              CASE p = "p0" -> {"a"}
                [] p = "p1" -> {"a", "b"}
                [] OTHER -> {}]
MCInCheck == [p \in MCPosition |-> FALSE]
MCAfter == [p \in MCPosition |-> [mv \in MCMove |->
              CASE p = "p0" -> "p1"
                [] p = "p1" /\ mv = "a" -> "p0"
                [] OTHER -> "stale"]]
\* The hash check is the business of MCMatch: here every position has the same one.
MCHash == [p \in MCPosition |-> 0]

MCSymmetry == Permutations(Player)
=============================================================================
