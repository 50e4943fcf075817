------------------------------ MODULE MCMatch ------------------------------
(***************************************************************************)
(* Match on a five-position game: a line that returns to the start (so the *)
(* same position and hash occur at two sequence numbers), a mate, a        *)
(* stalemate, and two positions that share a hash.                         *)
(***************************************************************************)
EXTENDS Match, TLC

MCPosition == {"p0", "p1", "p2", "mate", "stale"}
MCMove == {"a", "b", "bad"}

MCTurn == [p \in MCPosition |-> IF p \in {"p1", "p2"} THEN "black" ELSE "white"]

MCLegal == [p \in MCPosition |->
              CASE p \in {"p0", "p1"} -> {"a", "b"}
                [] p = "p2" -> {"a"}
                [] OTHER -> {}]

MCInCheck == [p \in MCPosition |-> p = "mate"]

MCAfter == [p \in MCPosition |-> [mv \in MCMove |->
              CASE p = "p0" /\ mv = "a" -> "p1"
                [] p = "p0" /\ mv = "b" -> "p2"
                [] p = "p1" /\ mv = "a" -> "p0"
                [] p = "p1" /\ mv = "b" -> "mate"
                [] p = "p2" /\ mv = "a" -> "stale"
                [] OTHER -> p]]

MCHash == [p \in MCPosition |-> IF p \in {"p1", "p2"} THEN 1 ELSE 0]

MCSymmetry == Permutations(Player)
=============================================================================
