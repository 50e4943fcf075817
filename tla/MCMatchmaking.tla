--------------------------- MODULE MCMatchmaking ---------------------------
(***************************************************************************)
(* Matchmaking with a few callers; chess is a game that never ends  *)
(* by itself.                                                              *)
(***************************************************************************)
EXTENDS Matchmaking, TLC

CONSTANTS alice, bob, dave, s1, s2, s3

MCPosition == {"p0", "p1"}
MCMove == {"a"}
MCTurn == [p \in MCPosition |-> IF p = "p0" THEN "white" ELSE "black"]
MCLegal == [p \in MCPosition |-> {"a"}]
MCInCheck == [p \in MCPosition |-> FALSE]
MCAfter == [p \in MCPosition |-> [mv \in MCMove |-> IF p = "p0" THEN "p1" ELSE "p0"]]
MCHash == [p \in MCPosition |-> p]

\* With fewer than ten matches the names come in the order of the numbers.
MCRank == [id \in MatchID |-> id]

\* Two callers, one of whom repeats the call with another colour.
ThreeAsking == (s1 :> alice) @@ (s2 :> bob) @@ (s3 :> alice)
ThreeWants == (s1 :> "any") @@ (s2 :> "black") @@ (s3 :> "white")
=============================================================================
