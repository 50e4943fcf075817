--------------------------- MODULE MCRemoteClient ---------------------------
(***************************************************************************)
(* RemoteClient on a game that can return to the start, so that a move     *)
(* typed twice would be legal twice, and can end in mate.                  *)
(***************************************************************************)
EXTENDS RemoteClient, TLC

CONSTANTS alice, bob, carol

MCPosition == {"p0", "p1", "mate"}
MCMove == {"a", "b"}
MCTurn == [p \in MCPosition |-> IF p = "p1" THEN "black" ELSE "white"]
MCLegal == [p \in MCPosition |->
              CASE p = "p0" -> {"a"}
                [] p = "p1" -> {"a", "b"}
                [] OTHER -> {}]
MCInCheck == [p \in MCPosition |-> p = "mate"]
MCAfter == [p \in MCPosition |-> [mv \in MCMove |->
              CASE p = "p0" -> "p1"
                [] p = "p1" /\ mv = "a" -> "p0"
                [] OTHER -> "mate"]]
MCHash == [p \in MCPosition |-> p]

TwoSides == (alice :> "white") @@ (bob :> "black")
WithSpectator == TwoSides @@ (carol :> "spectator")
=============================================================================
