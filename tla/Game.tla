-------------------------------- MODULE Game --------------------------------
(***************************************************************************)
(* One chess.Game in the hands of a caller who may call its methods in any *)
(* order and mix the two rule sets.  A refused call changes nothing.       *)
(***************************************************************************)
EXTENDS GameOps

CONSTANTS
    Start,     \* the initial position
    MaxMoves   \* bound: retained moves

ASSUME StartAssumption == Start \in Position /\ MaxMoves \in Nat

VARIABLE game

Init == game = NewGame(Start)

\* Play (casual) and PlayFIDE.
Play(mv, rules) ==
    /\ game.cursor < MaxMoves
    /\ CanPlay(game, mv, rules)
    /\ game' = Played(game, mv)

Undo == CanUndo(game) /\ game' = Undone(game)

Redo == CanRedo(game) /\ game' = Redone(game)

ClaimDraw == CanClaimDraw(game) /\ game' = [game EXCEPT !.result = "1/2-1/2"]

\* "*" takes a declared result back.
SetResult(r) ==
    game' = [game EXCEPT !.result = IF r = "*" THEN Undeclared ELSE r]

Next ==
    \/ \E mv \in Move, rules \in Rules : Play(mv, rules)
    \/ Undo
    \/ Redo
    \/ ClaimDraw
    \/ \E r \in Outcome \cup {"*"} : SetResult(r)

Spec == Init /\ [][Next]_game

-----------------------------------------------------------------------------
(* Properties.                                                             *)

\* The game is a game record with a position more than it has moves, and the
\* cursor is on one of them.
TypeOK ==
    /\ game \in GameRecord
    /\ Len(game.positions) = Len(game.moves) + 1
    /\ game.cursor <= Len(game.moves)

\* Undone moves included, the retained history is one legal line from the
\* start, and its positions are the ones the moves lead to.
HistoryIsOneLine ==
    /\ game.positions[1] = Start
    /\ \A n \in 1 .. Len(game.moves) :
         /\ game.moves[n] \in Legal[game.positions[n].board]
         /\ game.positions[n + 1] = Successor(game.positions[n], game.moves[n])

\* Nothing is ever played in a position that had ended the game, under either
\* rule set: not after mate or stalemate, and not past the 75-move and fivefold
\* limits, also when rule sets are mixed and moves undone and redone.
NothingAfterTheEnd ==
    \A n \in 1 .. Len(game.moves) : Automatic(game, n - 1, "FIDE") = "*"

\* The two rule sets agree on every position: casual play is over exactly where
\* FIDE play is over or a draw can be claimed, and with the same result.
CasualEndsAtClaims ==
    game.result = Undeclared =>
      ResultOf(game, "casual") =
        IF CanClaimDraw(game) THEN "1/2-1/2" ELSE ResultOf(game, "FIDE")

\* The history obeys the rules: it is one legal line, never passes an end, and
\* the rule sets agree on where the ends are, however calls of both rule sets,
\* undo, redo, claims and declared results follow one another.
LineFollowsRules ==
    /\ HistoryIsOneLine
    /\ NothingAfterTheEnd
    /\ CasualEndsAtClaims

\* Played to its end under casual rules.
CasualLine == \A n \in 1 .. game.cursor : Automatic(game, n - 1, "casual") = "*"

\* The declared result is not another one than the board's.
Consistent == Automatic(game, game.cursor, "casual") \in {"*", ResultOf(game, "casual")}

\* A casual game reads back from its PGN as it was: the line up to the cursor
\* and the result, whatever was undone and replaced before.
PGNReadsBack ==
    CasualLine /\ Consistent =>
      /\ Readable(PGN(game))
      /\ LET back == ParsePGN(PGN(game))
         IN  /\ back.moves = SubSeq(game.moves, 1, game.cursor)
             /\ Current(back) = Current(game)
             /\ ResultOf(back, "casual") = ResultOf(game, "casual")

\* The history behaves like a line of moves played and a line of moves undone.
History == INSTANCE Timeline
             WITH Step <- Move,
                  past <- SubSeq(game.moves, 1, game.cursor),
                  future <- SubSeq(game.moves, game.cursor + 1, Len(game.moves))
KeepsTimeline == History!TimelineSpec
=============================================================================
