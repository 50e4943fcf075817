----------------------------- MODULE GameProofs -----------------------------
(***************************************************************************)
(* Proofs about Game, for every graph of boards and all thresholds, and    *)
(* about LocalSession, for every way to start a session and all that may   *)
(* be typed in it.                                                         *)
(***************************************************************************)
EXTENDS LocalSession, SequenceTheorems, FiniteSetTheorems, WellFoundedInduction, TLAPS

-----------------------------------------------------------------------------
(* The game.                                                               *)

\* A game record whose history and cursor fit together.
WellFormed(g) ==
    /\ g \in GameRecord
    /\ Len(g.positions) = Len(g.moves) + 1
    /\ g.cursor <= Len(g.moves)

\* The position a move leads to is one.
LEMMA SuccessorType ==
    ASSUME NEW p \in Position, NEW mv \in Move
    PROVE  Successor(p, mv) \in Position
BY ChessAssumption DEF Successor, Position

\* The cursor is on a position.
LEMMA CurrentType ==
    ASSUME NEW g, WellFormed(g)
    PROVE  Current(g) \in Position
BY DEF WellFormed, GameRecord, Current

\* The moves up to the cursor, or up to any earlier place, are moves.
LEMMA PrefixType ==
    ASSUME NEW S, NEW s \in Seq(S), NEW n \in 0 .. Len(s)
    PROVE  /\ SubSeq(s, 1, n) \in Seq(S)
           /\ Len(SubSeq(s, 1, n)) = n
           /\ \A i \in 1 .. n : SubSeq(s, 1, n)[i] = s[i]
<1>1. \A i \in 1 .. n : s[i] \in S
  OBVIOUS
<1>2. QED
  BY <1>1, SubSeqProperties

\* What a move does to the history: the part up to the cursor stays, one move
\* and one position follow it, and nothing comes after them.
LEMMA PlayedFields ==
    ASSUME NEW g, WellFormed(g), NEW mv \in Move
    PROVE  /\ WellFormed(Played(g, mv))
           /\ Played(g, mv).cursor = g.cursor + 1
           /\ Played(g, mv).result = g.result
           /\ Played(g, mv).moves = Append(SubSeq(g.moves, 1, g.cursor), mv)
           /\ Len(Played(g, mv).moves) = g.cursor + 1
           /\ \A i \in 1 .. g.cursor : Played(g, mv).moves[i] = g.moves[i]
           /\ Played(g, mv).moves[g.cursor + 1] = mv
           /\ \A i \in 1 .. g.cursor + 1 : Played(g, mv).positions[i] = g.positions[i]
           /\ Played(g, mv).positions[g.cursor + 2] = Successor(Current(g), mv)
<1> DEFINE ms == SubSeq(g.moves, 1, g.cursor)
           ps == SubSeq(g.positions, 1, g.cursor + 1)
           next == Successor(Current(g), mv)
<1>1. /\ g.cursor \in Nat /\ g.moves \in Seq(Move) /\ g.positions \in Seq(Position)
      /\ g.cursor \in 0 .. Len(g.moves) /\ g.cursor + 1 \in 0 .. Len(g.positions)
      /\ g.result \in Outcome \cup {Undeclared}
  BY DEF WellFormed, GameRecord
<1>2. /\ ms \in Seq(Move) /\ Len(ms) = g.cursor
      /\ \A i \in 1 .. g.cursor : ms[i] = g.moves[i]
  BY <1>1, PrefixType
<1>3. /\ ps \in Seq(Position) /\ Len(ps) = g.cursor + 1
      /\ \A i \in 1 .. g.cursor + 1 : ps[i] = g.positions[i]
  BY <1>1, PrefixType
<1>4. next \in Position
  BY CurrentType, SuccessorType
<1> HIDE DEF ms, ps, next
<1>5. /\ Append(ms, mv) \in Seq(Move) /\ Len(Append(ms, mv)) = g.cursor + 1
      /\ \A i \in 1 .. g.cursor : Append(ms, mv)[i] = g.moves[i]
      /\ Append(ms, mv)[g.cursor + 1] = mv
  BY <1>2, AppendProperties
<1>6. /\ Append(ps, next) \in Seq(Position) /\ Len(Append(ps, next)) = g.cursor + 2
      /\ \A i \in 1 .. g.cursor + 1 : Append(ps, next)[i] = g.positions[i]
      /\ Append(ps, next)[g.cursor + 2] = next
  BY <1>1, <1>3, <1>4, AppendProperties
<1>7. Played(g, mv) = [positions |-> Append(ps, next), moves |-> Append(ms, mv),
                       cursor |-> g.cursor + 1, result |-> g.result]
  BY DEF Played, ms, ps, next
<1>8. /\ Played(g, mv).positions = Append(ps, next)
      /\ Played(g, mv).moves = Append(ms, mv)
      /\ Played(g, mv).cursor = g.cursor + 1
      /\ Played(g, mv).result = g.result
  BY <1>7
<1>9. Played(g, mv) \in GameRecord
  BY <1>1, <1>5, <1>6, <1>7 DEF GameRecord
<1>10. WellFormed(Played(g, mv))
  BY <1>1, <1>5, <1>6, <1>8, <1>9 DEF WellFormed
<1>11. QED
  BY <1>5, <1>6, <1>8, <1>10 DEF ms, next

\* A legal move is a move.
LEMMA LegalIsMove ==
    ASSUME NEW g, WellFormed(g), NEW mv \in Legal[Current(g).board]
    PROVE  mv \in Move
BY CurrentType, ChessAssumption DEF Position

\* Every step is a move in a position that has not ended the game, or changes
\* the cursor or the declared result only.
LEMMA StepShape ==
    ASSUME WellFormed(game), Next
    PROVE  \/ \E mv \in Move, rules \in Rules :
                CanPlay(game, mv, rules) /\ game' = Played(game, mv)
           \/ /\ WellFormed(game')
              /\ game'.moves = game.moves /\ game'.positions = game.positions
              /\ \/ game'.cursor = game.cursor
                 \/ CanUndo(game) /\ game'.cursor = game.cursor - 1
                 \/ CanRedo(game) /\ game'.cursor = game.cursor + 1
<1> DEFINE Moves == \E mv \in Move, rules \in Rules :
                      CanPlay(game, mv, rules) /\ game' = Played(game, mv)
           Stays == /\ WellFormed(game')
                    /\ game'.moves = game.moves /\ game'.positions = game.positions
                    /\ \/ game'.cursor = game.cursor
                       \/ CanUndo(game) /\ game'.cursor = game.cursor - 1
                       \/ CanRedo(game) /\ game'.cursor = game.cursor + 1
<1>1. ASSUME NEW mv \in Move, NEW rules \in Rules, Play(mv, rules)
      PROVE  Moves
  BY <1>1 DEF Play
<1>2. ASSUME Undo PROVE Stays
  <2>1. /\ game'.moves = game.moves /\ game'.positions = game.positions
        /\ \/ game'.cursor = game.cursor
           \/ CanUndo(game) /\ game'.cursor = game.cursor - 1
           \/ CanRedo(game) /\ game'.cursor = game.cursor + 1
    BY <1>2 DEF Undo, CanUndo, Undone, WellFormed, GameRecord
  <2>a. game.cursor \in Nat /\ game.cursor > 0 /\ Len(game.moves) \in Nat
        /\ game.cursor <= Len(game.moves)
    BY <1>2 DEF Undo, CanUndo, WellFormed, GameRecord
  <2>b. game.cursor - 1 \in Nat /\ game.cursor - 1 <= Len(game.moves)
    BY <2>a
  <2>c. game' = [game EXCEPT !.cursor = game.cursor - 1, !.result = Undeclared]
    BY <1>2 DEF Undo, Undone
  <2>d. game' \in GameRecord
    BY <2>b, <2>c DEF WellFormed, GameRecord
  <2>2. game' \in GameRecord /\ game'.cursor <= Len(game.moves)
    BY <2>b, <2>c, <2>d DEF WellFormed, GameRecord
  <2>3. QED BY <2>1, <2>2 DEF WellFormed
<1>3. ASSUME Redo PROVE Stays
  <2>1. /\ game'.moves = game.moves /\ game'.positions = game.positions
        /\ \/ game'.cursor = game.cursor
           \/ CanUndo(game) /\ game'.cursor = game.cursor - 1
           \/ CanRedo(game) /\ game'.cursor = game.cursor + 1
    BY <1>3 DEF Redo, CanRedo, Redone, WellFormed, GameRecord
  <2>2. game' \in GameRecord /\ game'.cursor <= Len(game.moves)
    BY <1>3 DEF Redo, CanRedo, Redone, WellFormed, GameRecord
  <2>3. QED BY <2>1, <2>2 DEF WellFormed
<1>4. ASSUME ClaimDraw PROVE Stays
  <2>1. /\ game'.moves = game.moves /\ game'.positions = game.positions
        /\ \/ game'.cursor = game.cursor
           \/ CanUndo(game) /\ game'.cursor = game.cursor - 1
           \/ CanRedo(game) /\ game'.cursor = game.cursor + 1
    BY <1>4 DEF ClaimDraw, Outcome, WellFormed, GameRecord
  <2>2. game' \in GameRecord /\ game'.cursor <= Len(game.moves)
    BY <1>4 DEF ClaimDraw, Outcome, WellFormed, GameRecord
  <2>3. QED BY <2>1, <2>2 DEF WellFormed
<1>5. ASSUME NEW r \in Outcome \cup {"*"}, SetResult(r)
      PROVE  Stays
  BY <1>5 DEF SetResult, WellFormed, GameRecord
<1> HIDE DEF Moves, Stays
<1>6. Moves \/ Stays
  BY <1>1, <1>2, <1>3, <1>4, <1>5 DEF Next
<1>7. QED
  BY <1>6 DEF Moves, Stays

-----------------------------------------------------------------------------
\* Type correctness: the history and the cursor always fit together, whatever
\* is undone, redone, played and declared.
THEOREM TypeCorrect == Spec => []TypeOK
<1>1. Init => TypeOK
  BY StartAssumption DEF Init, TypeOK, NewGame, GameRecord
<1>2. TypeOK /\ [Next]_game => TypeOK'
  <2> SUFFICES ASSUME TypeOK, [Next]_game
               PROVE  TypeOK'
    OBVIOUS
  <2>1. WellFormed(game)
    BY DEF TypeOK, WellFormed
  <2>2. ASSUME NEW mv \in Move, game' = Played(game, mv)
        PROVE  WellFormed(game')
    BY <2>1, <2>2, PlayedFields
  <2>3. CASE Next
    BY <2>1, <2>2, <2>3, StepShape DEF TypeOK, WellFormed
  <2>4. CASE UNCHANGED game
    BY <2>4 DEF TypeOK
  <2>5. QED BY <2>3, <2>4
<1>3. QED BY <1>1, <1>2, PTL DEF Spec

\* The retained history is one legal line from the start.
THEOREM HistoryStaysOneLine == Spec => []HistoryIsOneLine
<1>1. Init => HistoryIsOneLine
  BY DEF Init, NewGame, HistoryIsOneLine
<1>2. TypeOK /\ HistoryIsOneLine /\ [Next]_game => HistoryIsOneLine'
  <2> SUFFICES ASSUME TypeOK, HistoryIsOneLine, [Next]_game
               PROVE  HistoryIsOneLine'
    OBVIOUS
  <2>1. WellFormed(game) /\ game.cursor \in Nat /\ game.cursor <= Len(game.moves)
        /\ Len(game.moves) \in Nat
    BY DEF TypeOK, WellFormed, GameRecord
  <2>2. ASSUME NEW mv \in Move, NEW rules \in Rules,
               CanPlay(game, mv, rules), game' = Played(game, mv)
        PROVE  HistoryIsOneLine'
    <3>0. /\ Len(game'.moves) = game.cursor + 1
          /\ \A i \in 1 .. game.cursor : game'.moves[i] = game.moves[i]
          /\ game'.moves[game.cursor + 1] = mv
          /\ \A i \in 1 .. game.cursor + 1 : game'.positions[i] = game.positions[i]
          /\ game'.positions[game.cursor + 2] = Successor(Current(game), mv)
      BY <2>1, <2>2, PlayedFields
    <3>1. mv \in Legal[Current(game).board]
      BY <2>2 DEF CanPlay
    <3>2. game'.positions[1] = Start
      BY <2>1, <3>0 DEF HistoryIsOneLine
    <3>3. ASSUME NEW n \in 1 .. game.cursor + 1
          PROVE  /\ game'.moves[n] \in Legal[game'.positions[n].board]
                 /\ game'.positions[n + 1] = Successor(game'.positions[n], game'.moves[n])
      <4>1. CASE n = game.cursor + 1
        <5>1. /\ game'.moves[n] = mv
              /\ game'.positions[n] = Current(game)
              /\ game'.positions[n + 1] = Successor(Current(game), mv)
          BY <2>1, <3>0, <4>1 DEF Current
        <5>2. QED BY <3>1, <5>1
      <4>2. CASE n <= game.cursor
        <5>0. n \in 1 .. game.cursor /\ n + 1 \in 1 .. game.cursor + 1
          BY <2>1, <4>2
        <5>1. /\ game'.moves[n] = game.moves[n]
              /\ game'.positions[n] = game.positions[n]
              /\ game'.positions[n + 1] = game.positions[n + 1]
          BY <3>0, <5>0
        <5>2. QED
          BY <2>1, <4>2, <5>1 DEF HistoryIsOneLine
      <4>3. QED BY <2>1, <4>1, <4>2
    <3>4. QED BY <3>0, <3>2, <3>3 DEF HistoryIsOneLine
  <2>3. ASSUME game'.moves = game.moves, game'.positions = game.positions
        PROVE  HistoryIsOneLine'
    BY <2>3 DEF HistoryIsOneLine
  <2>4. QED
    BY <2>1, <2>2, <2>3, StepShape
<1>3. QED BY <1>1, <1>2, TypeCorrect, PTL DEF Spec

-----------------------------------------------------------------------------
\* A position has occurred a number of times.
LEMMA RepetitionsType ==
    ASSUME NEW g, NEW n \in Nat
    PROVE  Repetitions(g, n) \in Nat
<1>1. IsFiniteSet(1 .. n + 1)
  BY FS_Interval
<1>2. QED
  BY <1>1, FS_Subset, FS_CardinalityType DEF Repetitions

\* What the board and the history say after n moves depends on the first n + 1
\* positions only: it survives whatever is undone and replaced behind them.
LEMMA AutomaticOfPrefix ==
    ASSUME NEW g, NEW h, NEW n \in Nat, NEW rules,
           \A i \in 1 .. n + 1 : h.positions[i] = g.positions[i]
    PROVE  Automatic(h, n, rules) = Automatic(g, n, rules)
<1>1. h.positions[n + 1] = g.positions[n + 1]
  OBVIOUS
<1>2. {i \in 1 .. n + 1 : h.positions[i].board = h.positions[n + 1].board}
        = {i \in 1 .. n + 1 : g.positions[i].board = g.positions[n + 1].board}
  BY <1>1
<1>3. Repetitions(h, n) = Repetitions(g, n)
  BY <1>2 DEF Repetitions
<1>4. QED
  BY <1>1, <1>3 DEF Automatic, DrawThreshold

\* Where casual play goes on, FIDE play goes on.
LEMMA CasualGoesOn ==
    ASSUME NEW g, NEW n \in Nat, g.positions[n + 1] \in Position,
           NEW rules \in Rules, Automatic(g, n, rules) = "*"
    PROVE  Automatic(g, n, "FIDE") = "*"
<1>1. Repetitions(g, n) \in Nat /\ g.positions[n + 1].half \in Nat
  BY RepetitionsType DEF Position
<1>2. DrawThreshold(g, n, SeventyFiveMoves, Fivefold)
        => DrawThreshold(g, n, FiftyMoves, Threefold)
  BY <1>1, ThresholdAssumption DEF DrawThreshold
<1>3. QED
  BY <1>2 DEF Automatic, Rules

\* Nothing is ever played after the end of the game, under mixed rule sets too.
THEOREM NothingFollowsTheEnd == Spec => []NothingAfterTheEnd
<1>1. Init => NothingAfterTheEnd
  BY DEF Init, NewGame, NothingAfterTheEnd
<1>2. TypeOK /\ NothingAfterTheEnd /\ [Next]_game => NothingAfterTheEnd'
  <2> SUFFICES ASSUME TypeOK, NothingAfterTheEnd, [Next]_game
               PROVE  NothingAfterTheEnd'
    OBVIOUS
  <2>1. WellFormed(game) /\ game.cursor \in Nat /\ game.cursor <= Len(game.moves)
        /\ Len(game.moves) \in Nat
    BY DEF TypeOK, WellFormed, GameRecord
  <2>2. ASSUME NEW mv \in Move, NEW rules \in Rules,
               CanPlay(game, mv, rules), game' = Played(game, mv)
        PROVE  NothingAfterTheEnd'
    <3>1. Automatic(game, game.cursor, "FIDE") = "*"
      <4>1. game.positions[game.cursor + 1] \in Position
        BY <2>1, CurrentType DEF Current
      <4>2. QED BY <2>1, <2>2, <4>1, CasualGoesOn DEF CanPlay
    <3>2. ASSUME NEW n \in 1 .. game.cursor + 1
          PROVE  Automatic(game', n - 1, "FIDE") = "*"
      <4>0. \A i \in 1 .. game.cursor + 1 : game'.positions[i] = game.positions[i]
        BY <2>1, <2>2, PlayedFields
      <4>1. n - 1 \in Nat /\ \A i \in 1 .. (n - 1) + 1 : i \in 1 .. game.cursor + 1
        BY <2>1
      <4>2. Automatic(game', n - 1, "FIDE") = Automatic(game, n - 1, "FIDE")
        BY <4>0, <4>1, AutomaticOfPrefix, ZenonT(30)
      <4>3. CASE n = game.cursor + 1
        BY <2>1, <3>1, <4>2, <4>3
      <4>4. CASE n <= game.cursor
        BY <2>1, <4>2, <4>4 DEF NothingAfterTheEnd
      <4>5. QED BY <2>1, <4>3, <4>4
    <3>3. Len(game'.moves) = game.cursor + 1
      BY <2>1, <2>2, PlayedFields
    <3>4. QED BY <3>2, <3>3 DEF NothingAfterTheEnd
  <2>3. ASSUME game'.moves = game.moves, game'.positions = game.positions
        PROVE  NothingAfterTheEnd'
    <3>1. ASSUME NEW n \in 1 .. Len(game.moves)
          PROVE  Automatic(game', n - 1, "FIDE") = "*"
      <4> DEFINE before == n - 1
      <4>0. before \in Nat
        BY <2>1
      <4> HIDE DEF before
      <4>1. \A i \in 1 .. before + 1 : game'.positions[i] = game.positions[i]
        BY <2>3
      <4>2. Automatic(game', before, "FIDE") = Automatic(game, before, "FIDE")
        BY <4>0, <4>1, AutomaticOfPrefix, ZenonT(30)
      <4>3. QED BY <4>2 DEF NothingAfterTheEnd, before
    <3>2. QED BY <2>3, <3>1 DEF NothingAfterTheEnd
  <2>4. QED
    BY <2>1, <2>2, <2>3, StepShape
<1>3. QED BY <1>1, <1>2, TypeCorrect, PTL DEF Spec

\* The rule sets agree: casual play ends exactly at FIDE ends and claims.
THEOREM RulesAgree == Spec => []CasualEndsAtClaims
<1>1. TypeOK => CasualEndsAtClaims
  <2> SUFFICES ASSUME TypeOK, game.result = Undeclared
               PROVE  ResultOf(game, "casual") =
                        IF CanClaimDraw(game) THEN "1/2-1/2" ELSE ResultOf(game, "FIDE")
    BY DEF CasualEndsAtClaims
  <2> DEFINE c == game.cursor
             b == game.positions[c + 1].board
  <2>1. WellFormed(game) /\ c \in Nat
    BY DEF TypeOK, WellFormed, GameRecord
  <2>2. Repetitions(game, c) \in Nat /\ game.positions[c + 1].half \in Nat
    BY <2>1, RepetitionsType, CurrentType DEF Current, Position
  <2>3. DrawThreshold(game, c, SeventyFiveMoves, Fivefold)
          => DrawThreshold(game, c, FiftyMoves, Threefold)
    BY <2>2, ThresholdAssumption DEF DrawThreshold
  <2>4. WinFor(Other(Turn[b])) # "*"
    BY DEF WinFor
  <2> HIDE DEF b
  <2>5. QED
    BY <2>3, <2>4 DEF ResultOf, CanClaimDraw, Automatic, b
<1>2. QED BY <1>1, TypeCorrect, PTL

\* The line of a game follows the rules: the three theorems above together.
THEOREM LineStaysWithinRules == Spec => []LineFollowsRules
  BY HistoryStaysOneLine, NothingFollowsTheEnd, RulesAgree, PTL DEF LineFollowsRules

-----------------------------------------------------------------------------
\* The history implements the timeline of moves played and moves undone.
THEOREM GameKeepsTimeline == Spec => KeepsTimeline
<1> DEFINE past(g) == SubSeq(g.moves, 1, g.cursor)
           future(g) == SubSeq(g.moves, g.cursor + 1, Len(g.moves))
<1>1. Init => History!TimelineInit
  BY SubSeqEmpty DEF Init, NewGame, History!TimelineInit
<1>2. TypeOK /\ [Next]_game => [History!TimelineNext]_(History!timeline)
  <2> SUFFICES ASSUME TypeOK, [Next]_game
               PROVE  [History!TimelineNext]_(History!timeline)
    OBVIOUS
  <2>1. /\ WellFormed(game) /\ game.cursor \in 0 .. Len(game.moves)
        /\ game.moves \in Seq(Move) /\ Len(game.moves) \in Nat
    BY DEF TypeOK, WellFormed, GameRecord
  <2>2. past(game) \in Seq(Move) /\ Len(past(game)) = game.cursor
        /\ \A i \in 1 .. game.cursor : past(game)[i] = game.moves[i]
    BY <2>1, PrefixType
  <2>3. ASSUME NEW mv \in Move, game' = Played(game, mv)
        PROVE  History!TakeStep
    <3>1. game'.moves = Append(past(game), mv) /\ game'.cursor = game.cursor + 1
          /\ Len(game'.moves) = game.cursor + 1
      BY <2>1, <2>3, PlayedFields
    <3>2. game'.moves \in Seq(Move)
      BY <2>2, <3>1, AppendProperties
    <3>3. past(game') = Append(past(game), mv)
      BY <3>1, <3>2, SubSeqFull
    <3>4. future(game') = << >>
      BY <2>1, <3>1, SubSeqEmpty
    <3>5. QED BY <3>3, <3>4 DEF History!TakeStep
  <2>4. ASSUME CanUndo(game), game'.moves = game.moves, game'.cursor = game.cursor - 1
        PROVE  History!GoBack
    <3>1. game.cursor \in 1 .. Len(game.moves)
      BY <2>1, <2>4 DEF CanUndo
    <3>2. past(game) # << >> /\ past(game)[Len(past(game))] = game.moves[game.cursor]
      BY <2>2, <3>1
    <3>3. past(game') = SubSeq(past(game), 1, Len(past(game)) - 1)
      <4>1. CASE game.cursor = 1
        <5>1. game'.cursor = 0 /\ Len(past(game)) - 1 = 0
          BY <2>2, <2>4, <4>1
        <5>2. \A m : SubSeq(m, 1, 0) = << >>
          BY SubSeqEmpty
        <5>3. QED BY <5>1, <5>2
      <4>2. CASE game.cursor > 1
        <5>1. game.cursor - 1 \in 1 .. game.cursor - 1 + 1 /\ 1 \in 1 .. Len(game.moves)
              /\ 1 \in 1 .. game.cursor - 1 + 1
          BY <2>1, <3>1, <4>2
        <5>2. SubSeq(past(game), 1, game.cursor - 1)
                = SubSeq(game.moves, 1 + 1 - 1, 1 + (game.cursor - 1) - 1)
          BY <2>1, <3>1, <5>1, SubSeqOfSubSeq
        <5>3. /\ 1 + 1 - 1 = 1 /\ 1 + (game.cursor - 1) - 1 = game.cursor - 1
              /\ Len(past(game)) - 1 = game.cursor - 1
          BY <2>1, <2>2
        <5>4. SubSeq(past(game), 1, game.cursor - 1)
                = SubSeq(game.moves, 1, game.cursor - 1)
          BY <5>2, <5>3
        <5>5. past(game') = SubSeq(game.moves, 1, game.cursor - 1)
          BY <2>4
        <5>6. SubSeq(past(game), 1, Len(past(game)) - 1)
                = SubSeq(past(game), 1, game.cursor - 1)
          BY <5>3
        <5>7. QED BY <5>4, <5>5, <5>6
      <4>3. game.cursor = 1 \/ game.cursor > 1
        BY <2>1, <3>1
      <4>4. QED BY <4>1, <4>2, <4>3
    <3>4. future(game') = <<game.moves[game.cursor]>> \o future(game)
      <4>1. Len(game.moves) \in game.cursor .. Len(game.moves)
        BY <2>1, <3>1
      <4>2. SubSeq(game.moves, game.cursor, Len(game.moves))
              = <<game.moves[game.cursor]>>
                  \o SubSeq(game.moves, game.cursor + 1, Len(game.moves))
        BY <2>1, <3>1, <4>1, SubSeqRecursiveFirst
      <4>3. game'.cursor + 1 = game.cursor
        BY <2>1, <2>4
      <4>4. QED BY <2>4, <4>2, <4>3
    <3>5. QED BY <3>2, <3>3, <3>4 DEF History!GoBack
  <2>5. ASSUME CanRedo(game), game'.moves = game.moves, game'.cursor = game.cursor + 1
        PROVE  History!GoForward
    <3>1. game.cursor + 1 \in 1 .. Len(game.moves)
      BY <2>1, <2>5 DEF CanRedo
    <3>2. /\ Head(future(game)) = game.moves[game.cursor + 1]
          /\ Tail(future(game)) = SubSeq(game.moves, game.cursor + 2, Len(game.moves))
      <4>1. Len(game.moves) \in game.cursor + 1 .. Len(game.moves)
        BY <2>1, <3>1
      <4>2. /\ Head(future(game)) = game.moves[game.cursor + 1]
            /\ Tail(future(game))
                 = SubSeq(game.moves, (game.cursor + 1) + 1, Len(game.moves))
        BY <2>1, <3>1, <4>1, HeadTailOfSubSeq
      <4>3. (game.cursor + 1) + 1 = game.cursor + 2
        BY <2>1
      <4>4. QED BY <4>2, <4>3
    <3>3. future(game) # << >>
      <4>1. \A i \in game.cursor + 1 .. Len(game.moves) : game.moves[i] \in Move
        BY <2>1
      <4>2. Len(future(game)) = Len(game.moves) - (game.cursor + 1) + 1
        BY <2>1, <3>1, <4>1, SubSeqProperties
      <4>3. Len(future(game)) # 0
        BY <2>1, <3>1, <4>2
      <4>4. Len(<< >>) = 0
        BY EmptySeq
      <4>5. QED BY <4>3, <4>4
    <3>4. past(game') = past(game) \o <<game.moves[game.cursor + 1]>>
      <4>1. game.cursor + 1 \in 1 .. Len(game.moves) /\ 1 \in 1 .. Len(game.moves)
            /\ (game.cursor + 1) - 1 = game.cursor
        BY <2>1, <3>1
      <4>2. SubSeq(game.moves, 1, game.cursor + 1)
              = SubSeq(game.moves, 1, (game.cursor + 1) - 1)
                  \o <<game.moves[game.cursor + 1]>>
        BY <2>1, <4>1, SubSeqRecursiveSecond
      <4>3. QED BY <2>5, <4>1, <4>2
    <3>5. past(game') = Append(past(game), game.moves[game.cursor + 1])
      <4>1. game.moves[game.cursor + 1] \in Move
        BY <2>1, <3>1
      <4>2. QED BY <2>2, <3>4, <4>1, AppendIsConcat
    <3>a. future(game') = SubSeq(game.moves, game.cursor + 2, Len(game.moves))
      <4>1. game'.cursor + 1 = game.cursor + 2
        BY <2>1, <2>5
      <4>2. QED BY <2>5, <4>1
    <3>6. QED BY <3>2, <3>3, <3>5, <3>a DEF History!GoForward
  <2>6. ASSUME game'.moves = game.moves, game'.cursor = game.cursor
        PROVE  UNCHANGED History!timeline
    BY <2>6 DEF History!timeline
  <2>7. QED
    BY <2>1, <2>3, <2>4, <2>5, <2>6, StepShape DEF History!TimelineNext
<1>3. QED
  BY <1>1, <1>2, TypeCorrect, PTL DEF Spec, KeepsTimeline, History!TimelineSpec
-----------------------------------------------------------------------------
(* Induction.  A set of natural numbers has a least element, so the        *)
(* numbers outside an inductive set have none.  Reading a game back needs  *)
(* no more: FoldLeft is a function defined by recursion over sets.         *)

\* Every set of natural numbers but the empty one has a least element.
LEMMA LeastNat == \A T \in SUBSET Nat : T # {} => \E x \in T : \A y \in T : x <= y
<1> DEFINE R == {ss \in Nat \X Nat : ss[1] < ss[2]}
<1>1. IsWellFoundedOn(R, Nat)
  BY NatLessThanWellFounded DEF OpToRel
<1>2. SUFFICES ASSUME NEW T \in SUBSET Nat, T # {}
               PROVE  \E x \in T : \A y \in T : x <= y
  OBVIOUS
<1>3. PICK x \in T : \A y \in T : ~ (<<y, x>> \in R)
  <2> HIDE DEF R
  <2> QED BY <1>1, <1>2, WFMin
<1>4. \A y \in T : ~(y < x)
  BY <1>3
<1>5. QED BY <1>4

\* A set that holds 0 and the successor of each of its members is Nat.
LEMMA InductiveSet ==
    ASSUME NEW T \in SUBSET Nat, 0 \in T, \A n \in T : n + 1 \in T
    PROVE  T = Nat
<1>1. SUFFICES ASSUME Nat \ T # {} PROVE FALSE
  OBVIOUS
<1>2. PICK x \in Nat \ T : \A y \in Nat \ T : x <= y
  BY <1>1, LeastNat
<1>3. x - 1 \in T
  BY <1>2
<1>4. QED BY <1>2, <1>3

\* The function FoldLeft defines for Played, on the subsets of 1 .. k.
Table(g, p, line, k) ==
    g = [s \in SUBSET (1 .. k) |->
           IF s = {} THEN p ELSE Played(g[s \ {Max(s)}], line[Max(s)])]

\* A set that holds its upper bound has it as its maximum.
LEMMA MaxIsBound ==
    ASSUME NEW k \in Int, NEW s \in SUBSET (1 .. k), k \in s
    PROVE  Max(s) = k
<1>1. \A x \in s : (\A y \in s : x >= y) <=> x = k
  OBVIOUS
<1>2. QED BY <1>1 DEF Max

\* There is such a function for every k.
LEMMA TableExists ==
    ASSUME NEW p, NEW line, NEW k \in Nat PROVE \E g : Table(g, p, line, k)
<1> DEFINE T == {n \in Nat : \E g : Table(g, p, line, n)}
<1>1. 0 \in T
  <2> DEFINE g == [s \in SUBSET (1 .. 0) |-> p]
  <2>1. \A s \in SUBSET (1 .. 0) : s = {}
    OBVIOUS
  <2>2. Table(g, p, line, 0)
    BY <2>1 DEF Table
  <2>3. QED BY <2>2
<1>2. ASSUME NEW n \in T PROVE n + 1 \in T
  <2>1. PICK g : n \in Nat /\ Table(g, p, line, n)
    OBVIOUS
  <2> DEFINE h == [s \in SUBSET (1 .. n + 1) |->
                     IF n + 1 \notin s THEN g[s]
                     ELSE Played(g[s \ {n + 1}], line[n + 1])]
             step(s) == IF s = {} THEN p ELSE Played(h[s \ {Max(s)}], line[Max(s)])
  <2>2. ASSUME NEW s \in SUBSET (1 .. n + 1), n + 1 \notin s PROVE h[s] = step(s)
    <3>0. \A i \in 1 .. n + 1 : i # n + 1 => i \in 1 .. n
      BY <2>1
    <3>1. s \in SUBSET (1 .. n) /\ s \ {Max(s)} \in SUBSET (1 .. n)
      <4>1. \A i \in s : i \in 1 .. n
        BY <2>2, <3>0
      <4>2. QED BY <4>1
    <3>2. g[s] = IF s = {} THEN p ELSE Played(g[s \ {Max(s)}], line[Max(s)])
      BY <2>1, <3>1 DEF Table
    <3>3. s \ {Max(s)} \in SUBSET (1 .. n + 1) /\ n + 1 \notin s \ {Max(s)}
      BY <2>2
    <3>4. h[s \ {Max(s)}] = g[s \ {Max(s)}] /\ h[s] = g[s]
      BY <3>3, <2>2
    <3>5. QED BY <3>2, <3>4
  <2>3. ASSUME NEW s \in SUBSET (1 .. n + 1), n + 1 \in s PROVE h[s] = step(s)
    <3>0. n + 1 \in Int
      BY <2>1
    <3>1. Max(s) = n + 1
      BY <2>3, <3>0, MaxIsBound
    <3>2. s \ {n + 1} \in SUBSET (1 .. n + 1) /\ n + 1 \notin s \ {n + 1}
      OBVIOUS
    <3>3. h[s \ {n + 1}] = g[s \ {n + 1}]
      BY <3>2
    <3>4. QED BY <3>1, <3>3, <2>3
  <2>4. h = [s \in SUBSET (1 .. n + 1) |-> step(s)]
    BY <2>2, <2>3
  <2>5. Table(h, p, line, n + 1)
    BY <2>4 DEF Table
  <2>6. QED BY <2>5
<1>3. T \in SUBSET Nat
  OBVIOUS
<1>4. T = Nat
  <2> HIDE DEF T
  <2> QED BY <1>1, <1>2, <1>3, InductiveSet
<1>5. QED BY <1>4

\* Playing a line reads the table of the line.
LEMMA PlayedTable ==
    ASSUME NEW p, NEW line \in Seq(Move)
    PROVE  \E g : Table(g, p, line, Len(line)) /\ FoldLeft(Played, p, line) = g[1 .. Len(line)]
<1> DEFINE g == CHOOSE h : h = [s \in SUBSET DOMAIN line |->
                    IF s = {} THEN p ELSE Played(h[s \ {Max(s)}], line[Max(s)])]
<1>1. DOMAIN line = 1 .. Len(line)
  OBVIOUS
<1>2. FoldLeft(Played, p, line) = g[DOMAIN line]
  BY DEF FoldLeft, MapThenFoldSet
<1>3. \E h : Table(h, p, line, Len(line))
  <2>1. Len(line) \in Nat
    OBVIOUS
  <2>2. QED BY <2>1, TableExists
<1>4. g = [s \in SUBSET DOMAIN line |->
             IF s = {} THEN p ELSE Played(g[s \ {Max(s)}], line[Max(s)])]
  BY <1>1, <1>3 DEF Table
<1>5. Table(g, p, line, Len(line))
  <2> HIDE DEF g
  <2> QED BY <1>1, <1>4 DEF Table
<1>6. QED
  <2> HIDE DEF g
  <2> QED BY <1>1, <1>2, <1>5

\* The entry of a table for 1 .. k, from the one before it.
StepByStep(g, p, line, n) ==
    /\ g[1 .. 0] = p
    /\ \A k \in 0 .. n - 1 : g[1 .. k + 1] = Played(g[1 .. k], line[k + 1])

\* A table holds the games along its line, one after the other.
LEMMA TableStep ==
    ASSUME NEW p, NEW line, NEW n \in Nat, NEW g, Table(g, p, line, n)
    PROVE  StepByStep(g, p, line, n)
<1>1. g[1 .. 0] = p
  BY DEF Table
<1>2. ASSUME NEW k \in 0 .. n - 1
      PROVE  g[1 .. k + 1] = Played(g[1 .. k], line[k + 1])
  <2> DEFINE s == 1 .. k + 1
  <2>1. s \in SUBSET (1 .. n) /\ s # {}
    BY <1>2
  <2>2. Max(s) = k + 1
    <3>1. k + 1 \in Int /\ k + 1 \in s /\ s \in SUBSET (1 .. k + 1)
      BY <1>2
    <3>2. QED BY <3>1, MaxIsBound
  <2>3. s \ {k + 1} = 1 .. k
    OBVIOUS
  <2>4. g[s] = Played(g[s \ {Max(s)}], line[Max(s)])
    <3> HIDE DEF s
    <3> QED BY <2>1 DEF Table
  <2>5. QED BY <2>2, <2>3, <2>4
<1>3. QED BY <1>1, <1>2 DEF StepByStep

\* Games that lead from one to the next along a line end in the game that
\* playing the line makes.
LEMMA PlayedAlong ==
    ASSUME NEW line \in Seq(Move), NEW p, NEW f, f[0] = p,
           \A k \in 0 .. Len(line) - 1 : f[k + 1] = Played(f[k], line[k + 1])
    PROVE  FoldLeft(Played, p, line) = f[Len(line)]
<1> DEFINE n == Len(line)
<1>1. n \in Nat
  OBVIOUS
<1>2. PICK g : Table(g, p, line, n) /\ FoldLeft(Played, p, line) = g[1 .. n]
  BY PlayedTable
<1> HIDE DEF n
<1>3. StepByStep(g, p, line, n)
  BY <1>1, <1>2, TableStep
<1> DEFINE T == {k \in Nat : k <= n => g[1 .. k] = f[k]}
<1>4. T \in SUBSET Nat /\ 0 \in T
  BY <1>3 DEF StepByStep
<1>5. ASSUME NEW k \in T PROVE k + 1 \in T
  <2>1. SUFFICES ASSUME k + 1 <= n PROVE g[1 .. k + 1] = f[k + 1]
    OBVIOUS
  <2>2. k \in 0 .. n - 1 /\ g[1 .. k] = f[k]
    BY <1>1, <2>1
  <2>3. g[1 .. k + 1] = Played(g[1 .. k], line[k + 1])
    BY <1>3, <2>2 DEF StepByStep
  <2>4. f[k + 1] = Played(f[k], line[k + 1])
    BY <2>2 DEF n
  <2>5. QED BY <2>2, <2>3, <2>4
<1>6. T = Nat
  <2> HIDE DEF T
  <2> QED BY <1>4, <1>5, InductiveSet
<1>7. g[1 .. n] = f[n]
  BY <1>1, <1>6
<1>8. QED BY <1>2, <1>7 DEF n

-----------------------------------------------------------------------------
(* Reading a game back from its PGN.                                       *)

\* Two beginnings of one length that agree place by place are the same.
LEMMA BeginningIs ==
    ASSUME NEW S, NEW s \in Seq(S), NEW n \in 0 .. Len(s),
           NEW t \in Seq(S), Len(t) = n, \A i \in 1 .. n : t[i] = s[i]
    PROVE  t = SubSeq(s, 1, n)
<1>1. /\ SubSeq(s, 1, n) \in Seq(S) /\ Len(SubSeq(s, 1, n)) = n
      /\ \A i \in 1 .. n : SubSeq(s, 1, n)[i] = s[i]
  BY PrefixType
<1> HIDE DEF SubSeq
<1>2. QED BY <1>1, SeqEqual

\* A beginning and the place after it.
LEMMA BeginningGrows ==
    ASSUME NEW S, NEW s \in Seq(S), NEW n \in Nat, n + 1 <= Len(s)
    PROVE  Append(SubSeq(s, 1, n), s[n + 1]) = SubSeq(s, 1, n + 1)
<1>1. n \in 0 .. Len(s) /\ n + 1 \in 0 .. Len(s) /\ n + 1 \in 1 .. Len(s)
  OBVIOUS
<1>2. /\ SubSeq(s, 1, n) \in Seq(S) /\ Len(SubSeq(s, 1, n)) = n
      /\ \A i \in 1 .. n : SubSeq(s, 1, n)[i] = s[i]
  BY <1>1, PrefixType
<1>3. s[n + 1] \in S
  BY <1>1
<1> DEFINE a == SubSeq(s, 1, n)
           t == Append(a, s[n + 1])
<1> HIDE DEF a
<1>4. /\ t \in Seq(S) /\ Len(t) = n + 1 /\ t[n + 1] = s[n + 1]
      /\ \A i \in 1 .. n : t[i] = a[i]
  BY <1>2, <1>3, AppendProperties DEF a
<1> HIDE DEF t
<1>5. \A i \in 1 .. n + 1 : t[i] = s[i]
  BY <1>2, <1>4 DEF a
<1>6. t = SubSeq(s, 1, n + 1)
  BY <1>1, <1>4, <1>5, BeginningIs
<1>7. QED BY <1>6 DEF t, a

\* A beginning of a beginning is one.
LEMMA BeginningOfBeginning ==
    ASSUME NEW S, NEW s \in Seq(S), NEW m \in 0 .. Len(s), NEW n \in 0 .. m
    PROVE  SubSeq(SubSeq(s, 1, m), 1, n) = SubSeq(s, 1, n)
<1> DEFINE a == SubSeq(s, 1, m)
           t == SubSeq(a, 1, n)
<1>1. a \in Seq(S) /\ Len(a) = m /\ \A i \in 1 .. m : a[i] = s[i]
  BY PrefixType
<1>2. n \in 0 .. Len(s) /\ n \in 0 .. Len(a) /\ \A i \in 1 .. n : i \in 1 .. m
  BY <1>1
<1> HIDE DEF a
<1>3. t \in Seq(S) /\ Len(t) = n /\ \A i \in 1 .. n : t[i] = a[i]
  BY <1>1, <1>2, PrefixType
<1> HIDE DEF t
<1>4. \A i \in 1 .. n : t[i] = s[i]
  BY <1>1, <1>2, <1>3
<1>5. t = SubSeq(s, 1, n)
  BY <1>2, <1>3, <1>4, BeginningIs
<1>6. QED BY <1>5 DEF t, a

\* The game as it was after its first n moves, without what was undone since
\* and before any result was declared.
Rebuilt(g, n) ==
    [positions |-> SubSeq(g.positions, 1, n + 1), moves |-> SubSeq(g.moves, 1, n),
     cursor |-> n, result |-> Undeclared]

\* Each of these is the one before it with one move more.
LEMMA RebuiltGrows ==
    ASSUME TypeOK, HistoryIsOneLine, NEW n \in Nat, n + 1 <= Len(game.moves)
    PROVE  Rebuilt(game, n + 1) = Played(Rebuilt(game, n), game.moves[n + 1])
<1> DEFINE g == Rebuilt(game, n)
           ps == SubSeq(game.positions, 1, n + 1)
           ms == SubSeq(game.moves, 1, n)
           mv == game.moves[n + 1]
<1>1. /\ game.positions \in Seq(Position) /\ game.moves \in Seq(Move)
      /\ Len(game.moves) \in Nat /\ Len(game.positions) = Len(game.moves) + 1
      /\ n + 1 \in 1 .. Len(game.moves) /\ n + 1 \in Nat
      /\ n + 1 \in 0 .. Len(game.positions) /\ n \in 0 .. Len(game.moves)
      /\ n + 1 + 1 <= Len(game.positions)
  BY DEF TypeOK, GameRecord
<1>2. /\ ps \in Seq(Position) /\ Len(ps) = n + 1
      /\ \A i \in 1 .. n + 1 : ps[i] = game.positions[i]
  BY <1>1, PrefixType
<1>3. ms \in Seq(Move) /\ Len(ms) = n
  BY <1>1, PrefixType
<1>4. g.positions = ps /\ g.moves = ms /\ g.cursor = n /\ g.result = Undeclared
  BY DEF Rebuilt
<1> HIDE DEF g, ps, ms
<1>5. Current(g) = game.positions[n + 1]
  BY <1>1, <1>2, <1>4 DEF Current
<1>6. Successor(Current(g), mv) = game.positions[n + 1 + 1]
  BY <1>1, <1>5 DEF HistoryIsOneLine
<1>7. SubSeq(ps, 1, n + 1) = ps /\ SubSeq(ms, 1, n) = ms
  BY <1>2, <1>3, SubSeqFull
<1>8. /\ Append(ps, game.positions[n + 1 + 1]) = SubSeq(game.positions, 1, n + 1 + 1)
      /\ Append(ms, mv) = SubSeq(game.moves, 1, n + 1)
  BY <1>1, BeginningGrows DEF ps, ms
<1>9. Played(g, mv) = [positions |-> SubSeq(game.positions, 1, n + 1 + 1),
                       moves |-> SubSeq(game.moves, 1, n + 1),
                       cursor |-> n + 1, result |-> Undeclared]
  BY <1>4, <1>6, <1>7, <1>8 DEF Played
<1>10. QED BY <1>9 DEF Rebuilt, g

\* Before its first move.
LEMMA RebuiltFirst ==
    ASSUME TypeOK PROVE Rebuilt(game, 0) = NewGame(game.positions[1])
<1>1. /\ game.positions \in Seq(Position) /\ 1 \in 1 .. Len(game.positions)
      /\ 0 \in Nat /\ 0 + 1 <= Len(game.positions) /\ game.moves \in Seq(Move)
  BY DEF TypeOK, GameRecord
<1>2. SubSeq(game.moves, 1, 0) = << >> /\ SubSeq(game.positions, 1, 0) = << >>
  BY <1>1, SubSeqEmpty
<1>3. Append(SubSeq(game.positions, 1, 0), game.positions[0 + 1])
        = SubSeq(game.positions, 1, 0 + 1)
  BY <1>1, BeginningGrows
<1>4. SubSeq(game.positions, 1, 1) = <<game.positions[1]>>
  <2>1. 0 + 1 = 1
    OBVIOUS
  <2>2. Append(<< >>, game.positions[1]) = SubSeq(game.positions, 1, 1)
    <3> HIDE DEF SubSeq
    <3> QED BY <1>2, <1>3, <2>1
  <2>3. Append(<< >>, game.positions[1]) = <<game.positions[1]>>
    OBVIOUS
  <2>4. QED BY <2>2, <2>3
<1>5. QED BY <1>2, <1>4 DEF Rebuilt, NewGame

\* Playing the first n moves of the history again makes what the game was then.
LEMMA ReplaysHistory ==
    ASSUME TypeOK, HistoryIsOneLine, NEW n \in 0 .. Len(game.moves)
    PROVE  FoldLeft(Played, NewGame(game.positions[1]), SubSeq(game.moves, 1, n))
             = Rebuilt(game, n)
<1> DEFINE line == SubSeq(game.moves, 1, n)
           f == [k \in Nat |-> Rebuilt(game, k)]
<1>1. game.moves \in Seq(Move) /\ Len(game.moves) \in Nat /\ n \in Nat
  BY DEF TypeOK, GameRecord
<1>2. line \in Seq(Move) /\ Len(line) = n /\ \A i \in 1 .. n : line[i] = game.moves[i]
  BY <1>1, PrefixType
<1> HIDE DEF line
<1>3. f[0] = NewGame(game.positions[1])
  BY RebuiltFirst
<1>4. ASSUME NEW k \in 0 .. Len(line) - 1 PROVE f[k + 1] = Played(f[k], line[k + 1])
  <2>1. k \in Nat /\ k + 1 \in Nat /\ k + 1 \in 1 .. n /\ k + 1 <= Len(game.moves)
    BY <1>1, <1>2
  <2>2. Rebuilt(game, k + 1) = Played(Rebuilt(game, k), game.moves[k + 1])
    BY <2>1, RebuiltGrows
  <2>3. f[k + 1] = Rebuilt(game, k + 1) /\ f[k] = Rebuilt(game, k)
    BY <2>1
  <2>4. QED BY <1>2, <2>1, <2>2, <2>3
<1>5. FoldLeft(Played, NewGame(game.positions[1]), line) = f[Len(line)]
  <2> HIDE DEF f
  <2> QED BY <1>2, <1>3, <1>4, PlayedAlong
<1>6. f[n] = Rebuilt(game, n)
  BY <1>1
<1>7. QED BY <1>2, <1>5, <1>6 DEF line

\* What the board and the history say of a rebuilt game is what they said then.
LEMMA RebuiltSays ==
    ASSUME TypeOK, NEW n \in 0 .. Len(game.moves), NEW rules
    PROVE  /\ Automatic(Rebuilt(game, n), n, rules) = Automatic(game, n, rules)
           /\ Current(Rebuilt(game, n)) = game.positions[n + 1]
           /\ Rebuilt(game, n).cursor = n /\ Rebuilt(game, n).result = Undeclared
           /\ Rebuilt(game, n).moves = SubSeq(game.moves, 1, n)
<1> DEFINE g == Rebuilt(game, n)
<1>1. /\ game.positions \in Seq(Position) /\ n + 1 \in 0 .. Len(game.positions)
      /\ n \in Nat /\ n + 1 \in 1 .. n + 1
  BY DEF TypeOK, GameRecord
<1>2. /\ g.positions = SubSeq(game.positions, 1, n + 1) /\ g.cursor = n
      /\ g.result = Undeclared /\ g.moves = SubSeq(game.moves, 1, n)
  BY DEF Rebuilt
<1> HIDE DEF g
<1>3. \A i \in 1 .. n + 1 : g.positions[i] = game.positions[i]
  BY <1>1, <1>2, PrefixType
<1>4. Automatic(g, n, rules) = Automatic(game, n, rules)
  BY <1>1, <1>3, AutomaticOfPrefix, ZenonT(30)
<1>5. Current(g) = game.positions[n + 1]
  BY <1>1, <1>2, <1>3 DEF Current
<1>6. QED BY <1>2, <1>4, <1>5 DEF g

\* A casual game reads back from its PGN as it was (PGN and ParsePGN): the line
\* up to the cursor, the position and the result, whatever was undone before.
THEOREM GamesReadBack == Spec => []PGNReadsBack
<1>1. TypeOK /\ HistoryIsOneLine => PGNReadsBack
  <2> SUFFICES ASSUME TypeOK, HistoryIsOneLine, CasualLine, Consistent
               PROVE  /\ Readable(PGN(game))
                      /\ LET back == ParsePGN(PGN(game))
                         IN  /\ back.moves = SubSeq(game.moves, 1, game.cursor)
                             /\ Current(back) = Current(game)
                             /\ ResultOf(back, "casual") = ResultOf(game, "casual")
    BY DEF PGNReadsBack
  <2> DEFINE c == game.cursor
             pgn == PGN(game)
             was == Rebuilt(game, c)
             shown == ResultOf(game, "casual")
             back == ParsePGN(pgn)
  <2>1. /\ c \in Nat /\ c \in 0 .. Len(game.moves) /\ game.moves \in Seq(Move)
        /\ Len(game.moves) \in Nat /\ game.result \in Outcome \cup {Undeclared}
    BY DEF TypeOK, GameRecord
  <2>2. /\ pgn.start = game.positions[1] /\ pgn.line = SubSeq(game.moves, 1, c)
        /\ pgn.result = shown
    BY DEF PGN
  <2>3. Len(pgn.line) = c /\ \A n \in 1 .. c : pgn.line[n] = game.moves[n]
    BY <2>1, <2>2, PrefixType
  <2>4. Replayed(pgn) = was
    BY <2>1, <2>2, ReplaysHistory DEF Replayed
  <2>5. /\ Automatic(was, c, "casual") = Automatic(game, c, "casual")
        /\ Current(was) = Current(game) /\ was.cursor = c /\ was.result = Undeclared
        /\ was.moves = SubSeq(game.moves, 1, c)
    BY <2>1, RebuiltSays DEF Current
  <2>6. shown # Undeclared
        /\ (shown = "*" => Automatic(game, c, "casual") = "*")
    <3>1. Automatic(game, c, "casual") # Undeclared
      BY DEF Automatic, Undeclared, WinFor
    <3>2. QED BY <2>1, <3>1 DEF ResultOf, Consistent, Outcome, Undeclared
  <2> HIDE DEF c, pgn, was, shown
  <2>7. Readable(pgn)
    <3>1. ASSUME NEW n \in 1 .. c
          PROVE  CanPlay(FoldLeft(Played, NewGame(pgn.start), SubSeq(pgn.line, 1, n - 1)),
                         pgn.line[n], "casual")
      <4> DEFINE g == Rebuilt(game, n - 1)
      <4>1. /\ n - 1 \in 0 .. c /\ n - 1 \in 0 .. Len(game.moves) /\ n - 1 + 1 = n
            /\ n \in 1 .. Len(game.moves)
        BY <2>1
      <4>2. SubSeq(pgn.line, 1, n - 1) = SubSeq(game.moves, 1, n - 1)
        BY <2>1, <2>2, <4>1, BeginningOfBeginning
      <4>3. FoldLeft(Played, NewGame(pgn.start), SubSeq(pgn.line, 1, n - 1)) = g
        BY <2>2, <4>1, <4>2, ReplaysHistory
      <4>4. /\ Automatic(g, n - 1, "casual") = Automatic(game, n - 1, "casual")
            /\ Current(g) = game.positions[n] /\ g.cursor = n - 1
            /\ g.result = Undeclared
        BY <4>1, RebuiltSays
      <4>5. Automatic(game, n - 1, "casual") = "*"
        BY DEF CasualLine, c
      <4>6. pgn.line[n] \in Legal[game.positions[n].board]
        BY <2>3, <4>1 DEF HistoryIsOneLine
      <4> HIDE DEF g
      <4>7. CanPlay(g, pgn.line[n], "casual")
        BY <4>4, <4>5, <4>6 DEF CanPlay
      <4>8. QED BY <4>3, <4>7
    <3>2. Automatic(Replayed(pgn), Len(pgn.line), "casual") \in {"*", pgn.result}
      BY <2>2, <2>3, <2>4, <2>5 DEF Consistent, c, shown
    <3>3. QED BY <2>3, <3>1, <3>2 DEF Readable
  <2>8. back = [was EXCEPT !.result = IF shown = "*" THEN Undeclared ELSE shown]
    BY <2>2, <2>4 DEF ParsePGN, Declared
  <2>9. /\ back.moves = was.moves /\ back.positions = was.positions
        /\ back.cursor = was.cursor
        /\ back.result = IF shown = "*" THEN Undeclared ELSE shown
    BY <2>8 DEF was, Rebuilt
  <2> HIDE DEF back
  <2>10. Current(back) = Current(was)
    BY <2>9 DEF Current
  <2>11. Automatic(back, c, "casual") = Automatic(was, c, "casual")
    <3>1. c \in Nat /\ \A i \in 1 .. c + 1 : back.positions[i] = was.positions[i]
      BY <2>1, <2>9
    <3>2. QED BY <3>1, AutomaticOfPrefix, ZenonT(30)
  <2>12. ResultOf(back, "casual") = shown
    BY <2>5, <2>6, <2>9, <2>11 DEF ResultOf
  <2>13. QED BY <2>5, <2>7, <2>9, <2>10, <2>12 DEF c, pgn, shown, back
<1>2. QED BY <1>1, TypeCorrect, HistoryStaysOneLine, PTL

-----------------------------------------------------------------------------
(* The local session. PlayOK, the clock beside the game, and LoopOK, what  *)
(* the loop waits for and the choices it offers, are kept by every command *)
(* and key; neither of ClockIsExact and FlagIsEarned is inductive without  *)
(* InStep, nor PromotionIsLegal without WaitingOK and OffersOK.            *)

\* The fields of the program's clock.
Clock == [remaining : [Color -> Nat], active : Color, started : Nat, running : BOOLEAN]

\* What a side has left of its base time and its increments.
Left(c) == IF ran[c] > Allowance(c) THEN 0 ELSE Allowance(c) - ran[c]

PlayTypeOK ==
    /\ setup \in [board : BOOLEAN, bot : Color \cup {"nobody"}, timed : BOOLEAN]
    /\ WellFormed(game)
    /\ clock \in Clock
    /\ timeout \in Color \cup {"none", "resigned", "agreed", "claimed"}
    /\ now \in Nat
    /\ exact \in BOOLEAN /\ thought \in [Color -> Nat]
    /\ ran \in [Color -> Nat] /\ spared \in [Color -> Nat] /\ granted \in [Color -> Nat]

\* The clock started in the past and, while it is exact, runs for the side to
\* move; what is undone against a bot are whole turns.
InStep ==
    /\ clock.running => clock.started <= now
    /\ setup.timed /\ exact /\ clock.running => clock.active = ToMove
    /\ HasBot => (Len(game.moves) - game.cursor) % 2 = 0

\* While the clock is exact it runs for whoever is to move, and for nobody else.
TimeOK == setup.timed /\ exact => \A c \in Color : ran[c] = thought[c] /\ spared[c] = 0

\* What concerns the game and its clock, whatever the program waits for.
PlayOK ==
    /\ PlayTypeOK
    /\ InStep
    /\ TimeOK
    /\ ClockIsExact
    /\ FlagIsEarned

LoopTypeOK ==
    /\ ui \in [promotion : SUBSET Move, confirmNew : BOOLEAN]
    /\ phase \in {"loop", "thinking", "input", "typing", "ended"}
    /\ due \in Nat

\* A decided session goes back to its loop and ends. The bot thinks in its
\* turn, and a person is asked in his. While the program waits in an open game
\* a clock runs, and the timer of a prompt is not due before the side to move
\* has had what it was given, be it on its clock or on the other's.
WaitingOK ==
    /\ timeout # "none" => phase \in {"loop", "ended"}
    /\ phase = "thinking" => HasBot /\ ToMove = setup.bot
    /\ phase = "input" /\ Ongoing => ToMove # setup.bot
    /\ setup.timed /\ phase \in {"thinking", "input", "typing"} /\ Ongoing => clock.running
    /\ setup.timed /\ phase = "input" /\ Ongoing
         => due + ran[ToMove] + spared[ToMove] >= Allowance(ToMove) + now

\* No choice is on offer in the bot's turn, so a bot's move cannot overtake it.
OffersOK ==
    /\ PromotionIsLegal
    /\ ui.promotion # {} => ToMove # setup.bot

LoopOK ==
    /\ LoopTypeOK
    /\ WaitingOK
    /\ OffersOK

SessionInv == PlayOK /\ LoopOK

-----------------------------------------------------------------------------
\* A clock that has started in the past shows times.
LEMMA ValuesType ==
    ASSUME NEW c \in Clock, now \in Nat, c.running => c.started <= now
    PROVE  /\ Values(c) \in [Color -> Nat]
           /\ \A side \in Color : ~(c.running /\ c.active = side)
                                    => Values(c)[side] = c.remaining[side]
           /\ \A side \in Color : c.running /\ c.active = side
                => Values(c)[side] = IF c.remaining[side] - (now - c.started) < 0 THEN 0
                                     ELSE c.remaining[side] - (now - c.started)
<1>1. c.remaining \in [Color -> Nat] /\ c.started \in Nat
  BY DEF Clock
<1>2. ASSUME NEW side \in Color
      PROVE  /\ Values(c)[side] \in Nat
             /\ ~(c.running /\ c.active = side) => Values(c)[side] = c.remaining[side]
             /\ c.running /\ c.active = side
                  => Values(c)[side] = IF c.remaining[side] - (now - c.started) < 0 THEN 0
                                       ELSE c.remaining[side] - (now - c.started)
  BY <1>1 DEF Values
<1>3. QED
  BY <1>2 DEF Values

\* What the operations of the clock return, and that none of them changes what
\* it shows but for the increment of a completed move.
LEMMA StartedClock ==
    ASSUME NEW c \in Clock, NEW side \in Color, now \in Nat, c.running => c.started <= now
    PROVE  /\ Started(c, side) \in Clock
           /\ Started(c, side).running => Started(c, side).started <= now
           /\ setup.timed => Started(c, side).running
           /\ Started(c, side).running /\ ~c.running => Started(c, side).active = side
           /\ c.running => Started(c, side) = c
           /\ Values(Started(c, side)) = Values(c)
<1>1. CASE c.running \/ ~setup.timed
  BY <1>1 DEF Started
<1>2. CASE ~(c.running \/ ~setup.timed)
  <2> DEFINE d == [c EXCEPT !.active = side, !.started = now, !.running = TRUE]
  <2>1. Started(c, side) = d
    BY <1>2 DEF Started
  <2>2. d \in Clock /\ d.running /\ d.started = now /\ d.active = side
        /\ d.remaining = c.remaining
    BY DEF Clock
  <2>3. c.remaining \in [Color -> Nat]
    BY DEF Clock
  <2> HIDE DEF d
  <2>4. \A s \in Color : Values(d)[s] = c.remaining[s]
    BY <2>2, <2>3 DEF Values
  <2>5. \A s \in Color : Values(c)[s] = c.remaining[s]
    BY <1>2 DEF Values
  <2>6. Values(d) = Values(c)
    BY <2>4, <2>5 DEF Values
  <2>7. QED BY <1>2, <2>1, <2>2, <2>6
<1>3. QED BY <1>1, <1>2

LEMMA StandingClock ==
    ASSUME NEW r \in [Color -> Nat]
    PROVE  /\ Standing(r) \in Clock
           /\ ~Standing(r).running
           /\ Values(Standing(r)) = r
<1>1. Standing(r) \in Clock /\ ~Standing(r).running /\ Standing(r).remaining = r
  BY DEF Standing, Clock, Color
<1>2. \A s \in Color : Values(Standing(r))[s] = r[s]
  BY <1>1 DEF Values
<1>3. QED BY <1>1, <1>2 DEF Values

LEMMA StoppedClock ==
    ASSUME NEW c \in Clock, now \in Nat, c.running => c.started <= now
    PROVE  /\ Stopped(c) \in Clock
           /\ Stopped(c).running => Stopped(c).started <= now
           /\ setup.timed => ~Stopped(c).running
           /\ Values(Stopped(c)) = Values(c)
<1>1. Values(c) \in [Color -> Nat]
  BY ValuesType
<1>2. QED BY <1>1, StandingClock DEF Stopped

LEMMA SyncClockType ==
    ASSUME NEW c \in Clock, NEW side \in Color, now \in Nat, c.running => c.started <= now
    PROVE  /\ Sync(c, side) \in Clock
           /\ Sync(c, side).running => Sync(c, side).started <= now
           /\ setup.timed => /\ Sync(c, side).running
                             /\ Sync(c, side).active = side
           /\ Values(Sync(c, side)) = Values(c)
<1>1. Values(c) \in [Color -> Nat]
  BY ValuesType
<1>2. CASE ~setup.timed
  BY <1>2 DEF Sync
<1>3. CASE setup.timed
  <2> DEFINE d == [remaining |-> Values(c), active |-> side, started |-> now, running |-> TRUE]
  <2>1. Sync(c, side) = d
    BY <1>3 DEF Sync
  <2>2. d \in Clock /\ d.running /\ d.started = now /\ d.active = side
        /\ d.remaining = Values(c)
    BY <1>1 DEF Clock
  <2> HIDE DEF d
  <2>3. \A s \in Color : Values(d)[s] = Values(c)[s]
    BY <1>1, <2>2, ValuesType
  <2>4. Values(d) \in [Color -> Nat]
    BY <2>2, ValuesType
  <2>5. Values(d) = Values(c)
    BY <1>1, <2>3, <2>4
  <2>6. QED BY <2>1, <2>2, <2>5
<1>4. QED BY <1>2, <1>3

LEMMA CompletedClock ==
    ASSUME NEW c \in Clock, NEW side \in Color, now \in Nat, c.running => c.started <= now
    PROVE  /\ Completed(c, side) \in Clock
           /\ Completed(c, side).running => Completed(c, side).started <= now
           /\ setup.timed =>
                /\ Completed(c, side).running
                /\ Completed(c, side).active = Other(side)
                /\ Values(Completed(c, side)) = [Values(c) EXCEPT ![side] = @ + Increment]
<1>1. Values(c) \in [Color -> Nat] /\ Values(Started(c, side)) = Values(c)
  BY ValuesType, StartedClock
<1>2. CASE ~setup.timed
  BY <1>2 DEF Completed
<1>3. CASE setup.timed
  <2> DEFINE r == [Values(c) EXCEPT ![side] = @ + Increment]
             d == [remaining |-> r, active |-> Other(side), started |-> now, running |-> TRUE]
  <2>1. Completed(c, side) = d
    BY <1>1, <1>3 DEF Completed
  <2>2. r \in [Color -> Nat]
    BY <1>1, LocalAssumption
  <2> HIDE DEF r
  <2>3. d \in Clock /\ d.running /\ d.started = now /\ d.active = Other(side)
        /\ d.remaining = r
    BY <2>2 DEF Clock, Other, Color
  <2> HIDE DEF d
  <2>4. \A s \in Color : Values(d)[s] = r[s]
    BY <2>2, <2>3, ValuesType
  <2>5. Values(d) \in [Color -> Nat]
    BY <2>3, ValuesType
  <2>6. Values(d) = r
    BY <2>2, <2>4, <2>5
  <2>7. QED BY <2>1, <2>3, <2>6 DEF r
<1>4. QED BY <1>2, <1>3

\* Time that does not pass leaves what a clock shows.
LEMMA SameTime ==
    ASSUME now' = now
    PROVE  Values(clock)' = Values(clock')
BY DEF Values

-----------------------------------------------------------------------------
(* What the operations do to the game.                                     *)

\* A move that is played gives the turn to the other side.
LEMMA PlayedTurn ==
    ASSUME NEW g, WellFormed(g), NEW mv, CanPlay(g, mv, "casual")
    PROVE  /\ mv \in Move
           /\ WellFormed(Played(g, mv))
           /\ Len(Played(g, mv).moves) = Played(g, mv).cursor
           /\ Turn[Current(Played(g, mv)).board] = Other(Turn[Current(g).board])
<1>1. mv \in Legal[Current(g).board] /\ Current(g) \in Position
  BY CurrentType DEF CanPlay
<1>2. mv \in Move
  BY <1>1, LegalIsMove
<1>3. /\ WellFormed(Played(g, mv)) /\ Played(g, mv).cursor = g.cursor + 1
      /\ Len(Played(g, mv).moves) = g.cursor + 1
      /\ Played(g, mv).positions[g.cursor + 2] = Successor(Current(g), mv)
  BY <1>2, PlayedFields
<1>4. Current(Played(g, mv)) = Successor(Current(g), mv)
  BY <1>3 DEF Current, WellFormed, GameRecord
<1>5. Successor(Current(g), mv).board = After[Current(g).board][mv]
  BY DEF Successor
<1>6. Current(g).board \in Board
  BY <1>1 DEF Position
<1>7. QED
  BY <1>1, <1>2, <1>3, <1>4, <1>5, <1>6, AlternationAssumption

\* A new game has one position and nothing to undo.
LEMMA NewGameWellFormed ==
    ASSUME NEW p \in Position
    PROVE  /\ WellFormed(NewGame(p))
           /\ Len(NewGame(p).moves) = NewGame(p).cursor
           /\ Len(NewGame(p).moves) = 0
           /\ NewGame(p).result = Undeclared
BY DEF NewGame, WellFormed, GameRecord

\* A game that is loaded is one, with nothing to redo.
LEMMA LoadWellFormed ==
    ASSUME NEW g \in Loads
    PROVE  WellFormed(g) /\ Len(g.moves) = g.cursor
BY LoadAssumption DEF WellFormed, GameRecord

\* Going back and forth moves the cursor by one step, or two against a bot,
\* and nothing but the cursor and the declared result.
LEMMA TravelledGame ==
    ASSUME NEW redo \in BOOLEAN, WellFormed(game), CanTravel(redo)
    PROVE  LET g == Travelled(redo)
           IN  /\ WellFormed(g)
               /\ g.moves = game.moves /\ g.positions = game.positions
               /\ g.cursor \in {game.cursor + Steps, game.cursor - Steps}
<1>1. Steps \in {1, 2} /\ game.cursor \in Nat /\ Len(game.moves) \in Nat
  BY DEF Steps, WellFormed, GameRecord
<1>2. CASE redo
  <2>1. Travelled(redo) = [game EXCEPT !.cursor = game.cursor + Steps]
    BY <1>2 DEF Travelled
  <2>2. game.cursor + Steps \in Nat /\ game.cursor + Steps <= Len(game.moves)
    BY <1>1, <1>2 DEF CanTravel
  <2>3. QED BY <2>1, <2>2 DEF WellFormed, GameRecord
<1>3. CASE ~redo
  <2>1. Travelled(redo) = [game EXCEPT !.cursor = game.cursor - Steps, !.result = Undeclared]
    BY <1>3 DEF Travelled
  <2>2. game.cursor - Steps \in Nat /\ game.cursor - Steps <= Len(game.moves)
    BY <1>1, <1>3 DEF CanTravel, WellFormed
  <2>3. QED BY <2>1, <2>2 DEF WellFormed, GameRecord
<1>4. QED BY <1>2, <1>3

\* What cannot be completed is taken back, but for a declared result.
LEMMA RolledBackGame ==
    ASSUME NEW redo \in BOOLEAN, WellFormed(game)
    PROVE  LET g == RolledBack(redo)
           IN  /\ WellFormed(g)
               /\ g.moves = game.moves /\ g.positions = game.positions
               /\ g.cursor = game.cursor
               /\ g.result \in {game.result, Undeclared}
               /\ ~redo => g = game
<1>1. CASE redo /\ CanRedo(game)
  <2> DEFINE h == Redone(game)
  <2>1. /\ h \in GameRecord /\ h.cursor = game.cursor + 1
        /\ h.moves = game.moves /\ h.positions = game.positions
    BY DEF Redone, WellFormed, GameRecord
  <2>2. RolledBack(redo) = Undone(h)
    BY <1>1 DEF RolledBack
  <2>3. game.cursor \in Nat /\ h.cursor - 1 = game.cursor
    BY <2>1 DEF WellFormed, GameRecord
  <2> HIDE DEF h
  <2> DEFINE g == Undone(h)
  <2>4. /\ g.cursor = game.cursor /\ g.result = Undeclared
        /\ g.moves = h.moves /\ g.positions = h.positions
    BY <2>1, <2>3 DEF Undone, GameRecord
  <2>5. g \in GameRecord
    BY <2>1, <2>3 DEF Undone, GameRecord
  <2> HIDE DEF g
  <2>6. WellFormed(g)
    BY <2>1, <2>4, <2>5 DEF WellFormed
  <2>7. QED BY <1>1, <2>1, <2>2, <2>4, <2>6 DEF g
<1>2. CASE ~(redo /\ CanRedo(game))
  BY <1>2 DEF RolledBack
<1>3. QED BY <1>1, <1>2

\* The turn and the board's result depend on the position under the cursor.
LEMMA SamePlace ==
    ASSUME NEW g, NEW h, g.positions = h.positions, g.cursor = h.cursor
    PROVE  /\ Current(g) = Current(h)
           /\ \A rules : Automatic(g, g.cursor, rules) = Automatic(h, h.cursor, rules)
BY DEF Current, Automatic, DrawThreshold, Repetitions

\* The allowance of a side, with an increment more.
LEMMA AllowanceType ==
    ASSUME NEW side \in Color, granted \in [Color -> Nat], ran \in [Color -> Nat]
    PROVE  /\ Allowance(side) \in Nat
           /\ Left(side) \in Nat
           /\ Initial + Increment * (granted[side] + 1) = Allowance(side) + Increment
<1>1. Initial \in Nat /\ Increment \in Nat /\ granted[side] \in Nat
  BY LocalAssumption
<1>2. Increment * granted[side] \in Nat
        /\ Increment * (granted[side] + 1) = Increment * granted[side] + Increment
  BY <1>1
<1>3. Allowance(side) \in Nat
  BY <1>1, <1>2 DEF Allowance
<1>4. Initial + Increment * (granted[side] + 1) = Allowance(side) + Increment
  BY <1>1, <1>2 DEF Allowance
<1>5. ran[side] \in Nat
  OBVIOUS
<1>6. QED BY <1>3, <1>4, <1>5 DEF Left

-----------------------------------------------------------------------------
(* Exact clocks, kind of step by kind of step.                             *)

\* What the clock shows, in the terms of Left.
LEMMA ShowsLeft ==
    ASSUME PlayTypeOK, setup.timed, timeout = "none", ClockIsExact
    PROVE  \A side \in Color : Values(clock)[side] = Left(side)
BY DEF ClockIsExact, Left

\* And the other way round.
LEMMA ExactWhenLeft ==
    ASSUME TimeOK', setup'.timed => \A side \in Color : Values(clock)'[side] = Left(side)'
    PROVE  ClockIsExact'
BY DEF ClockIsExact, Left, TimeOK

\* A side whose clock shows nothing has had all it was given.
LEMMA NothingLeft ==
    ASSUME PlayOK, setup.timed, timeout = "none",
           NEW side \in Color, Values(clock)[side] <= 0
    PROVE  ran[side] + spared[side] >= Allowance(side)
<1>1. Values(clock)[side] = Left(side) /\ Left(side) \in Nat /\ Allowance(side) \in Nat
  BY ShowsLeft, AllowanceType DEF PlayOK, PlayTypeOK
<1>2. ran[side] \in Nat /\ spared[side] \in Nat
  BY DEF PlayOK, PlayTypeOK
<1>3. QED BY <1>1, <1>2 DEF Left

\* While neither what a clock shows nor what a side was given changes, there is
\* nothing to say.
LEMMA ShowsTheSame ==
    ASSUME PlayOK, setup' = setup, now' = now, clock' \in Clock,
           setup.timed => Values(clock') = Values(clock),
           timeout' = "none" => timeout = "none",
           UNCHANGED observers
    PROVE  ClockIsExact' /\ TimeOK'
<1>1. Values(clock)' = Values(clock')
  BY SameTime
<1>2. \A side \in Color : Allowance(side)' = Allowance(side)
  BY DEF Allowance, observers
<1>3. ClockIsExact'
  BY <1>1, <1>2 DEF PlayOK, ClockIsExact, observers
<1>4. TimeOK'
  BY DEF PlayOK, TimeOK, observers
<1>5. QED BY <1>3, <1>4

LEMMA SameFlag ==
    ASSUME PlayOK, UNCHANGED observers,
           timeout' \in Color => timeout' = timeout
    PROVE  FlagIsEarned'
BY DEF PlayOK, FlagIsEarned, Allowance, observers

\* A loss on time of a side that has had all it was given.
LEMMA FlagKeeps ==
    ASSUME PlayOK, NEW side \in Color, timeout' = side, setup.timed,
           ran[side] + spared[side] >= Allowance(side),
           exact' => exact /\ thought' = thought,
           UNCHANGED <<setup, ran, spared, granted>>
    PROVE  ClockIsExact' /\ TimeOK' /\ FlagIsEarned'
<1>1. ClockIsExact'
  BY DEF ClockIsExact, Color
<1>2. TimeOK'
  BY DEF PlayOK, TimeOK
<1>3. Allowance(side)' = Allowance(side)
  BY DEF Allowance
<1>4. ASSUME exact'
      PROVE  thought'[side] >= Allowance(side)
  <2>1. thought[side] = ran[side] /\ spared[side] = 0 /\ ran[side] \in Nat
    BY <1>4 DEF PlayOK, PlayTypeOK, TimeOK
  <2>2. QED BY <1>4, <2>1
<1>5. FlagIsEarned'
  BY <1>3, <1>4 DEF FlagIsEarned
<1>6. QED BY <1>1, <1>2, <1>5

\* The clock that is stopped by it.
LEMMA FlaggedClock ==
    ASSUME PlayOK, NEW side \in Color, Flag(side), setup.timed
    PROVE  clock' \in Clock /\ ~clock'.running /\ timeout' = side
<1>1. now \in Nat /\ clock \in Clock /\ (clock.running => clock.started <= now)
  BY DEF PlayOK, PlayTypeOK, InStep
<1>2. clock' = Stopped(Started(clock, side)) /\ timeout' = side
  BY DEF Flag
<1>3. QED BY <1>1, <1>2, StartedClock, StoppedClock

\* A move is completed in time: its side is given an increment.
LEMMA GrantKeeps ==
    ASSUME PlayOK, timeout = "none", NEW side \in Color, NEW c \in Clock,
           c.running => c.started <= now, Values(c) = Values(clock),
           ~Late(c, side), clock' = Completed(c, side), granted' = Grant(granted, side),
           UNCHANGED <<setup, timeout, now, ran, spared>>
    PROVE  /\ clock' \in Clock /\ (clock'.running => clock'.started <= now)
           /\ setup.timed /\ clock'.running => clock'.active = Other(side)
           /\ granted' \in [Color -> Nat]
           /\ setup.timed => \A s \in Color : Values(clock)'[s] = Left(s)'
           /\ FlagIsEarned'
<1>1. /\ now \in Nat /\ granted \in [Color -> Nat] /\ ran \in [Color -> Nat]
      /\ clock \in Clock /\ (clock.running => clock.started <= now)
  BY DEF PlayOK, PlayTypeOK, InStep
<1>2. clock' \in Clock /\ (clock'.running => clock'.started <= now)
  BY <1>1, CompletedClock
<1>3. setup.timed /\ clock'.running => clock'.active = Other(side)
  BY <1>1, CompletedClock
<1>4. granted' \in [Color -> Nat]
  BY <1>1 DEF Grant
<1>5. FlagIsEarned'
  BY DEF FlagIsEarned, Color
<1>6. ASSUME setup.timed, NEW s \in Color
      PROVE  Values(clock)'[s] = Left(s)'
  <2>1. Values(clock)' = [Values(clock) EXCEPT ![side] = @ + Increment]
    BY <1>1, <1>6, CompletedClock, SameTime
  <2>2. Values(clock) \in [Color -> Nat] /\ Values(clock)[s] = Left(s)
    BY <1>1, <1>6, ValuesType, ShowsLeft DEF PlayOK
  <2>3. /\ Allowance(s) \in Nat /\ Allowance(side) \in Nat /\ Increment \in Nat
        /\ Initial + Increment * (granted[side] + 1) = Allowance(side) + Increment
    BY <1>1, AllowanceType, LocalAssumption
  <2>4. granted' = [granted EXCEPT ![side] = @ + 1]
    BY <1>6 DEF Grant
  <2>5. CASE s = side
    <3>1. Values(clock)'[s] = Values(clock)[side] + Increment
      BY <2>1, <2>2, <2>5
    <3>2. Values(clock)[side] > 0
      <4>1. Values(Started(c, side)) = Values(clock)
        BY <1>1, StartedClock
      <4>2. QED BY <1>6, <2>2, <4>1 DEF Late
    <3>3. Allowance(s)' = Allowance(side) + Increment
      BY <1>1, <2>3, <2>4, <2>5 DEF Allowance
    <3>4. ran'[s] = ran[side] /\ ran[side] \in Nat
      BY <1>1, <2>5
    <3>5. Left(side) = Allowance(side) - ran[side] /\ Left(side) > 0
      BY <2>2, <2>3, <2>5, <3>2, <3>4 DEF Left
    <3>6. Left(s)' = Allowance(side) + Increment - ran[side]
      BY <2>3, <3>3, <3>4, <3>5 DEF Left
    <3>7. QED BY <2>2, <2>3, <2>5, <3>1, <3>4, <3>5, <3>6
  <2>6. CASE s # side
    <3>1. Values(clock)'[s] = Values(clock)[s]
      BY <2>1, <2>2, <2>6
    <3>2. granted'[s] = granted[s] /\ ran'[s] = ran[s]
      BY <1>1, <2>4, <2>6
    <3>3. Left(s)' = Left(s)
      BY <3>2 DEF Left, Allowance
    <3>4. QED BY <2>2, <3>1, <3>3
  <2>7. QED BY <2>5, <2>6
<1>7. QED BY <1>2, <1>3, <1>4, <1>5, <1>6

\* A move is completed on the clock of the side that made it, or late.
LEMMA MoveKeeps ==
    ASSUME PlayOK, MoveDone(ToMove), timeout = "none", UNCHANGED <<setup, now>>
    PROVE  /\ clock' \in Clock /\ (clock'.running => clock'.started <= now)
           /\ setup.timed /\ clock'.running => clock'.active = Other(ToMove)
           /\ timeout' \in Color \cup {"none"}
           /\ granted' \in [Color -> Nat]
           /\ UNCHANGED <<exact, thought, ran, spared>>
           /\ ClockIsExact' /\ TimeOK' /\ FlagIsEarned'
<1>1. /\ now \in Nat /\ clock \in Clock /\ (clock.running => clock.started <= now)
      /\ granted \in [Color -> Nat]
  BY DEF PlayOK, PlayTypeOK, InStep
<1>2. ToMove \in Color
  BY CurrentType, ChessAssumption DEF PlayOK, PlayTypeOK, ToMove, Position
<1> DEFINE side == ToMove
<1> HIDE DEF side
<1>3. side \in Color /\ MoveDone(side)
  BY <1>2 DEF side
<1>4. CASE Late(clock, side)
  <2>1. Flag(side) /\ UNCHANGED <<exact, thought, ran, spared, granted>>
    BY <1>3, <1>4 DEF MoveDone, observers
  <2>2. setup.timed /\ Values(clock)[side] <= 0
    BY <1>1, <1>3, <1>4, StartedClock DEF Late
  <2>3. clock' \in Clock /\ ~clock'.running /\ timeout' = side
    BY <1>3, <2>1, <2>2, FlaggedClock
  <2>4. ran[side] + spared[side] >= Allowance(side)
    BY <1>3, <2>2, NothingLeft
  <2>5. ClockIsExact' /\ TimeOK' /\ FlagIsEarned'
    BY <1>3, <2>1, <2>2, <2>3, <2>4, FlagKeeps
  <2>6. QED BY <1>1, <1>3, <2>1, <2>3, <2>5
<1>5. CASE ~Late(clock, side)
  <2>1. /\ clock' = Completed(clock, side) /\ granted' = Grant(granted, side)
        /\ UNCHANGED <<timeout, exact, thought, ran, spared>>
    BY <1>3, <1>5 DEF MoveDone
  <2>2. /\ clock' \in Clock /\ (clock'.running => clock'.started <= now)
        /\ setup.timed /\ clock'.running => clock'.active = Other(side)
        /\ granted' \in [Color -> Nat]
        /\ setup.timed => \A s \in Color : Values(clock)'[s] = Left(s)'
        /\ FlagIsEarned'
    BY <1>1, <1>3, <1>5, <2>1, GrantKeeps
  <2>3. TimeOK'
    BY <2>1 DEF PlayOK, TimeOK
  <2>4. ClockIsExact'
    BY <2>2, <2>3, ExactWhenLeft
  <2>5. QED BY <2>1, <2>2, <2>3, <2>4 DEF PlayOK, PlayTypeOK, side
<1>6. QED BY <1>4, <1>5 DEF side

-----------------------------------------------------------------------------
(* The game and its clock, kind of step by kind of step.                   *)

\* A side is to move, and the game is over or not.
LEMMA ToMoveType ==
    ASSUME PlayOK
    PROVE  ToMove \in Color /\ Current(game) \in Position
BY CurrentType, ChessAssumption DEF PlayOK, PlayTypeOK, ToMove, Position

\* Nothing happens.
LEMMA IdleKeeps ==
    ASSUME PlayOK, UNCHANGED <<setup, game, clock, timeout, now, observers>>
    PROVE  PlayOK'
<1>1. ClockIsExact' /\ TimeOK'
  BY ShowsTheSame DEF PlayOK, PlayTypeOK
<1>2. FlagIsEarned'
  BY SameFlag
<1>3. PlayTypeOK' /\ InStep'
  BY DEF PlayOK, PlayTypeOK, InStep, observers, ToMove, HasBot
<1>4. QED BY <1>1, <1>2, <1>3 DEF PlayOK

\* A clock starts, and the timer is set by it.
LEMMA BeginKeeps ==
    ASSUME PlayOK, Begin, UNCHANGED <<setup, game, timeout, now, observers>>
    PROVE  /\ PlayOK' /\ due' \in Nat
           /\ setup.timed /\ Ongoing => clock'.running
           /\ setup.timed /\ Ongoing /\ timeout = "none"
                => due' + ran[ToMove] + spared[ToMove] >= Allowance(ToMove) + now
<1>1. /\ now \in Nat /\ clock \in Clock /\ (clock.running => clock.started <= now)
      /\ ToMove \in Color
  BY ToMoveType DEF PlayOK, PlayTypeOK, InStep
<1>2. CASE ~Ongoing
  <2>1. clock' = clock /\ due' = 0
    BY <1>2 DEF Begin
  <2>2. QED BY <1>2, <2>1, IdleKeeps
<1>3. CASE Ongoing
  <2>1. /\ clock' = Started(clock, ToMove)
        /\ due' = IF setup.timed THEN now + Values(Started(clock, ToMove))[ToMove] ELSE 0
    BY <1>3 DEF Begin
  <2> DEFINE c == Started(clock, ToMove)
  <2>2. /\ c \in Clock /\ (c.running => c.started <= now) /\ Values(c) = Values(clock)
        /\ setup.timed => c.running
        /\ c.running /\ ~clock.running => c.active = ToMove
        /\ clock.running => c = clock
    BY <1>1, StartedClock
  <2> HIDE DEF c
  <2>3. c.running /\ setup.timed /\ exact => c.active = ToMove
    BY <2>2 DEF PlayOK, InStep
  <2>4. ClockIsExact' /\ TimeOK' /\ FlagIsEarned'
    BY <2>1, <2>2, ShowsTheSame, SameFlag DEF c
  <2>5. PlayTypeOK' /\ InStep'
    BY <2>1, <2>2, <2>3 DEF PlayOK, PlayTypeOK, InStep, observers, ToMove, HasBot, c
  <2>6. Values(c) \in [Color -> Nat]
    BY <1>1, <2>2, ValuesType
  <2>7. due' \in Nat
    BY <1>1, <2>1, <2>6 DEF c
  <2>8. ASSUME setup.timed, timeout = "none"
        PROVE  due' + ran[ToMove] + spared[ToMove] >= Allowance(ToMove) + now
    <3>1. due' = now + Values(c)[ToMove]
      BY <2>1, <2>8 DEF c
    <3>2. Values(c)[ToMove] = Left(ToMove) /\ Left(ToMove) \in Nat /\ Allowance(ToMove) \in Nat
      BY <1>1, <2>2, <2>8, ShowsLeft, AllowanceType DEF PlayOK, PlayTypeOK
    <3>3. ran[ToMove] \in Nat /\ spared[ToMove] \in Nat
      BY <1>1 DEF PlayOK, PlayTypeOK
    <3>4. Left(ToMove) >= Allowance(ToMove) - ran[ToMove]
      BY <3>2, <3>3 DEF Left
    <3>5. QED BY <1>1, <3>1, <3>2, <3>3, <3>4
  <2>9. QED BY <2>1, <2>2, <2>4, <2>5, <2>7, <2>8 DEF PlayOK, c
<1>4. QED BY <1>2, <1>3

\* A move is played.
LEMMA PlayKeeps ==
    ASSUME PlayOK, NEW mv, CanPlay(game, mv, "casual"), game' = Played(game, mv),
           MoveDone(ToMove), timeout = "none", UNCHANGED <<setup, now>>
    PROVE  PlayOK'
<1>1. /\ WellFormed(game') /\ Len(game'.moves) = game'.cursor
      /\ Turn[Current(game').board] = Other(ToMove)
  BY PlayedTurn DEF PlayOK, PlayTypeOK, ToMove
<1>2. game'.cursor \in Nat /\ Len(game'.moves) - game'.cursor = 0
  BY <1>1 DEF WellFormed, GameRecord
<1>3. /\ clock' \in Clock /\ (clock'.running => clock'.started <= now)
      /\ setup.timed /\ clock'.running => clock'.active = Other(ToMove)
      /\ timeout' \in Color \cup {"none"}
      /\ granted' \in [Color -> Nat] /\ UNCHANGED <<exact, thought, ran, spared>>
      /\ ClockIsExact' /\ TimeOK' /\ FlagIsEarned'
  BY MoveKeeps
<1>4. PlayTypeOK'
  BY <1>1, <1>3 DEF PlayOK, PlayTypeOK
<1>5. InStep'
  BY <1>1, <1>2, <1>3 DEF InStep, ToMove
<1>6. QED BY <1>3, <1>4, <1>5 DEF PlayOK

\* The clock of the side to move falls.
LEMMA FallKeeps ==
    ASSUME PlayOK, Flag(ToMove), timeout = "none", setup.timed,
           ran[ToMove] + spared[ToMove] >= Allowance(ToMove),
           UNCHANGED <<setup, game, now, observers>>
    PROVE  PlayOK'
<1> DEFINE side == ToMove
<1>1. /\ side \in Color /\ Flag(side) /\ ran[side] + spared[side] >= Allowance(side)
      /\ UNCHANGED <<exact, thought, ran, spared, granted>>
  BY ToMoveType DEF observers
<1> HIDE DEF side
<1>2. clock' \in Clock /\ ~clock'.running /\ timeout' = side
  BY <1>1, FlaggedClock
<1>3. ClockIsExact' /\ TimeOK' /\ FlagIsEarned'
  BY <1>1, <1>2, FlagKeeps
<1>4. PlayTypeOK' /\ InStep'
  BY <1>1, <1>2 DEF PlayOK, PlayTypeOK, InStep, HasBot
<1>5. QED BY <1>3, <1>4 DEF PlayOK

\* Moves are taken back or restored.
LEMMA TravelKeeps ==
    ASSUME PlayOK, NEW redo \in BOOLEAN, Travel(redo),
           UNCHANGED <<setup, timeout, now, observers>>
    PROVE  PlayOK'
<1>1. /\ now \in Nat /\ clock \in Clock /\ (clock.running => clock.started <= now)
      /\ WellFormed(game) /\ game.cursor \in Nat /\ Len(game.moves) \in Nat
  BY DEF PlayOK, PlayTypeOK, InStep, WellFormed, GameRecord
<1>2. CASE CanTravel(redo)
  <2> DEFINE g == Travelled(redo)
  <2>1. /\ game' = g
        /\ clock' = Sync(clock, Turn[g.positions[g.cursor + 1].board])
    BY <1>2 DEF Travel
  <2>2. /\ WellFormed(g) /\ g.moves = game.moves
        /\ g.cursor \in {game.cursor + Steps, game.cursor - Steps}
    BY <1>1, <1>2, TravelledGame
  <2> HIDE DEF g
  <2> DEFINE side == Turn[g.positions[g.cursor + 1].board]
  <2>3. side \in Color
    BY <2>2, CurrentType, ChessAssumption DEF Current, Position
  <2>4. side = ToMove'
    BY <2>1 DEF ToMove, Current
  <2> HIDE DEF side
  <2>5. clock' = Sync(clock, side)
    BY <2>1 DEF side
  <2>6. /\ clock' \in Clock /\ (clock'.running => clock'.started <= now)
        /\ setup.timed => clock'.running /\ clock'.active = side
        /\ Values(clock') = Values(clock)
    BY <1>1, <2>3, <2>5, SyncClockType
  <2>7. ClockIsExact' /\ TimeOK' /\ FlagIsEarned'
    BY <2>6, ShowsTheSame, SameFlag
  <2>8. HasBot => (Len(g.moves) - g.cursor) % 2 = 0
    BY <1>1, <2>2 DEF PlayOK, InStep, Steps
  <2>9. PlayTypeOK'
    BY <2>1, <2>2, <2>6 DEF PlayOK, PlayTypeOK, observers
  <2>10. InStep'
    BY <2>1, <2>2, <2>4, <2>6, <2>8 DEF PlayOK, InStep, observers, HasBot
  <2>11. QED BY <2>7, <2>9, <2>10 DEF PlayOK
<1>3. CASE ~CanTravel(redo)
  <2>1. game' = RolledBack(redo) /\ clock' = clock
    BY <1>3 DEF Travel
  <2>2. /\ WellFormed(game') /\ game'.moves = game.moves
        /\ game'.positions = game.positions /\ game'.cursor = game.cursor
    BY <1>1, <2>1, RolledBackGame
  <2>3. ToMove' = ToMove
    BY <2>2 DEF ToMove, Current
  <2>4. ClockIsExact' /\ TimeOK' /\ FlagIsEarned'
    BY <1>1, <2>1, ShowsTheSame, SameFlag
  <2>5. PlayTypeOK' /\ InStep'
    BY <2>1, <2>2, <2>3 DEF PlayOK, PlayTypeOK, InStep, observers, HasBot
  <2>6. QED BY <2>4, <2>5 DEF PlayOK
<1>4. QED BY <1>2, <1>3

\* Another game is set up.
LEMMA FreshKeeps ==
    ASSUME PlayOK, NEW g, WellFormed(g), Len(g.moves) = g.cursor, Fresh(g),
           UNCHANGED <<setup, now>>
    PROVE  PlayOK'
<1>1. /\ game' = g /\ timeout' = "none" /\ exact' = TRUE
      /\ clock' = Standing(Both(Initial)) /\ thought' = Both(0)
      /\ ran' = Both(0) /\ spared' = Both(0) /\ granted' = Both(0)
  BY DEF Fresh, Reset
<1>2. Both(Initial) \in [Color -> Nat] /\ Both(0) \in [Color -> Nat]
      /\ Initial \in Nat /\ Increment \in Nat
  BY LocalAssumption DEF Both
<1>3. clock' \in Clock /\ ~clock'.running /\ Values(clock') = Both(Initial)
  BY <1>1, <1>2, StandingClock
<1>4. g.cursor \in Nat /\ Len(g.moves) - g.cursor = 0
  BY DEF WellFormed, GameRecord
<1>5. TimeOK'
  BY <1>1 DEF TimeOK, Both
<1>6. ClockIsExact'
  <2>1. ASSUME NEW side \in Color PROVE Values(clock)'[side] = Left(side)'
    <3>1. Values(clock)'[side] = Initial
      BY <1>3, SameTime DEF Both
    <3>2. ran'[side] = 0 /\ granted'[side] = 0
      BY <1>1 DEF Both
    <3>3. QED BY <1>2, <3>1, <3>2 DEF Left, Allowance
  <2>2. QED BY <1>5, <2>1, ExactWhenLeft
<1>7. FlagIsEarned'
  BY <1>1 DEF FlagIsEarned, Color
<1>8. PlayTypeOK' /\ InStep'
  BY <1>1, <1>2, <1>3, <1>4 DEF PlayOK, PlayTypeOK, InStep
<1>9. QED BY <1>5, <1>6, <1>7, <1>8 DEF PlayOK

\* Something happens after which a clock may run for the wrong side.
LEMMA InexactKeeps ==
    ASSUME PlayOK, WellFormed(game'), HasBot => (Len(game'.moves) - game'.cursor) % 2 = 0,
           clock' \in Clock, clock'.running => clock'.started <= now',
           timeout' \in Color \cup {"none"}, now' \in Nat, setup' = setup, Inexact,
           ran' \in [Color -> Nat], spared' \in [Color -> Nat], granted' \in [Color -> Nat],
           timeout' = "none" /\ setup.timed
             => \A side \in Color : Values(clock)'[side] = Left(side)',
           FlagIsEarned'
    PROVE  PlayOK'
<1>1. exact' = FALSE /\ thought' = Both(0)
  BY DEF Inexact
<1>2. Both(0) \in [Color -> Nat]
  BY DEF Both
<1>3. ClockIsExact' /\ TimeOK'
  BY <1>1 DEF ClockIsExact, TimeOK, Left
<1>4. PlayTypeOK' /\ InStep'
  BY <1>1, <1>2 DEF PlayOK, PlayTypeOK, InStep, HasBot
<1>5. QED BY <1>3, <1>4 DEF PlayOK

\* The session is decided beside the board, or a draw is claimed on it.
LEMMA DecidedKeeps ==
    ASSUME PlayOK, timeout' \in {"resigned", "agreed", "claimed"},
           WellFormed(game'), game'.moves = game.moves, game'.positions = game.positions,
           game'.cursor = game.cursor, UNCHANGED <<setup, clock, now, observers>>
    PROVE  PlayOK'
<1>1. timeout' \notin Color /\ timeout' # "none"
  BY DEF Color
<1>2. ClockIsExact' /\ FlagIsEarned' /\ TimeOK'
  BY <1>1 DEF ClockIsExact, FlagIsEarned, PlayOK, TimeOK, observers
<1>3. PlayTypeOK'
  BY DEF PlayOK, PlayTypeOK, observers
<1>4. InStep'
  BY DEF PlayOK, InStep, observers, ToMove, HasBot, Current
<1>5. QED BY <1>2, <1>3, <1>4 DEF PlayOK

\* Time passes: what a running clock shows and what its side has left shrink
\* alike. A clock that runs on a game that is over is no longer exact.
LEMMA TickKeeps ==
    ASSUME SessionInv, Tick
    PROVE  PlayOK'
<1>1. /\ now \in Nat /\ clock \in Clock /\ (clock.running => clock.started <= now)
      /\ thought \in [Color -> Nat] /\ ran \in [Color -> Nat]
      /\ spared \in [Color -> Nat] /\ granted \in [Color -> Nat]
      /\ exact \in BOOLEAN /\ WellFormed(game) /\ PlayOK /\ ToMove \in Color
  BY ToMoveType DEF SessionInv, PlayOK, PlayTypeOK, InStep
<1>2. /\ now' = now + 1 /\ UNCHANGED <<setup, game, clock, timeout, granted>>
      /\ phase \in {"thinking", "input", "typing"}
      /\ ran' = IF clock.running THEN [ran EXCEPT ![clock.active] = @ + 1] ELSE ran
  BY DEF Tick, OneMore
<1>3. timeout = "none" /\ timeout' = "none"
  BY <1>2 DEF SessionInv, LoopOK, WaitingOK
<1>4. /\ now' \in Nat /\ (clock'.running => clock'.started <= now')
      /\ clock' \in Clock
  BY <1>1, <1>2 DEF Clock
<1>5. FlagIsEarned'
  BY <1>3 DEF FlagIsEarned, Color
<1>6. clock.active \in Color /\ ran' \in [Color -> Nat]
  BY <1>1, <1>2 DEF Clock
<1>7. ASSUME setup.timed, NEW s \in Color
      PROVE  Values(clock)'[s] = Left(s)'
  <2>1. /\ Values(clock)[s] = Left(s) /\ Left(s) \in Nat /\ Allowance(s) \in Nat
        /\ Allowance(s)' = Allowance(s)
    BY <1>1, <1>2, <1>3, <1>7, ShowsLeft, AllowanceType DEF PlayOK, Allowance
  <2>2. clock.remaining[s] \in Nat /\ clock.started \in Nat /\ ran[s] \in Nat
    BY <1>1 DEF Clock
  <2>3. CASE ~(clock.running /\ clock.active = s)
    <3>1. ran'[s] = ran[s]
      BY <1>1, <1>2, <1>6, <2>3
    <3>2. Values(clock)[s] = clock.remaining[s] /\ Values(clock)'[s] = clock.remaining[s]
      BY <1>2, <2>3 DEF Values
    <3>3. Left(s)' = Left(s)
      BY <2>1, <3>1 DEF Left
    <3>4. QED BY <2>1, <3>2, <3>3
  <2>4. CASE clock.running /\ clock.active = s
    <3>1. ran'[s] = ran[s] + 1
      BY <1>1, <1>2, <2>4
    <3> DEFINE r == clock.remaining[s]
               e == now - clock.started
               a == Allowance(s)
               u == ran[s]
    <3>2. r \in Nat /\ e \in Nat /\ a \in Nat /\ u \in Nat /\ now' - clock.started = e + 1
      BY <1>1, <1>2, <2>1, <2>2, <2>4
    <3>3. Values(clock)[s] = IF r - e < 0 THEN 0 ELSE r - e
      BY <2>4 DEF Values
    <3>4. Values(clock)'[s] = IF r - (now' - clock.started) < 0 THEN 0
                              ELSE r - (now' - clock.started)
      <4>1. clock'.running /\ clock'.active = s /\ clock'.remaining[s] = r
            /\ clock'.started = clock.started
        BY <1>2, <2>4
      <4>2. Values(clock)'[s] = IF clock'.remaining[s] - (now' - clock'.started) < 0 THEN 0
                                ELSE clock'.remaining[s] - (now' - clock'.started)
        BY <4>1 DEF Values
      <4>3. QED BY <4>1, <4>2
    <3>5. Left(s) = IF u > a THEN 0 ELSE a - u
      BY DEF Left
    <3>6. Left(s)' = IF u + 1 > a THEN 0 ELSE a - (u + 1)
      BY <2>1, <3>1 DEF Left
    <3> HIDE DEF r, e, a, u
    <3>7. (IF r - e < 0 THEN 0 ELSE r - e) = (IF u > a THEN 0 ELSE a - u)
      BY <2>1, <3>3, <3>5
    <3>8. (IF r - (e + 1) < 0 THEN 0 ELSE r - (e + 1)) = (IF u + 1 > a THEN 0 ELSE a - (u + 1))
      BY <3>2, <3>7
    <3>9. QED BY <3>2, <3>4, <3>6, <3>8
  <2>5. QED BY <2>3, <2>4
<1>8. CASE ~Ongoing /\ clock.running
  <2>1. Inexact /\ spared' = spared
    BY <1>8 DEF Tick
  <2>2. HasBot => (Len(game'.moves) - game'.cursor) % 2 = 0
    BY <1>1, <1>2 DEF PlayOK, InStep
  <2>3. QED BY <1>1, <1>2, <1>3, <1>4, <1>5, <1>6, <1>7, <2>1, <2>2, InexactKeeps
<1>9. CASE ~Ongoing /\ ~clock.running
  <2>1. UNCHANGED <<exact, thought, ran, spared>>
    BY <1>2, <1>9 DEF Tick
  <2>2. TimeOK'
    BY <1>1, <1>2, <2>1 DEF PlayOK, TimeOK
  <2>3. ClockIsExact'
    BY <1>2, <1>7, <2>2, ExactWhenLeft
  <2>4. PlayTypeOK' /\ InStep'
    BY <1>1, <1>2, <1>4, <2>1 DEF PlayOK, PlayTypeOK, InStep, ToMove, HasBot
  <2>5. QED BY <1>5, <2>2, <2>3, <2>4 DEF PlayOK
<1>10. CASE Ongoing
  <2>1. /\ thought' = IF exact THEN [thought EXCEPT ![ToMove] = @ + 1] ELSE thought
        /\ spared' = IF setup.timed /\ ~Charged THEN [spared EXCEPT ![ToMove] = @ + 1] ELSE spared
        /\ exact' = exact
    BY <1>10 DEF Tick, OneMore
  <2>2. thought' \in [Color -> Nat] /\ spared' \in [Color -> Nat]
    BY <1>1, <2>1
  <2>3. PlayTypeOK'
    BY <1>1, <1>2, <1>4, <1>6, <2>1, <2>2 DEF PlayOK, PlayTypeOK
  <2>4. InStep'
    BY <1>1, <1>2, <1>4, <2>1 DEF PlayOK, InStep, ToMove, HasBot
  <2>5. TimeOK'
    <3>1. SUFFICES ASSUME setup.timed, exact, NEW s \in Color
                   PROVE  ran'[s] = thought'[s] /\ spared'[s] = 0
      BY <1>2, <2>1 DEF TimeOK
    <3>2. clock.running /\ clock.active = ToMove
      BY <1>2, <1>10, <3>1 DEF SessionInv, LoopOK, WaitingOK, PlayOK, InStep
    <3>3. Charged /\ ran[s] = thought[s] /\ spared[s] = 0
      BY <1>1, <3>1, <3>2 DEF Charged, PlayOK, TimeOK
    <3>4. spared' = spared
      BY <2>1, <3>3
    <3> DEFINE t == ToMove
    <3> HIDE DEF t
    <3>5. t \in Color /\ ran' = [ran EXCEPT ![t] = @ + 1] /\ thought' = [thought EXCEPT ![t] = @ + 1]
      BY <1>1, <1>2, <2>1, <3>1, <3>2 DEF t
    <3>6. QED BY <1>1, <3>3, <3>4, <3>5
  <2>6. ClockIsExact'
    BY <1>2, <1>7, <2>5, ExactWhenLeft
  <2>7. QED BY <1>5, <2>3, <2>4, <2>5, <2>6 DEF PlayOK
<1>11. QED BY <1>8, <1>9, <1>10

-----------------------------------------------------------------------------
(* What the program waits for, and what it offers.                         *)

\* Back at the top of the loop nothing is waited for.
LEMMA NotWaiting ==
    ASSUME phase' \in {"loop", "ended"}
    PROVE  WaitingOK'
BY DEF WaitingOK

\* With nothing on offer there is nothing to say.
LEMMA NoOffers ==
    ASSUME ui'.promotion = {}
    PROVE  OffersOK'
BY DEF OffersOK, PromotionIsLegal

\* The same choices, in the same game.
LEMMA SameOffers ==
    ASSUME OffersOK, ui'.promotion = ui.promotion, UNCHANGED <<setup, game>>
    PROVE  OffersOK'
BY DEF OffersOK, PromotionIsLegal, ToMove

\* Choices are on offer in an open game only, and stay when a redo fails.
LEMMA RolledBackOffers ==
    ASSUME PlayOK, OffersOK, NEW redo \in BOOLEAN, game' = RolledBack(redo),
           ui'.promotion = ui.promotion, setup' = setup
    PROVE  OffersOK'
<1>1. /\ game'.positions = game.positions /\ game'.cursor = game.cursor
      /\ game'.result \in {game.result, Undeclared}
      /\ game.result \in Outcome \cup {Undeclared}
  BY RolledBackGame DEF PlayOK, PlayTypeOK, WellFormed, GameRecord
<1>2. /\ Current(game') = Current(game) /\ ToMove' = ToMove
      /\ Automatic(game', game'.cursor, "casual") = Automatic(game, game.cursor, "casual")
  BY <1>1, SamePlace DEF ToMove
<1>3. ResultOf(game, "casual") = "*" => ResultOf(game', "casual") = "*"
  BY <1>1, <1>2 DEF ResultOf, Outcome
<1>4. QED BY <1>2, <1>3 DEF OffersOK, PromotionIsLegal

-----------------------------------------------------------------------------
(* The invariant, action by action.                                        *)

LEMMA SessionInitHolds == SessionInit => SessionInv
<1> SUFFICES ASSUME SessionInit PROVE SessionInv
  OBVIOUS
<1> USE DEF SessionInit
<1>1. WellFormed(game) /\ Len(game.moves) = game.cursor
  BY StartAssumption, NewGameWellFormed, LoadWellFormed
<1>2. Len(game.moves) - game.cursor = 0
  BY <1>1 DEF WellFormed, GameRecord
<1>3. Both(Initial) \in [Color -> Nat] /\ Both(0) \in [Color -> Nat]
      /\ Initial \in Nat /\ Increment \in Nat
  BY LocalAssumption DEF Both
<1>4. clock \in Clock /\ ~clock.running /\ Values(clock) = Both(Initial)
  BY <1>3, StandingClock
<1>5. TimeOK
  BY DEF TimeOK, Both
<1>6. ClockIsExact
  <2>1. ASSUME NEW side \in Color
        PROVE  Values(clock)[side] = Initial /\ ran[side] = 0 /\ Allowance(side) = Initial
    BY <1>3, <1>4 DEF Both, Allowance
  <2>2. QED BY <1>3, <1>5, <2>1 DEF ClockIsExact, TimeOK
<1>7. PlayTypeOK
  BY <1>1, <1>3, <1>4, LocalAssumption DEF PlayTypeOK
<1>8. InStep /\ FlagIsEarned /\ WaitingOK
  BY <1>2, <1>4 DEF InStep, FlagIsEarned, WaitingOK, Color
<1>9. LoopTypeOK /\ OffersOK
  BY DEF LoopTypeOK, NoUi, OffersOK, PromotionIsLegal
<1>10. QED BY <1>5, <1>6, <1>7, <1>8, <1>9 DEF SessionInv, PlayOK, LoopOK

\* The steps of the loop: beginning a turn, the bot's move, time, the end.
LEMMA LoopKeeps ==
    ASSUME SessionInv,
           \/ Ends \/ BotAsked \/ Prompt \/ BotStopped \/ FlagFalls \/ Quit
           \/ \E mv \in Move : BotMoves(mv)
    PROVE  SessionInv'
<1>0. PlayOK /\ LoopTypeOK /\ WaitingOK /\ OffersOK /\ now \in Nat
  BY DEF SessionInv, LoopOK, PlayOK, PlayTypeOK
<1>1. CASE Ends
  <2>1. PlayOK'
    BY <1>0, <1>1, IdleKeeps DEF Ends
  <2>2. LoopTypeOK' /\ WaitingOK' /\ OffersOK'
    BY <1>0, <1>1, NotWaiting, SameOffers DEF Ends, LoopTypeOK
  <2>3. QED BY <2>1, <2>2 DEF SessionInv, LoopOK
<1>2. CASE BotAsked
  <2>1. /\ PlayOK' /\ due' \in Nat
        /\ setup.timed /\ Ongoing => clock'.running
    BY <1>0, <1>2, BeginKeeps DEF BotAsked
  <2>2. /\ phase' = "thinking" /\ HasBot /\ ToMove = setup.bot /\ timeout = "none"
        /\ UNCHANGED <<setup, game, timeout, ui>>
    BY <1>2 DEF BotAsked, Ongoing
  <2>3. WaitingOK'
    BY <2>1, <2>2 DEF WaitingOK, HasBot, ToMove, Ongoing
  <2>4. LoopTypeOK' /\ OffersOK'
    BY <1>0, <2>1, <2>2, SameOffers DEF LoopTypeOK
  <2>5. QED BY <2>1, <2>3, <2>4 DEF SessionInv, LoopOK
<1>3. CASE Prompt
  <2>1. /\ PlayOK' /\ due' \in Nat
        /\ setup.timed /\ Ongoing => clock'.running
        /\ setup.timed /\ Ongoing
             => due' + ran[ToMove] + spared[ToMove] >= Allowance(ToMove) + now
    BY <1>0, <1>3, BeginKeeps DEF Prompt
  <2>2. /\ phase' = "input" /\ (Ongoing => ToMove # setup.bot) /\ timeout = "none"
        /\ UNCHANGED <<setup, game, timeout, ui, now, ran, spared, granted>>
    BY <1>3 DEF Prompt, observers
  <2>a. Ongoing' = Ongoing /\ ToMove' = ToMove /\ Allowance(ToMove)' = Allowance(ToMove)
    BY <2>2 DEF Ongoing, ToMove, Allowance
  <2>3. WaitingOK'
    BY <2>1, <2>2, <2>a DEF WaitingOK, HasBot
  <2>4. LoopTypeOK' /\ OffersOK'
    BY <1>0, <2>1, <2>2, SameOffers DEF LoopTypeOK
  <2>5. QED BY <2>1, <2>3, <2>4 DEF SessionInv, LoopOK
<1>4. ASSUME NEW mv \in Move, BotMoves(mv) PROVE SessionInv'
  <2>1. timeout = "none" /\ ui.promotion = {}
    BY <1>0, <1>4 DEF BotMoves, WaitingOK, OffersOK
  <2>2. PlayOK'
    BY <1>0, <1>4, <2>1, PlayKeeps DEF BotMoves
  <2>3. LoopTypeOK' /\ WaitingOK' /\ OffersOK'
    BY <1>0, <1>4, <2>1, NotWaiting, NoOffers DEF BotMoves, Stop, LoopTypeOK
  <2>4. QED BY <2>2, <2>3 DEF SessionInv, LoopOK
<1>5. CASE BotStopped
  <2>1. timeout = "none"
    BY <1>0, <1>5 DEF BotStopped, WaitingOK
  <2>2. PlayOK'
    <3>1. CASE Values(clock)[ToMove] <= 0
      <4>1. ran[ToMove] + spared[ToMove] >= Allowance(ToMove)
        BY <1>0, <1>5, <2>1, <3>1, ToMoveType, NothingLeft DEF BotStopped
      <4>2. QED BY <1>0, <1>5, <2>1, <3>1, <4>1, FallKeeps DEF BotStopped
    <3>2. CASE ~(Values(clock)[ToMove] <= 0)
      BY <1>0, <1>5, <3>2, IdleKeeps DEF BotStopped
    <3>3. QED BY <3>1, <3>2
  <2>3. phase' \in {"loop", "ended"} /\ due' = 0 /\ UNCHANGED <<setup, game, ui>>
    BY <1>5 DEF BotStopped, Stop
  <2>4. LoopTypeOK' /\ WaitingOK' /\ OffersOK'
    BY <1>0, <2>3, NotWaiting, SameOffers DEF LoopTypeOK
  <2>5. QED BY <2>2, <2>4 DEF SessionInv, LoopOK
<1>6. CASE FlagFalls
  <2>1. timeout = "none" /\ setup.timed
    BY <1>6 DEF FlagFalls, Ongoing
  <2>2. ran[ToMove] + spared[ToMove] >= Allowance(ToMove)
    <3>1. /\ now >= due /\ due \in Nat
          /\ due + ran[ToMove] + spared[ToMove] >= Allowance(ToMove) + now
      BY <1>0, <1>6 DEF FlagFalls, WaitingOK, LoopTypeOK
    <3>2. /\ ToMove \in Color /\ ran \in [Color -> Nat] /\ spared \in [Color -> Nat]
          /\ granted \in [Color -> Nat]
      BY <1>0, ToMoveType DEF PlayOK, PlayTypeOK
    <3>3. ran[ToMove] \in Nat /\ spared[ToMove] \in Nat /\ Allowance(ToMove) \in Nat
      BY <3>2, AllowanceType
    <3>4. QED BY <1>0, <3>1, <3>3
  <2>3. PlayOK'
    BY <1>0, <1>6, <2>1, <2>2, FallKeeps DEF FlagFalls
  <2>4. LoopTypeOK' /\ WaitingOK' /\ OffersOK'
    BY <1>0, <1>6, NotWaiting, SameOffers DEF FlagFalls, Stop, LoopTypeOK
  <2>5. QED BY <2>3, <2>4 DEF SessionInv, LoopOK
<1>7. CASE Quit
  <2>1. PlayOK'
    BY <1>0, <1>7, IdleKeeps DEF Quit
  <2>2. LoopTypeOK' /\ WaitingOK' /\ OffersOK'
    BY <1>0, <1>7, NotWaiting, SameOffers DEF Quit, Stop, LoopTypeOK
  <2>3. QED BY <2>1, <2>2 DEF SessionInv, LoopOK
<1>8. QED BY <1>1, <1>2, <1>3, <1>4, <1>5, <1>6, <1>7

\* A command goes back to the loop, with nothing on offer if it succeeds.
LEMMA CommandShape ==
    ASSUME SessionInv, NEW ok \in BOOLEAN, Command(ok)
    PROVE  /\ timeout = "none" /\ LoopTypeOK' /\ WaitingOK'
           /\ setup' = setup /\ now' = now
           /\ ok => ui'.promotion = {}
           /\ ~ok => ui' = ui
           /\ PlayOK /\ OffersOK
<1>1. phase \in {"input", "typing"}
  BY DEF Command, Reading
<1>2. timeout = "none" /\ LoopTypeOK /\ PlayOK /\ OffersOK
  BY <1>1 DEF SessionInv, LoopOK, WaitingOK
<1>3. phase' = "loop" /\ due' = 0 /\ setup' = setup /\ now' = now
      /\ ui' = IF ok THEN NoUi ELSE ui
  BY DEF Command, Stop
<1>4. LoopTypeOK'
  BY <1>2, <1>3 DEF LoopTypeOK, NoUi
<1>5. QED BY <1>2, <1>3, <1>4, NotWaiting DEF NoUi

\* A redo by command is taken for a move of the side that was to move.
LEMMA RedoKeeps ==
    ASSUME SessionInv, CommandRedo
    PROVE  SessionInv'
<1>1. /\ timeout = "none" /\ LoopTypeOK' /\ WaitingOK' /\ setup' = setup /\ now' = now
      /\ CanTravel(TRUE) => ui'.promotion = {}
      /\ ~CanTravel(TRUE) => ui' = ui
      /\ PlayOK /\ OffersOK
  <2>1. CanTravel(TRUE) \in BOOLEAN /\ Command(CanTravel(TRUE))
    BY DEF CommandRedo, CanTravel
  <2>2. QED BY <2>1, CommandShape
<1>2. CASE ~CanTravel(TRUE)
  <2>1. game' = RolledBack(TRUE) /\ UNCHANGED <<clock, timeout, observers>>
    BY <1>2 DEF CommandRedo
  <2>2. Travel(TRUE)
    BY <1>2, <2>1 DEF Travel
  <2>3. PlayOK'
    BY <1>1, <2>1, <2>2, TravelKeeps
  <2>4. OffersOK'
    BY <1>1, <1>2, <2>1, RolledBackOffers
  <2>5. QED BY <1>1, <2>3, <2>4 DEF SessionInv, LoopOK
<1>3. CASE CanTravel(TRUE)
  <2> DEFINE next == Turn[game'.positions[game'.cursor + 1].board]
             synced == Sync(clock, next)
  <2>1. /\ game' = Travelled(TRUE) /\ Inexact /\ ran' = ran /\ spared' = spared
        /\ IF Late(synced, ToMove)
           THEN timeout' = ToMove /\ clock' = Stopped(synced) /\ granted' = granted
           ELSE /\ clock' = Completed(synced, ToMove) /\ timeout' = timeout
                /\ granted' = Grant(granted, ToMove)
    BY <1>3 DEF CommandRedo
  <2>2. /\ WellFormed(game') /\ game'.moves = game.moves
        /\ game'.cursor \in {game.cursor + Steps, game.cursor - Steps}
    BY <1>1, <1>3, <2>1, TravelledGame DEF PlayOK, PlayTypeOK
  <2>3. next \in Color
    BY <2>2, CurrentType, ChessAssumption DEF Current, Position
  <2> HIDE DEF next
  <2>4. /\ now \in Nat /\ clock \in Clock /\ (clock.running => clock.started <= now)
        /\ ToMove \in Color /\ game.cursor \in Nat /\ Len(game.moves) \in Nat
    BY <1>1, ToMoveType DEF PlayOK, PlayTypeOK, InStep, WellFormed, GameRecord
  <2>5. synced \in Clock /\ (synced.running => synced.started <= now)
        /\ Values(synced) = Values(clock)
    BY <2>3, <2>4, SyncClockType
  <2> HIDE DEF synced
  <2>6. /\ clock' \in Clock /\ (clock'.running => clock'.started <= now)
        /\ granted' \in [Color -> Nat] /\ FlagIsEarned'
        /\ timeout' = "none" /\ setup.timed
             => \A s \in Color : Values(clock)'[s] = Left(s)'
    <3> DEFINE side == ToMove
    <3>1. side \in Color
      BY <2>4
    <3>2. CASE Late(synced, ToMove)
      <4>1. timeout' = side /\ clock' = Stopped(synced) /\ granted' = granted
        BY <2>1, <3>2
      <4>2. setup.timed /\ Values(clock)[side] <= 0
        BY <2>4, <2>5, <3>2, StartedClock DEF Late
      <4> HIDE DEF side
      <4>3. ran[side] + spared[side] >= Allowance(side)
        BY <1>1, <3>1, <4>2, NothingLeft
      <4>4. FlagIsEarned'
        BY <1>1, <2>1, <3>1, <4>1, <4>2, <4>3, FlagKeeps DEF Inexact
      <4>5. clock' \in Clock /\ ~clock'.running
        BY <2>4, <2>5, <4>1, <4>2, StoppedClock
      <4>6. timeout' # "none" /\ granted' \in [Color -> Nat]
        BY <1>1, <3>1, <4>1 DEF Color, PlayOK, PlayTypeOK
      <4>7. QED BY <4>4, <4>5, <4>6
    <3>3. CASE ~Late(synced, ToMove)
      <4>1. /\ ~Late(synced, side) /\ clock' = Completed(synced, side) /\ timeout' = timeout
            /\ granted' = Grant(granted, side)
        BY <2>1, <3>3
      <4> HIDE DEF side
      <4>2. QED BY <1>1, <2>1, <2>5, <3>1, <4>1, GrantKeeps
    <3>4. QED BY <3>2, <3>3
  <2>7. HasBot => (Len(game'.moves) - game'.cursor) % 2 = 0
    BY <1>1, <2>2, <2>4 DEF PlayOK, InStep, Steps
  <2>8. timeout' \in Color \cup {"none"}
    BY <1>1, <2>1, <2>4
  <2>9. PlayOK'
    BY <1>1, <2>1, <2>2, <2>4, <2>6, <2>7, <2>8, InexactKeeps DEF PlayOK, PlayTypeOK
  <2>10. OffersOK'
    BY <1>1, <1>3, NoOffers
  <2>11. QED BY <1>1, <2>9, <2>10 DEF SessionInv, LoopOK
<1>4. QED BY <1>2, <1>3

\* A loaded game is set up, or taken for a move if it is longer.
LEMMA LoadKeeps ==
    ASSUME SessionInv, NEW g \in Loads, CommandLoad(g)
    PROVE  SessionInv'
<1>1. /\ LoopTypeOK' /\ WaitingOK' /\ setup' = setup /\ now' = now
      /\ ui'.promotion = {} /\ PlayOK
  BY CommandShape DEF CommandLoad
<1>2. WellFormed(g) /\ Len(g.moves) = g.cursor /\ g.cursor \in Nat
  BY LoadWellFormed DEF WellFormed, GameRecord
<1>3. PlayOK'
  <2>1. CASE g.cursor <= game.cursor
    BY <1>1, <1>2, <2>1, FreshKeeps DEF CommandLoad
  <2>2. CASE ~(g.cursor <= game.cursor)
    <3>1. /\ game' = g /\ clock' = Completed(Reset(clock), ToMove)
          /\ timeout' = "none" /\ Inexact
          /\ ran' = Both(0) /\ spared' = Both(0) /\ granted' = Grant(Both(0), ToMove)
      BY <2>2 DEF CommandLoad
    <3>2. now \in Nat /\ ToMove \in Color
      BY <1>1, ToMoveType DEF PlayOK, PlayTypeOK
    <3>3. /\ Both(Initial) \in [Color -> Nat] /\ Both(0) \in [Color -> Nat]
          /\ Initial \in Nat /\ Increment \in Nat
      BY LocalAssumption DEF Both
    <3>4. Reset(clock) \in Clock /\ ~Reset(clock).running /\ Values(Reset(clock)) = Both(Initial)
      BY <3>3, StandingClock DEF Reset
    <3>5. clock' \in Clock /\ (clock'.running => clock'.started <= now)
      BY <3>1, <3>2, <3>4, CompletedClock
    <3>6. (Len(game'.moves) - game'.cursor) % 2 = 0
      BY <1>2, <3>1
    <3>7. granted' \in [Color -> Nat]
      BY <3>1, <3>2, <3>3 DEF Grant
    <3>8. ASSUME setup.timed, NEW s \in Color
          PROVE  Values(clock)'[s] = Left(s)'
      <4> DEFINE side == ToMove
      <4>1. side \in Color /\ granted' = [Both(0) EXCEPT ![side] = @ + 1] /\ ran'[s] = 0
        BY <3>1, <3>2, <3>8 DEF Grant, Both
      <4>2. clock' = Completed(Reset(clock), side)
        BY <3>1
      <4> HIDE DEF side
      <4>3. Values(clock)' = [Both(Initial) EXCEPT ![side] = @ + Increment]
        BY <1>1, <3>2, <3>4, <3>8, <4>1, <4>2, CompletedClock, SameTime
      <4>4. granted'[s] = IF s = side THEN 1 ELSE 0
        BY <3>3, <4>1 DEF Both
      <4>5. Values(clock)'[s] = IF s = side THEN Initial + Increment ELSE Initial
        BY <3>3, <4>3 DEF Both
      <4>6. Allowance(s)' = IF s = side THEN Initial + Increment ELSE Initial
        BY <3>3, <4>4 DEF Allowance
      <4>7. QED BY <3>3, <4>1, <4>5, <4>6 DEF Left
    <3>9. FlagIsEarned'
      BY <3>1 DEF FlagIsEarned, Color
    <3>10. QED BY <1>1, <1>2, <3>1, <3>2, <3>3, <3>5, <3>6, <3>7, <3>8, <3>9, InexactKeeps
  <2>3. QED BY <2>1, <2>2
<1>4. QED BY <1>1, <1>3, NoOffers DEF SessionInv, LoopOK

\* Every command keeps the invariant.
LEMMA CommandsKeep ==
    ASSUME SessionInv, Commands
    PROVE  SessionInv'
<1>1. ASSUME NEW ok \in BOOLEAN, CommandSaysOnly(ok) PROVE SessionInv'
  <2>1. Command(ok) /\ UNCHANGED <<game, clock, timeout, observers>>
    BY <1>1 DEF CommandSaysOnly
  <2>2. /\ LoopTypeOK' /\ WaitingOK' /\ setup' = setup /\ now' = now
        /\ (ui'.promotion = {} \/ ui'.promotion = ui.promotion) /\ PlayOK /\ OffersOK
    BY <2>1, CommandShape
  <2>3. PlayOK'
    BY <2>1, <2>2, IdleKeeps
  <2>4. OffersOK'
    BY <2>1, <2>2, NoOffers, SameOffers
  <2>5. QED BY <2>2, <2>3, <2>4 DEF SessionInv, LoopOK
<1>2. ASSUME NEW mv \in Move, CommandMove(mv) PROVE SessionInv'
  <2>1. /\ timeout = "none" /\ LoopTypeOK' /\ WaitingOK' /\ setup' = setup /\ now' = now
        /\ ui'.promotion = {} /\ PlayOK
    BY <1>2, CommandShape DEF CommandMove
  <2>2. PlayOK'
    BY <1>2, <2>1, PlayKeeps DEF CommandMove
  <2>3. QED BY <2>1, <2>2, NoOffers DEF SessionInv, LoopOK
<1>3. CASE CommandUndo
  <2>a. CanTravel(FALSE) \in BOOLEAN
    BY DEF CanTravel
  <2>1. Command(CanTravel(FALSE)) /\ Travel(FALSE) /\ UNCHANGED <<timeout, observers>>
    BY <1>3 DEF CommandUndo
  <2>2. /\ LoopTypeOK' /\ WaitingOK' /\ setup' = setup /\ now' = now
        /\ (CanTravel(FALSE) => ui'.promotion = {})
        /\ (~CanTravel(FALSE) => ui' = ui) /\ PlayOK /\ OffersOK
    BY <2>a, <2>1, CommandShape
  <2>3. PlayOK'
    BY <2>1, <2>2, TravelKeeps
  <2>4. OffersOK'
    <3>1. CASE CanTravel(FALSE)
      BY <2>2, <3>1, NoOffers
    <3>2. CASE ~CanTravel(FALSE)
      <4>1. game' = RolledBack(FALSE)
        BY <2>1, <3>2 DEF Travel
      <4>2. QED BY <2>2, <3>2, <4>1, RolledBackOffers
    <3>3. QED BY <3>1, <3>2
  <2>5. QED BY <2>2, <2>3, <2>4 DEF SessionInv, LoopOK
<1>4. CASE CommandRedo
  BY <1>4, RedoKeeps
<1>5. ASSUME NEW how \in {"resigned", "agreed"}, CommandDecides(how) PROVE SessionInv'
  <2>1. /\ LoopTypeOK' /\ WaitingOK' /\ setup' = setup /\ now' = now
        /\ ui'.promotion = {} /\ PlayOK
    BY <1>5, CommandShape DEF CommandDecides
  <2>2. PlayOK'
    BY <1>5, <2>1, DecidedKeeps DEF CommandDecides, PlayOK, PlayTypeOK
  <2>3. QED BY <2>1, <2>2, NoOffers DEF SessionInv, LoopOK
<1>6. CASE CommandClaims
  <2>1. /\ LoopTypeOK' /\ WaitingOK' /\ setup' = setup /\ now' = now
        /\ ui'.promotion = {} /\ PlayOK
    BY <1>6, CommandShape DEF CommandClaims
  <2>2. /\ WellFormed(game') /\ game'.moves = game.moves /\ game'.positions = game.positions
        /\ game'.cursor = game.cursor
    <3>1. game' = [game EXCEPT !.result = "1/2-1/2"] /\ WellFormed(game)
      BY <1>6, <2>1 DEF CommandClaims, PlayOK, PlayTypeOK
    <3>2. game' \in GameRecord
      BY <3>1 DEF WellFormed, GameRecord, Outcome
    <3>3. /\ game'.moves = game.moves /\ game'.positions = game.positions
          /\ game'.cursor = game.cursor
      BY <3>1 DEF WellFormed, GameRecord
    <3>4. QED BY <3>1, <3>2, <3>3 DEF WellFormed
  <2>3. PlayOK'
    BY <1>6, <2>1, <2>2, DecidedKeeps DEF CommandClaims
  <2>4. QED BY <2>1, <2>3, NoOffers DEF SessionInv, LoopOK
<1>7. ASSUME NEW start \in Starts, CommandFEN(start) PROVE SessionInv'
  <2>1. /\ LoopTypeOK' /\ WaitingOK' /\ setup' = setup /\ now' = now
        /\ ui'.promotion = {} /\ PlayOK
    BY <1>7, CommandShape DEF CommandFEN
  <2>2. WellFormed(NewGame(start)) /\ Len(NewGame(start).moves) = NewGame(start).cursor
    BY LocalAssumption, NewGameWellFormed
  <2>3. PlayOK'
    BY <1>7, <2>1, <2>2, FreshKeeps DEF CommandFEN
  <2>4. QED BY <2>1, <2>3, NoOffers DEF SessionInv, LoopOK
<1>8. ASSUME NEW g \in Loads, CommandLoad(g) PROVE SessionInv'
  BY <1>8, LoadKeeps
<1>9. QED
  BY <1>1, <1>2, <1>3, <1>4, <1>5, <1>6, <1>7, <1>8 DEF Commands

\* A key goes back to the loop, or opens the line for a command.
LEMMA KeyShape ==
    ASSUME SessionInv, Key
    PROVE  /\ timeout = "none" /\ WaitingOK'
           /\ phase' = "loop" /\ due' = 0 /\ setup' = setup /\ now' = now
           /\ PlayOK /\ OffersOK /\ LoopTypeOK
           /\ ResultOf(game, "casual") = "*" => ToMove # setup.bot
<1>1. phase = "input" /\ phase' = "loop" /\ due' = 0 /\ setup' = setup /\ now' = now
  BY DEF Key, Pressed, Stop
<1>2. timeout = "none" /\ PlayOK /\ OffersOK /\ LoopTypeOK
      /\ (ResultOf(game, "casual") = "*" => ToMove # setup.bot)
  BY <1>1 DEF SessionInv, LoopOK, WaitingOK, Ongoing
<1>3. QED BY <1>1, <1>2, NotWaiting

\* A move at the board leaves nothing on offer.
LEMMA BoardMoveKeeps ==
    ASSUME SessionInv, Key, NEW mv \in Move, PlayInteractiveMove(mv)
    PROVE  SessionInv'
<1>1. /\ timeout = "none" /\ WaitingOK' /\ phase' = "loop" /\ due' = 0
      /\ setup' = setup /\ now' = now /\ PlayOK /\ LoopTypeOK
  BY KeyShape
<1>2. PlayOK'
  BY <1>1, PlayKeeps DEF PlayInteractiveMove
<1>3. LoopTypeOK' /\ ui'.promotion = {}
  BY <1>1 DEF LoopTypeOK, PlayInteractiveMove
<1>4. QED BY <1>1, <1>2, <1>3, NoOffers DEF SessionInv, LoopOK

\* Every key keeps the invariant.
LEMMA KeysKeep ==
    ASSUME SessionInv, Keys
    PROVE  SessionInv'
<1>1. CASE KeyCommand
  <2>1. /\ phase = "input" /\ phase' = "typing" /\ due' = 0
        /\ UNCHANGED <<setup, game, clock, timeout, ui, now, observers>>
    BY <1>1 DEF KeyCommand, Pressed, Stop
  <2>2. PlayOK /\ LoopTypeOK /\ WaitingOK /\ OffersOK
    BY DEF SessionInv, LoopOK
  <2>3. PlayOK' /\ OffersOK' /\ LoopTypeOK'
    BY <2>1, <2>2, IdleKeeps, SameOffers DEF LoopTypeOK
  <2>4. WaitingOK'
    BY <2>1, <2>2 DEF WaitingOK, Ongoing, ToMove, HasBot
  <2>5. QED BY <2>3, <2>4 DEF SessionInv, LoopOK
<1>2. CASE KeyEscape
  <2>1. Key /\ ui' = NoUi /\ UNCHANGED <<game, clock, timeout, observers>>
    BY <1>2 DEF KeyEscape
  <2>2. /\ WaitingOK' /\ phase' = "loop" /\ due' = 0 /\ setup' = setup /\ now' = now
        /\ PlayOK /\ LoopTypeOK
    BY <2>1, KeyShape
  <2>3. PlayOK' /\ LoopTypeOK' /\ ui'.promotion = {}
    BY <2>1, <2>2, IdleKeeps DEF LoopTypeOK, NoUi
  <2>4. QED BY <2>2, <2>3, NoOffers DEF SessionInv, LoopOK
<1>3. CASE KeyNew
  <2>1. /\ WaitingOK' /\ phase' = "loop" /\ due' = 0 /\ setup' = setup /\ now' = now
        /\ PlayOK /\ LoopTypeOK /\ ui.promotion = {}
    BY <1>3, KeyShape DEF KeyNew
  <2>2. CASE ~ui.confirmNew /\ game.cursor > 0 /\ Ongoing
    <3>1. /\ ui' = [ui EXCEPT !.confirmNew = TRUE]
          /\ UNCHANGED <<game, clock, timeout, observers>>
      BY <1>3, <2>2 DEF KeyNew
    <3>2. PlayOK' /\ LoopTypeOK' /\ ui'.promotion = {}
      BY <2>1, <3>1, IdleKeeps DEF LoopTypeOK
    <3>3. QED BY <2>1, <3>2, NoOffers DEF SessionInv, LoopOK
  <2>3. CASE ~(~ui.confirmNew /\ game.cursor > 0 /\ Ongoing)
    <3>1. ui' = NoUi /\ Fresh(NewGame(Start))
      BY <1>3, <2>3 DEF KeyNew
    <3>2. WellFormed(NewGame(Start)) /\ Len(NewGame(Start).moves) = NewGame(Start).cursor
      BY StartAssumption, NewGameWellFormed
    <3>3. PlayOK' /\ LoopTypeOK' /\ ui'.promotion = {}
      BY <2>1, <3>1, <3>2, FreshKeeps DEF LoopTypeOK, NoUi
    <3>4. QED BY <2>1, <3>3, NoOffers DEF SessionInv, LoopOK
  <2>4. QED BY <2>2, <2>3
<1>4. ASSUME NEW mv \in Move, KeySelect(mv) PROVE SessionInv'
  <2>1. Key /\ ResultOf(game, "casual") = "*"
    BY <1>4 DEF KeySelect
  <2>2. CASE PlayInteractiveMove(mv)
    BY <2>1, <2>2, BoardMoveKeeps
  <2>3. ASSUME NEW group \in Promotions[Current(game).board],
               ui' = [ui EXCEPT !.promotion = group],
               UNCHANGED <<game, clock, timeout, observers>>
        PROVE  SessionInv'
    <3>1. /\ WaitingOK' /\ phase' = "loop" /\ due' = 0 /\ setup' = setup /\ now' = now
          /\ PlayOK /\ LoopTypeOK /\ ToMove # setup.bot
      BY <2>1, KeyShape
    <3>2. Current(game).board \in Board
      BY <3>1, ToMoveType DEF Position
    <3>3. group \subseteq Legal[Current(game).board] /\ group \subseteq Move
      BY <3>2, LocalAssumption, ChessAssumption
    <3>4. LoopTypeOK' /\ ui'.promotion = group
      BY <2>3, <3>1, <3>3 DEF LoopTypeOK
    <3>5. OffersOK'
      BY <2>1, <2>3, <3>1, <3>3, <3>4 DEF OffersOK, PromotionIsLegal, ToMove
    <3>6. PlayOK'
      BY <2>3, <3>1, IdleKeeps
    <3>7. QED BY <3>1, <3>4, <3>5, <3>6 DEF SessionInv, LoopOK
  <2>4. QED BY <1>4, <2>2, <2>3 DEF KeySelect
<1>5. ASSUME NEW mv \in Move, KeyPromote(mv) PROVE SessionInv'
  BY <1>5, BoardMoveKeeps DEF KeyPromote
<1>6. ASSUME NEW redo \in BOOLEAN, KeyTravel(redo) PROVE SessionInv'
  <2>1. Key /\ ui.promotion = {} /\ Travel(redo) /\ UNCHANGED <<timeout, ui, observers>>
    BY <1>6 DEF KeyTravel, Free, NoUi
  <2>2. /\ WaitingOK' /\ phase' = "loop" /\ due' = 0 /\ setup' = setup /\ now' = now
        /\ PlayOK /\ LoopTypeOK
    BY <2>1, KeyShape
  <2>3. PlayOK'
    BY <2>1, <2>2, TravelKeeps
  <2>4. LoopTypeOK' /\ OffersOK'
    BY <2>1, <2>2, NoOffers DEF LoopTypeOK
  <2>5. QED BY <2>2, <2>3, <2>4 DEF SessionInv, LoopOK
<1>7. QED BY <1>1, <1>2, <1>3, <1>4, <1>5, <1>6 DEF Keys

\* While time passes the program goes on waiting for the same thing.
LEMMA TimePasses ==
    ASSUME SessionInv, Tick
    PROVE  SessionInv'
<1>1. PlayOK'
  BY TickKeeps
<1>2. /\ UNCHANGED <<setup, game, clock, timeout, ui, phase, due>>
      /\ LoopTypeOK /\ WaitingOK /\ OffersOK
  BY DEF Tick, SessionInv, LoopOK
<1>3. Ongoing' = Ongoing /\ ToMove' = ToMove /\ HasBot' = HasBot
      /\ Allowance(ToMove)' = Allowance(ToMove)
  BY <1>2 DEF Tick, Ongoing, ToMove, HasBot, Allowance
<1>a. ASSUME setup.timed, phase = "input", Ongoing
      PROVE  due + ran'[ToMove] + spared'[ToMove] >= Allowance(ToMove) + now'
  <2> DEFINE t == ToMove
  <2>1. /\ t \in Color /\ ran \in [Color -> Nat] /\ spared \in [Color -> Nat]
        /\ granted \in [Color -> Nat] /\ now \in Nat /\ due \in Nat
    BY <1>2, ToMoveType DEF SessionInv, PlayOK, PlayTypeOK, LoopTypeOK
  <2>2. due + ran[t] + spared[t] >= Allowance(t) + now
    BY <1>2, <1>a DEF WaitingOK
  <2>3. ran'[t] + spared'[t] = ran[t] + spared[t] + 1
    <3>1. /\ now' = now + 1
          /\ ran' = IF clock.running THEN [ran EXCEPT ![clock.active] = @ + 1] ELSE ran
          /\ spared' = IF ~Charged THEN [spared EXCEPT ![t] = @ + 1] ELSE spared
          /\ Charged <=> clock.running /\ clock.active = t
      BY <1>a DEF Tick, OneMore, Charged
    <3>a. clock.active \in Color
      BY DEF SessionInv, PlayOK, PlayTypeOK, Clock
    <3> HIDE DEF t
    <3>2. CASE Charged
      <4>1. ran'[t] = ran[t] + 1 /\ spared'[t] = spared[t]
        BY <2>1, <3>1, <3>2
      <4>2. QED BY <2>1, <4>1
    <3>3. CASE ~Charged
      <4>1. ran'[t] = ran[t] /\ spared'[t] = spared[t] + 1
        BY <2>1, <3>1, <3>a, <3>3
      <4>2. QED BY <2>1, <4>1
    <3>4. QED BY <3>2, <3>3
  <2>4. ran[t] \in Nat /\ spared[t] \in Nat /\ Allowance(t) \in Nat
    BY <2>1, AllowanceType
  <2>5. ran'[t] \in Nat /\ spared'[t] \in Nat /\ now' = now + 1
    BY <1>1, <2>1 DEF PlayOK, PlayTypeOK, Tick
  <2> HIDE DEF t
  <2>6. due + ran'[t] + spared'[t] >= Allowance(t) + now'
    BY <2>1, <2>2, <2>3, <2>4, <2>5
  <2>7. QED BY <2>6 DEF t
<1>4. WaitingOK'
  BY <1>2, <1>3, <1>a DEF WaitingOK
<1>5. LoopTypeOK' /\ OffersOK'
  BY <1>2, SameOffers DEF LoopTypeOK
<1>6. QED BY <1>1, <1>4, <1>5 DEF SessionInv, LoopOK

\* Every step of a session keeps the invariant.
LEMMA SessionStepHolds == SessionInv /\ [SessionNext]_vars => SessionInv'
<1>1. ASSUME SessionInv, SessionNext PROVE SessionInv'
  BY <1>1, LoopKeeps, CommandsKeep, KeysKeep, TimePasses DEF SessionNext
<1>2. ASSUME SessionInv, UNCHANGED vars PROVE SessionInv'
  <2>1. PlayOK /\ LoopTypeOK /\ WaitingOK /\ OffersOK
    BY <1>2 DEF SessionInv, LoopOK
  <2>2. PlayOK'
    BY <1>2, <2>1, IdleKeeps DEF vars, observers
  <2>3. WaitingOK'
    BY <1>2, <2>1 DEF vars, WaitingOK, Ongoing, ToMove, HasBot, Allowance
  <2>4. LoopTypeOK' /\ OffersOK'
    BY <1>2, <2>1, SameOffers DEF vars, LoopTypeOK
  <2>5. QED BY <2>2, <2>3, <2>4 DEF SessionInv, LoopOK
<1>3. QED BY <1>1, <1>2

-----------------------------------------------------------------------------
(* The theorems about a session.                                           *)

\* The invariant holds throughout a session.
THEOREM SessionInvariance == SessionSpec => []SessionInv
<1>1. SessionInit => SessionInv
  BY SessionInitHolds
<1>2. SessionInv /\ [SessionNext]_vars => SessionInv'
  BY SessionStepHolds
<1>3. QED BY <1>1, <1>2, PTL DEF SessionSpec

\* A clock shows base time and the increments given less the time it ran,
\* whatever is taken back, restored, loaded, entered or typed meanwhile; and it
\* ran just while its side was to move, until the loop takes a redo or a longer
\* game for a move or a finished game is left on its clock.
THEOREM SessionClockStaysExact == SessionSpec => []ClockIsExact
<1>1. SessionInv => ClockIsExact
  BY DEF SessionInv, PlayOK
<1>2. QED BY <1>1, SessionInvariance, PTL

\* Whoever loses on time has had all he was given, on his clock or while it was
\* his turn on the other's; until one of the exceptions, by thinking himself.
THEOREM SessionFlagsAreEarned == SessionSpec => []FlagIsEarned
<1>1. SessionInv => FlagIsEarned
  BY DEF SessionInv, PlayOK
<1>2. QED BY <1>1, SessionInvariance, PTL

\* A promotion on offer can be played on the board as it is.
THEOREM PromotionsStayLegal == SessionSpec => []PromotionIsLegal
<1>1. SessionInv => PromotionIsLegal
  BY DEF SessionInv, LoopOK, OffersOK
<1>2. QED BY <1>1, SessionInvariance, PTL

-----------------------------------------------------------------------------
(* Whole turns.                                                            *)

\* Where the cursor stays.
LEMMA StayingIsWhole ==
    ASSUME PlayOK, game'.cursor = game.cursor
    PROVE  WholeTurns
BY DEF WholeTurns, PlayOK, PlayTypeOK, WellFormed, GameRecord

\* A move changes the positions: if it repeats what was undone, it discards
\* the rest, and what is undone are whole turns.
LEMMA PlayIsWhole ==
    ASSUME PlayOK, NEW mv, CanPlay(game, mv, "casual"), game' = Played(game, mv)
    PROVE  WholeTurns
<1>1. WellFormed(game) /\ (HasBot => (Len(game.moves) - game.cursor) % 2 = 0)
  BY DEF PlayOK, PlayTypeOK, InStep
<1>2. WellFormed(game') /\ Len(game'.moves) = game'.cursor
  BY <1>1, PlayedTurn
<1>3. game'.cursor = game.cursor + 1
  BY DEF Played
<1>4. /\ game.cursor \in Nat /\ Len(game.moves) \in Nat
      /\ Len(game.positions) = Len(game.moves) + 1
      /\ Len(game'.positions) = game.cursor + 2
  BY <1>1, <1>2, <1>3 DEF WellFormed, GameRecord
<1>5. ASSUME HasBot, game'.positions = game.positions PROVE FALSE
  BY <1>1, <1>4, <1>5
<1>6. QED BY <1>5 DEF WholeTurns

\* Steps back and forth are two against a bot, or none.
LEMMA TravelIsWhole ==
    ASSUME PlayOK, NEW redo \in BOOLEAN,
           game' = IF CanTravel(redo) THEN Travelled(redo) ELSE RolledBack(redo)
    PROVE  WholeTurns
<1>1. WellFormed(game) /\ game.cursor \in Nat
  BY DEF PlayOK, PlayTypeOK, WellFormed, GameRecord
<1>2. CASE CanTravel(redo)
  <2>1. game'.cursor \in {game.cursor + Steps, game.cursor - Steps}
    BY <1>1, <1>2, TravelledGame
  <2>2. QED BY <1>1, <2>1 DEF WholeTurns, Steps
<1>3. CASE ~CanTravel(redo)
  <2>1. game'.cursor = game.cursor
    BY <1>1, <1>3, RolledBackGame
  <2>2. QED BY <2>1, StayingIsWhole
<1>4. QED BY <1>2, <1>3

\* A new game with the positions of this one is this one without a move.
LEMMA NewGameIsWhole ==
    ASSUME PlayOK, NEW p \in Position, game' = NewGame(p)
    PROVE  WholeTurns
<1>1. /\ game.cursor \in Nat /\ Len(game.moves) \in Nat /\ game.cursor <= Len(game.moves)
      /\ Len(game.positions) = Len(game.moves) + 1
  BY DEF PlayOK, PlayTypeOK, WellFormed, GameRecord
<1>2. game'.cursor = 0 /\ Len(game'.positions) = 1
  BY DEF NewGame
<1>3. ASSUME game'.positions = game.positions PROVE game'.cursor = game.cursor
  <2>1. Len(game.moves) + 1 = 1
    BY <1>1, <1>2, <1>3
  <2>2. QED BY <1>1, <1>2, <2>1
<1>4. QED BY <1>3, StayingIsWhole DEF WholeTurns

\* A loaded game with the positions of this one goes on by whole turns.
LEMMA LoadIsWhole ==
    ASSUME PlayOK, game' \in Loads
    PROVE  WholeTurns
<1>1. /\ game.cursor \in Nat /\ Len(game.moves) \in Nat
      /\ Len(game.positions) = Len(game.moves) + 1
      /\ HasBot => (Len(game.moves) - game.cursor) % 2 = 0
  BY DEF PlayOK, PlayTypeOK, InStep, WellFormed, GameRecord
<1>2. Len(game'.moves) = game'.cursor /\ Len(game'.positions) = game'.cursor + 1
      /\ game'.cursor \in Nat
  BY LoadAssumption DEF GameRecord
<1>3. game'.positions = game.positions => game'.cursor = Len(game.moves)
  BY <1>1, <1>2
<1>4. QED BY <1>1, <1>3 DEF WholeTurns

\* Against a bot moves are taken back and restored by whole turns.
THEOREM TurnsStayTogether == SessionSpec => TurnsMoveTogether
<1>1. ASSUME SessionInv, SessionNext PROVE WholeTurns
  <2>0. PlayOK
    BY <1>1 DEF SessionInv
  <2>1. CASE game' = game
    BY <2>0, <2>1, StayingIsWhole
  <2>2. ASSUME NEW mv \in Move,
               BotMoves(mv) \/ CommandMove(mv) \/ KeySelect(mv) \/ KeyPromote(mv)
        PROVE  WholeTurns
    <3>1. game' = game \/ (CanPlay(game, mv, "casual") /\ game' = Played(game, mv))
      BY <2>2 DEF BotMoves, CommandMove, KeySelect, KeyPromote, PlayInteractiveMove
    <3>2. QED BY <2>0, <2>1, <3>1, PlayIsWhole
  <2>3. ASSUME NEW redo \in BOOLEAN, Travel(redo) PROVE WholeTurns
    <3>1. game' = IF CanTravel(redo) THEN Travelled(redo) ELSE RolledBack(redo)
      BY <2>3 DEF Travel
    <3>2. QED BY <2>0, <3>1, TravelIsWhole
  <2>4. CASE CommandRedo
    <3>1. game' = IF CanTravel(TRUE) THEN Travelled(TRUE) ELSE RolledBack(TRUE)
      BY <2>4 DEF CommandRedo
    <3>2. QED BY <2>0, <3>1, TravelIsWhole
  <2>5. CASE CommandClaims
    <3>1. game' = [game EXCEPT !.result = "1/2-1/2"]
      BY <2>5 DEF CommandClaims
    <3>2. game'.cursor = game.cursor
      BY <2>0, <3>1 DEF PlayOK, PlayTypeOK, WellFormed, GameRecord
    <3>3. QED BY <2>0, <3>2, StayingIsWhole
  <2>6. ASSUME NEW start \in Starts, CommandFEN(start) PROVE WholeTurns
    BY <2>0, <2>6, LocalAssumption, NewGameIsWhole DEF CommandFEN, Fresh
  <2>7. ASSUME NEW g \in Loads, CommandLoad(g) PROVE WholeTurns
    <3>1. game' = g
      BY <2>7 DEF CommandLoad, Fresh
    <3>2. QED BY <2>0, <3>1, LoadIsWhole
  <2>8. CASE KeyNew
    <3>1. game' = game \/ game' = NewGame(Start)
      BY <2>8 DEF KeyNew, Fresh
    <3>2. QED BY <2>0, <2>1, <3>1, StartAssumption, NewGameIsWhole
  <2>9. CASE Commands
    <3>1. ASSUME NEW ok \in BOOLEAN, CommandSaysOnly(ok) PROVE game' = game
      BY <3>1 DEF CommandSaysOnly
    <3>2. ASSUME NEW how \in {"resigned", "agreed"}, CommandDecides(how) PROVE game' = game
      BY <3>2 DEF CommandDecides
    <3>3. CASE CommandUndo
      BY <2>3, <3>3 DEF CommandUndo
    <3>4. QED
      BY <2>1, <2>2, <2>4, <2>5, <2>6, <2>7, <2>9, <3>1, <3>2, <3>3 DEF Commands
  <2>10. CASE Keys
    <3>1. ASSUME KeyCommand \/ KeyEscape PROVE game' = game
      BY <3>1 DEF KeyCommand, KeyEscape
    <3>2. ASSUME NEW redo \in BOOLEAN, KeyTravel(redo) PROVE WholeTurns
      BY <2>3, <3>2 DEF KeyTravel
    <3>3. QED BY <2>1, <2>2, <2>8, <2>10, <3>1, <3>2 DEF Keys
  <2>11. ASSUME Ends \/ BotAsked \/ Prompt \/ BotStopped \/ FlagFalls \/ Quit \/ Tick
         PROVE  game' = game
    BY <2>11 DEF Ends, BotAsked, Prompt, BotStopped, FlagFalls, Quit, Tick
  <2>12. QED
    BY <1>1, <2>1, <2>2, <2>9, <2>10, <2>11 DEF SessionNext
<1>2. ASSUME SessionInv, UNCHANGED vars PROVE WholeTurns
  BY <1>2, StayingIsWhole DEF SessionInv, vars
<1>3. SessionInv /\ [SessionNext]_vars => [WholeTurns]_vars
  BY <1>1, <1>2
<1>4. QED
  BY <1>3, SessionInvariance, PTL DEF SessionSpec, TurnsMoveTogether

=============================================================================
