-------------------------- MODULE TournamentProofs --------------------------
(***************************************************************************)
(* Proofs about Tournament, for every set of configurations, any players,  *)
(* any deadline and any bound on time.                                     *)
(***************************************************************************)
EXTENDS Tournament, TLAPS

Colours == {"white", "black"}
Causes == {"none", "Canceled", "DeadlineExceeded"}
Phases == {"next", "playing", "thinking", "reported", "failed"}
Results == {"*", "1-0", "0-1", "1/2-1/2"}
Player == DOMAIN Kind \cup {"nobody"}

GameRecord ==
    [white : Player, black : Player, ply : Nat, result : Results,
     remaining : [Colours -> Int], started : Nat, context : Causes,
     spent : [Colours -> Int], flagged : Colours \cup {"nobody"}, gaveUp : BOOLEAN]

TypeOK ==
    /\ config \in Configs
    /\ phase \in Phases
    /\ game \in GameRecord
    /\ now \in Nat
    /\ stop \in Causes

\* The loop counters name two players of the list while there are pairs left.
WithinList(cell) ==
    /\ cell \in [first : Nat \ {0}, second : Nat \ {0}, gameIndex : Nat]
    /\ cell.first < Len(config.players) => cell.second <= Len(config.players)

CellOK == WithinList(at)

\* A player thinks only while the game is open.
ThinkingIsOpen == phase = "thinking" => game.result = "*"

\* The context of a move has passed its deadline only because the mover has
\* used up the clock, or because the tournament's own deadline has passed.
DeadlineHasCause ==
    phase = "thinking" /\ game.context = "DeadlineExceeded" =>
        \/ stop = "DeadlineExceeded"
        \/ config.timed /\ now - game.started >= game.remaining[Turn(game)]

IInv == TypeOK /\ CellOK /\ ThinkingIsOpen /\ DeadlineHasCause /\ ClockIsExact /\ FlagIsEarned

-----------------------------------------------------------------------------
\* What the assumption says of the configuration at hand.
LEMMA ConfigType ==
    ASSUME TypeOK
    PROVE  /\ config.players \in Seq(DOMAIN Kind) /\ Len(config.players) \in Nat
           /\ config.timed \in BOOLEAN /\ config.base \in Int /\ config.increment \in Int
           /\ config.timed => config.base > 0 /\ config.increment >= 0
BY TournamentAssumption DEF TypeOK

\* A game that is open was not lost on time.
LEMMA OpenIsNotLost ==
    ASSUME TypeOK, FlagIsEarned, game.result = "*"
    PROVE  ~Lost(game)
BY DEF FlagIsEarned, Lost, TimeoutResult, TypeOK, GameRecord

\* Who lost on time, and how, depends on few fields of a game.
LEMMA FlagSame ==
    ASSUME FlagIsEarned, config' = config, stop' = stop \/ stop # "DeadlineExceeded",
           game'.ply = game.ply, game'.spent = game.spent, game'.flagged = game.flagged,
           game'.white = game.white, game'.black = game.black, game'.gaveUp = game.gaveUp,
           Lost(game) => game'.result = game.result
    PROVE  FlagIsEarned'
BY DEF FlagIsEarned, Lost, Allowance, MovesBy, Loser

\* What the clocks of a game are worth depends on its counters and clocks only.
LEMMA ClockSame ==
    ASSUME ClockIsExact, config' = config, phase # "failed",
           ~Lost(game') => ~Lost(game),
           game'.ply = game.ply, game'.remaining = game.remaining, game'.spent = game.spent
    PROVE  ClockIsExact'
BY DEF ClockIsExact, Allowance, MovesBy

\* Multiplication over one more move.
LEMMA OneMore ==
    ASSUME NEW i \in Int, NEW n \in Int
    PROVE  i * (n + 1) = i * n + i
OBVIOUS

\* The moves of a side are counted in turn.
LEMMA MovesCount ==
    ASSUME NEW g \in GameRecord, NEW ply, ply = g.ply + 1, NEW h \in GameRecord, h.ply = ply
    PROVE  /\ MovesBy(g, "white") \in Nat /\ MovesBy(g, "black") \in Nat
           /\ MovesBy(h, Turn(g)) = MovesBy(g, Turn(g)) + 1
           /\ MovesBy(h, Opposite(Turn(g))) = MovesBy(g, Opposite(Turn(g)))
           /\ Turn(g) \in Colours /\ Opposite(Turn(g)) \in Colours
           /\ \A c \in Colours : c = Turn(g) \/ c = Opposite(Turn(g))
<1>1. g.ply \in Nat
  BY DEF GameRecord
<1>2. CASE g.ply % 2 = 0
  BY <1>1, <1>2 DEF Turn, Opposite, MovesBy, Colours
<1>3. CASE g.ply % 2 # 0
  BY <1>1, <1>3 DEF Turn, Opposite, MovesBy, Colours
<1>4. QED
  BY <1>2, <1>3

\* The number of moves of a side is a number.
LEMMA MovesType ==
    ASSUME NEW g \in GameRecord, NEW c
    PROVE  MovesBy(g, c) \in Nat
BY DEF GameRecord, MovesBy

LEMMA AllowanceType ==
    ASSUME TypeOK, NEW g \in GameRecord, NEW c
    PROVE  Allowance(g, c) \in Int
<1>1. config.base \in Int /\ config.increment \in Int /\ MovesBy(g, c) \in Int
  BY ConfigType, MovesType
<1>2. QED
  BY <1>1 DEF Allowance

\* A position of the loop that has a pair gives two players.
LEMMA PairType ==
    ASSUME TypeOK, CellOK, ~Finished
    PROVE  /\ config.players[at.first] \in Player
           /\ config.players[at.second] \in Player
<1>1. at.first \in 1 .. Len(config.players) /\ at.second \in 1 .. Len(config.players)
  BY ConfigType DEF CellOK, WithinList, Finished
<1>2. QED
  BY <1>1, ConfigType DEF Player

-----------------------------------------------------------------------------
\* A new game is a game record, with its clocks full.
LEMMA NewGameType ==
    ASSUME config.base \in Int, NEW one \in Player, NEW two \in Player
    PROVE  NewGame(one, two) \in GameRecord
BY DEF NewGame, Both, GameRecord, Results, Colours, Causes

LEMMA NewGameClock ==
    ASSUME TypeOK, config' = config, config.timed,
           game'.ply = 0, game'.remaining = Both(config.base), game'.spent = Both(0)
    PROVE  ClockIsExact'
<1>1. \A c \in Colours : MovesBy(game', c) = 0
  BY DEF MovesBy, Colours
<1>2. config.base \in Int /\ config.increment \in Int /\ config.base > 0
  BY ConfigType
<1>3. config.increment * 0 = 0
  BY <1>2
<1>4. SUFFICES ASSUME NEW c \in Colours
               PROVE  /\ game'.remaining[c] = Allowance(game, c)' - game'.spent[c]
                      /\ game'.remaining[c] >= IF MovesBy(game, c)' > 0 THEN config.increment ELSE 0
  BY DEF ClockIsExact, Colours
<1>5. game'.remaining[c] = config.base /\ game'.spent[c] = 0
  BY DEF Both, Colours
<1>6. Allowance(game, c)' = config.base
  BY <1>1, <1>2, <1>3 DEF Allowance
<1>7. QED
  BY <1>1, <1>2, <1>5, <1>6

\* Initially nothing is thought, asked or decided.
THEOREM InitHolds == Init => IInv
<1> SUFFICES ASSUME Init PROVE IInv
  OBVIOUS
<1>1. config \in Configs /\ config.base \in Int
  BY TournamentAssumption DEF Init
<1> DEFINE fresh == NewGame("nobody", "nobody")
<1>f. fresh \in GameRecord /\ game = [fresh EXCEPT !.result = "1/2-1/2"]
  BY <1>1, NewGameType DEF Init, Player
<1>g. /\ fresh.ply = 0 /\ fresh.flagged = "nobody"
      /\ fresh.remaining = Both(config.base) /\ fresh.spent = Both(0)
  BY DEF NewGame
<1> HIDE DEF fresh
<1>2. /\ game \in GameRecord /\ game.ply = 0 /\ game.flagged = "nobody"
      /\ game.remaining = Both(config.base) /\ game.spent = Both(0)
  BY <1>f, <1>g DEF GameRecord, Results
<1>3. TypeOK
  BY <1>1, <1>2 DEF TypeOK, Init, Phases, Causes
<1>4. CellOK
  BY <1>3, ConfigType DEF CellOK, WithinList, Init
<1>5. ThinkingIsOpen /\ DeadlineHasCause /\ FlagIsEarned
  BY <1>2 DEF Init, ThinkingIsOpen, DeadlineHasCause, FlagIsEarned, Lost
<1>6. ClockIsExact
  <2>1. SUFFICES ASSUME config.timed, NEW c \in Colours
                 PROVE  /\ game.remaining[c] = Allowance(game, c) - game.spent[c]
                        /\ game.remaining[c] >= IF MovesBy(game, c) > 0 THEN config.increment ELSE 0
    BY DEF ClockIsExact, Colours
  <2>2. MovesBy(game, c) = 0 /\ game.remaining[c] = config.base /\ game.spent[c] = 0
    BY <1>2 DEF Both, MovesBy, Colours
  <2>3. config.base \in Int /\ config.increment \in Int /\ config.base > 0 /\ config.increment * 0 = 0
    BY <1>3, <2>1, ConfigType
  <2>4. QED
    BY <2>2, <2>3 DEF Allowance
<1>7. QED
  BY <1>3, <1>4, <1>5, <1>6 DEF IInv

\* A game begins.
LEMMA StartKeeps ==
    ASSUME IInv, StartGame
    PROVE  IInv'
<1>1. \E one, two \in Player : game' = NewGame(one, two)
  BY PairType DEF IInv, StartGame
<1>2. PICK one \in Player, two \in Player : game' = NewGame(one, two)
  BY <1>1
<1>3. TypeOK'
  BY <1>2, NewGameType, ConfigType DEF IInv, StartGame, TypeOK, Phases
<1>4. CellOK' /\ ThinkingIsOpen' /\ DeadlineHasCause' /\ FlagIsEarned'
  BY <1>2 DEF IInv, StartGame, NewGame, CellOK, WithinList, ThinkingIsOpen, DeadlineHasCause, FlagIsEarned, Lost
<1>5. ClockIsExact'
  <2>1. CASE config.timed
    BY <1>2, <2>1, NewGameClock DEF IInv, StartGame, NewGame
  <2>2. CASE ~config.timed
    BY <2>2 DEF StartGame, ClockIsExact
  <2>3. QED
    BY <2>1, <2>2
<1>6. QED
  BY <1>3, <1>4, <1>5 DEF IInv

\* The steps that leave the game alone.
LEMMA SettleKeeps ==
    ASSUME IInv, NoPlayer \/ ContextEnded \/ Report
    PROVE  IInv'
<1>1. /\ UNCHANGED <<config, at, game, now, stop>>
      /\ phase = "next" /\ phase' \in {"failed", "reported"}
  BY DEF NoPlayer, ContextEnded, Report, Failed
<1>2. TypeOK' /\ CellOK' /\ ThinkingIsOpen' /\ DeadlineHasCause'
  BY <1>1 DEF IInv, TypeOK, CellOK, WithinList, Phases, ThinkingIsOpen, DeadlineHasCause
<1>3. FlagIsEarned'
  BY <1>1, FlagSame DEF IInv
<1>4. ClockIsExact'
  BY <1>1, ClockSame DEF IInv
<1>5. QED
  BY <1>2, <1>3, <1>4 DEF IInv

\* Advancing the loop counters keeps them within the list.
LEMMA AdvanceType ==
    ASSUME NEW cell, WithinList(cell), Len(config.players) \in Nat
    PROVE  WithinList(Advance(cell))
<1>1. CASE cell.gameIndex + 1 < config.gamesPerPair
  BY <1>1 DEF Advance, WithinList
<1>2. CASE ~(cell.gameIndex + 1 < config.gamesPerPair) /\ cell.second < Len(config.players)
  <2>1. cell.first \in Nat \ {0} /\ cell.second \in Nat \ {0}
    BY DEF WithinList
  <2>2. Advance(cell) = [first |-> cell.first, second |-> cell.second + 1, gameIndex |-> 0]
    BY <1>2 DEF Advance, WithinList
  <2>3. cell.second + 1 \in Nat \ {0} /\ cell.second + 1 <= Len(config.players)
    BY <1>2, <2>1
  <2>4. QED
    BY <2>1, <2>2, <2>3 DEF WithinList
<1>3. CASE ~(cell.gameIndex + 1 < config.gamesPerPair) /\ ~(cell.second < Len(config.players))
  <2>1. Advance(cell) = [first |-> cell.first + 1, second |-> cell.first + 2, gameIndex |-> 0]
    BY <1>3 DEF Advance
  <2>2. QED
    BY <2>1 DEF WithinList
<1>4. QED
  BY <1>1, <1>2, <1>3

\* A game is recorded, a draw if it ran out of plies.
LEMMA RecordKeeps ==
    ASSUME IInv, Record
    PROVE  IInv'
<1>1. /\ UNCHANGED <<config, now, stop>> /\ at' = Advance(at)
      /\ phase = "playing" /\ phase' = "next"
      /\ game' = [game EXCEPT !.result = IF game.result = "*" THEN "1/2-1/2" ELSE game.result]
  BY DEF Record
<1>2. game \in GameRecord
  BY DEF IInv, TypeOK
<1>3. /\ game' \in GameRecord /\ game'.ply = game.ply /\ game'.remaining = game.remaining
      /\ game'.spent = game.spent /\ game'.flagged = game.flagged
      /\ game'.white = game.white /\ game'.black = game.black /\ game'.gaveUp = game.gaveUp
      /\ game.result # "*" => game'.result = game.result
  BY <1>1, <1>2 DEF GameRecord, Results
<1>4. TypeOK'
  BY <1>1, <1>3 DEF IInv, TypeOK, Phases
<1>5. CellOK' /\ ThinkingIsOpen' /\ DeadlineHasCause'
  BY <1>1, AdvanceType, ConfigType DEF IInv, CellOK, WithinList, ThinkingIsOpen, DeadlineHasCause
<1>6. FlagIsEarned'
  BY <1>1, <1>3, FlagSame, OpenIsNotLost DEF IInv
<1>7. ClockIsExact'
  BY <1>1, <1>3, ClockSame DEF IInv, Lost
<1>8. QED
  BY <1>4, <1>5, <1>6, <1>7 DEF IInv

\* A game that is lost on time.
LEMMA FlaggedType ==
    ASSUME NEW g \in GameRecord, NEW c \in Colours, NEW given \in BOOLEAN, NEW h,
           h = Flagged(g, c) \/ h = [Flagged(g, c) EXCEPT !.gaveUp = given]
    PROVE  /\ h \in GameRecord /\ h.flagged = c /\ h.result = TimeoutResult(c)
           /\ h.ply = g.ply /\ h.spent = g.spent /\ h.white = g.white /\ h.black = g.black
<1> DEFINE lost == TimeoutResult(c)
           f == Flagged(g, c)
<1>1. lost \in Results
  BY DEF TimeoutResult, Results
<1>2. f = [g EXCEPT !.result = lost, !.flagged = c]
  BY DEF Flagged
<1> HIDE DEF lost, f
<1>3. /\ f \in GameRecord /\ f.flagged = c /\ f.result = lost
      /\ f.ply = g.ply /\ f.spent = g.spent /\ f.white = g.white /\ f.black = g.black
  BY <1>1, <1>2 DEF GameRecord
<1>4. CASE h = f
  BY <1>3, <1>4 DEF lost
<1>5. CASE h = [f EXCEPT !.gaveUp = given]
  BY <1>3, <1>5 DEF GameRecord, lost
<1>6. QED BY <1>4, <1>5 DEF f

\* The loser on time of an open game, by its clock, by the deadline of the
\* tournament or by his own error.
LEMMA FlagEarned ==
    ASSUME NEW g \in GameRecord, NEW c \in Colours, NEW given \in BOOLEAN, config.timed,
           config' = config,
           \/ game' = Flagged(g, c) /\ g.spent[c] >= Allowance(g, c)
           \/ /\ game' = [Flagged(g, c) EXCEPT !.gaveUp = given]
              /\ \/ g.spent[c] >= Allowance(g, c)
                 \/ stop' = "DeadlineExceeded"
                 \/ given /\ Kind[IF c = "white" THEN g.white ELSE g.black] = "custom"
    PROVE  FlagIsEarned' /\ ClockIsExact' /\ game' \in GameRecord
<1>1. /\ game' \in GameRecord /\ game'.flagged = c /\ game'.result = TimeoutResult(c)
      /\ game'.ply = g.ply /\ game'.spent = g.spent
      /\ game'.white = g.white /\ game'.black = g.black
  BY FlaggedType
<1>2. Lost(game')
  BY <1>1 DEF Lost, Colours
<1>3. Allowance(game, c)' = Allowance(g, c)
  BY <1>1 DEF Allowance, MovesBy
<1>4. \/ g.spent[c] >= Allowance(g, c)
      \/ stop' = "DeadlineExceeded"
      \/ game'.gaveUp /\ Kind[Loser(game')] = "custom"
  <2>1. Loser(game') = IF c = "white" THEN g.white ELSE g.black
    BY <1>1 DEF Loser
  <2>2. CASE game' = [Flagged(g, c) EXCEPT !.gaveUp = given] /\ given
    <3>1. Flagged(g, c) \in GameRecord
      BY FlaggedType
    <3>2. game'.gaveUp = given
      BY <2>2, <3>1 DEF GameRecord
    <3>3. QED BY <2>1, <2>2, <3>2
  <2>3. QED BY <2>2
<1>5. FlagIsEarned'
  BY <1>1, <1>3, <1>4 DEF FlagIsEarned
<1>6. ClockIsExact'
  BY <1>2 DEF ClockIsExact
<1>7. QED
  BY <1>1, <1>5, <1>6

\* A side without time is not asked for a move.
LEMMA NoTimeLeftKeeps ==
    ASSUME IInv, NoTimeLeft
    PROVE  IInv'
<1> DEFINE c == Turn(game)
<1>1. /\ UNCHANGED <<config, phase, at, now, stop>> /\ phase = "playing"
      /\ game' = Flagged(game, c) /\ config.timed /\ game.remaining[c] <= 0 /\ game.result = "*"
  BY DEF NoTimeLeft, Over
<1>2. c \in Colours /\ game \in GameRecord
  BY DEF Turn, Colours, IInv, TypeOK
<1>3. game.remaining[c] = Allowance(game, c) - game.spent[c]
  BY <1>1, <1>2, OpenIsNotLost DEF IInv, ClockIsExact, Colours
<1>4. game.spent[c] \in Int /\ Allowance(game, c) \in Int
  BY <1>2, AllowanceType DEF IInv, GameRecord
<1>5. game.spent[c] >= Allowance(game, c)
  BY <1>1, <1>3, <1>4
<1>6. FlagIsEarned' /\ ClockIsExact' /\ game' \in GameRecord
  BY <1>1, <1>2, <1>5, FlagEarned
<1>7. TypeOK' /\ CellOK' /\ ThinkingIsOpen' /\ DeadlineHasCause'
  BY <1>1, <1>6 DEF IInv, TypeOK, CellOK, WithinList, ThinkingIsOpen, DeadlineHasCause
<1>8. QED
  BY <1>6, <1>7 DEF IInv

\* A side is asked for a move, under the context that holds now.
LEMMA AskKeeps ==
    ASSUME IInv, Ask
    PROVE  IInv'
<1>1. /\ UNCHANGED <<config, at, now, stop>> /\ phase = "playing" /\ phase' = "thinking"
      /\ game' = [game EXCEPT !.started = now, !.context = stop] /\ game.result = "*"
  BY DEF Ask, Over
<1>2. /\ game' \in GameRecord /\ game'.ply = game.ply /\ game'.remaining = game.remaining
      /\ game'.spent = game.spent /\ game'.flagged = game.flagged
      /\ game'.white = game.white /\ game'.black = game.black /\ game'.gaveUp = game.gaveUp
      /\ game'.result = game.result /\ game'.context = stop
  BY <1>1 DEF IInv, TypeOK, GameRecord
<1>3. TypeOK' /\ CellOK' /\ ThinkingIsOpen' /\ DeadlineHasCause'
  BY <1>1, <1>2 DEF IInv, TypeOK, Phases, CellOK, WithinList, ThinkingIsOpen, DeadlineHasCause
<1>4. FlagIsEarned'
  BY <1>1, <1>2, FlagSame DEF IInv
<1>5. ClockIsExact'
  BY <1>1, <1>2, ClockSame DEF IInv, Lost
<1>6. QED
  BY <1>3, <1>4, <1>5 DEF IInv

\* What an answer makes of the mover's clock, and of nothing else.
LEMMA CompleteType ==
    ASSUME TypeOK, NEW g \in GameRecord, NEW c \in Colours, NEW elapsed \in Int
    PROVE  LET h == Complete(g, c, elapsed) IN
           /\ h \in GameRecord
           /\ h.ply = g.ply /\ h.result = g.result /\ h.flagged = g.flagged
           /\ h.white = g.white /\ h.black = g.black
           /\ h.spent[c] = g.spent[c] + elapsed
           /\ h.remaining[c] = IF g.remaining[c] - elapsed < 0 THEN g.remaining[c] - elapsed
                               ELSE g.remaining[c] - elapsed + config.increment
           /\ \A d \in Colours \ {c} : /\ h.spent[d] = g.spent[d]
                                       /\ h.remaining[d] = g.remaining[d]
<1> DEFINE left == g.remaining[c] - elapsed
           kept == IF left < 0 THEN left ELSE left + config.increment
           used == g.spent[c] + elapsed
<1>1. left \in Int /\ kept \in Int /\ used \in Int
  BY ConfigType DEF GameRecord
<1>2. g.spent \in [Colours -> Int] /\ g.remaining \in [Colours -> Int]
  BY DEF GameRecord
<1> DEFINE allUsed == [g.spent EXCEPT ![c] = used]
           allLeft == [g.remaining EXCEPT ![c] = kept]
<1>3. Complete(g, c, elapsed) = [g EXCEPT !.spent = allUsed, !.remaining = allLeft]
  BY DEF Complete, GameRecord
<1> HIDE DEF left, kept, used
<1>4. /\ allUsed \in [Colours -> Int] /\ allLeft \in [Colours -> Int]
      /\ allUsed[c] = used /\ allLeft[c] = kept
      /\ \A d \in Colours \ {c} : allUsed[d] = g.spent[d] /\ allLeft[d] = g.remaining[d]
  BY <1>1, <1>2
<1> HIDE DEF allUsed, allLeft
<1>5. /\ Complete(g, c, elapsed) \in GameRecord
      /\ Complete(g, c, elapsed).ply = g.ply
      /\ Complete(g, c, elapsed).result = g.result
      /\ Complete(g, c, elapsed).flagged = g.flagged
      /\ Complete(g, c, elapsed).white = g.white
      /\ Complete(g, c, elapsed).black = g.black
      /\ Complete(g, c, elapsed).context = g.context
      /\ Complete(g, c, elapsed).started = g.started
      /\ Complete(g, c, elapsed).spent = allUsed
      /\ Complete(g, c, elapsed).remaining = allLeft
  BY <1>3, <1>4 DEF GameRecord
<1>6. QED
  BY <1>4, <1>5 DEF left, kept, used

\* A move in time: one more for the mover, with its increment; the other
\* side's clock is as it was.
LEMMA MoveKeepsClock ==
    ASSUME IInv, phase = "thinking", config.timed, config' = config,
           NEW elapsed \in Int, NEW ending,
           Complete(game, Turn(game), elapsed).remaining[Turn(game)] >= 0,
           game' = Played(Complete(game, Turn(game), elapsed), ending),
           game' \in GameRecord
    PROVE  ClockIsExact'
<1> DEFINE c == Turn(game)
           d == Opposite(Turn(game))
           h == Complete(game, c, elapsed)
<1>1. game \in GameRecord /\ TypeOK /\ c \in Colours /\ d \in Colours \ {c}
  BY DEF IInv, TypeOK, Turn, Opposite, Colours
<1>2. /\ h \in GameRecord /\ h.ply = game.ply
      /\ h.spent[c] = game.spent[c] + elapsed
      /\ h.remaining[c] = IF game.remaining[c] - elapsed < 0 THEN game.remaining[c] - elapsed
                          ELSE game.remaining[c] - elapsed + config.increment
      /\ h.spent[d] = game.spent[d] /\ h.remaining[d] = game.remaining[d]
  BY <1>1, CompleteType
<1>3. game'.ply = game.ply + 1 /\ game'.spent = h.spent /\ game'.remaining = h.remaining
  BY <1>2 DEF Played, GameRecord
<1>4. /\ MovesBy(game, c) \in Nat /\ MovesBy(game, d) \in Nat
      /\ MovesBy(game', c) = MovesBy(game, c) + 1
      /\ MovesBy(game', d) = MovesBy(game, d)
      /\ \A e \in Colours : e = c \/ e = d
  BY <1>1, <1>3, MovesCount, MovesType
<1>5. ~Lost(game)
  BY OpenIsNotLost DEF IInv, ThinkingIsOpen
<1>6. /\ game.remaining[c] = Allowance(game, c) - game.spent[c]
      /\ game.remaining[d] = Allowance(game, d) - game.spent[d]
      /\ game.remaining[d] >= IF MovesBy(game, d) > 0 THEN config.increment ELSE 0
  BY <1>1, <1>5 DEF IInv, ClockIsExact, Colours
<1>7. /\ game.remaining[c] \in Int /\ game.remaining[d] \in Int
      /\ game.spent[c] \in Int /\ game.spent[d] \in Int
      /\ config.increment \in Int /\ config.increment >= 0 /\ config.base \in Int
      /\ Allowance(game, c) \in Int
  BY <1>1, ConfigType, AllowanceType DEF GameRecord
<1> DEFINE after(e) == config.base + config.increment * MovesBy(game', e)
<1>8. after(c) = Allowance(game, c) + config.increment /\ after(d) = Allowance(game, d)
  <2>1. config.increment * (MovesBy(game, c) + 1) = config.increment * MovesBy(game, c) + config.increment
    BY <1>4, <1>7, OneMore
  <2>2. config.increment * MovesBy(game, c) \in Int
    BY <1>4, <1>7
  <2>3. QED
    BY <1>4, <1>7, <2>1, <2>2 DEF Allowance
<1>9. h.remaining[c] = game.remaining[c] - elapsed + config.increment /\ game.remaining[c] - elapsed >= 0
  BY <1>2, <1>7
<1> HIDE DEF after, c, d, h
<1>10. h.remaining[c] = after(c) - h.spent[c] /\ h.remaining[c] >= config.increment
  BY <1>2, <1>6, <1>7, <1>8, <1>9
<1>11. h.remaining[d] = after(d) - h.spent[d]
       /\ h.remaining[d] >= IF MovesBy(game', d) > 0 THEN config.increment ELSE 0
  BY <1>2, <1>4, <1>6, <1>8
<1>12. \A e \in Colours :
           /\ game'.remaining[e] = after(e) - game'.spent[e]
           /\ game'.remaining[e] >= IF MovesBy(game', e) > 0 THEN config.increment ELSE 0
  BY <1>3, <1>4, <1>7, <1>10, <1>11
<1>13. QED
  BY <1>12 DEF ClockIsExact, Allowance, Colours, after

\* A game after one more move is a game record, not lost on time.
LEMMA PlayedType ==
    ASSUME NEW g \in GameRecord, NEW ending
    PROVE  /\ Played(g, ending) \in GameRecord
           /\ Played(g, ending).flagged = g.flagged
<1> DEFINE r == CASE ending = "mate" -> WinFor(Turn(g))
                  [] ending = "draw" -> "1/2-1/2"
                  [] OTHER -> "*"
<1>1. r \in Results
  BY DEF WinFor, TimeoutResult, Opposite, Turn, Results
<1>2. Played(g, ending) = [g EXCEPT !.ply = g.ply + 1, !.result = r]
  BY DEF Played
<1>3. g.ply \in Nat /\ g.ply + 1 \in Nat
  BY DEF GameRecord
<1> DEFINE more == g.ply + 1
<1> HIDE DEF r, more
<1>4. Played(g, ending) = [g EXCEPT !.ply = more, !.result = r] /\ more \in Nat
  BY <1>2, <1>3 DEF more
<1>5. QED
  BY <1>1, <1>4 DEF GameRecord

\* A deadline is reported only if the context's has passed, or by a foreign
\* player.
LEMMA DeadlineAnswer ==
    ASSUME NEW player, NEW context, "DeadlineExceeded" \in Answers(player, context)
    PROVE  context = "DeadlineExceeded" \/ Kind[player] = "custom"
BY DEF Answers

\* An answer: a flag, an error or a move.
LEMMA AnswerKeeps ==
    ASSUME IInv, Answer
    PROVE  IInv'
<1> DEFINE c == Turn(game)
           elapsed == now - game.started
           h == Complete(game, c, elapsed)
           g == IF config.timed THEN h ELSE game
           own == game.context # "DeadlineExceeded"
<1>1. /\ UNCHANGED <<config, at, records, now, stop>> /\ phase = "thinking" /\ game.result = "*"
      /\ phase' \in {"playing", "failed"}
  BY DEF Answer, Failed, IInv, ThinkingIsOpen
<1>2. PICK answer \in Answers(Mover(game), game.context), ending \in {"none", "mate", "draw"} :
        \/ config.timed /\ g.remaining[c] < 0 /\ game' = Flagged(g, c) /\ phase' = "playing"
        \/ /\ config.timed /\ answer = "DeadlineExceeded" /\ phase' = "playing"
           /\ game' = [Flagged(g, c) EXCEPT !.gaveUp = own]
        \/ phase' = "failed" /\ game' = g
        \/ /\ ~(config.timed /\ g.remaining[c] < 0)
           /\ game' = Played(g, ending) /\ phase' = "playing"
  BY DEF Answer, Failed
<1>3. /\ game \in GameRecord /\ TypeOK /\ c \in Colours /\ elapsed \in Int /\ ~Lost(game)
      /\ config.timed \in BOOLEAN
  BY <1>1, OpenIsNotLost, ConfigType DEF IInv, TypeOK, Turn, Colours, GameRecord
<1>4. /\ h \in GameRecord /\ h.ply = game.ply /\ h.flagged = game.flagged
      /\ h.white = game.white /\ h.black = game.black
      /\ h.spent[c] = game.spent[c] + elapsed
      /\ h.remaining[c] = IF game.remaining[c] - elapsed < 0 THEN game.remaining[c] - elapsed
                          ELSE game.remaining[c] - elapsed + config.increment
  BY <1>3, CompleteType
<1>5. g \in GameRecord /\ g.flagged = game.flagged
  BY <1>3, <1>4
<1>6. ASSUME config.timed, \/ h.remaining[c] < 0
                           \/ elapsed >= game.remaining[c]
      PROVE  h.spent[c] >= Allowance(h, c)
  <2>1. game.remaining[c] = Allowance(game, c) - game.spent[c]
    BY <1>1, <1>3, <1>6 DEF IInv, ClockIsExact, Colours
  <2>2. /\ game.remaining[c] \in Int /\ game.spent[c] \in Int /\ Allowance(game, c) \in Int
        /\ config.increment \in Int /\ config.increment >= 0
    BY <1>3, <1>6, ConfigType, AllowanceType DEF GameRecord
  <2>3. game.remaining[c] - elapsed <= 0
    BY <1>3, <1>4, <1>6, <2>2
  <2>4. Allowance(h, c) = Allowance(game, c)
    BY <1>4 DEF Allowance, MovesBy
  <2>5. QED
    BY <1>3, <1>4, <2>1, <2>2, <2>3, <2>4
<1> HIDE DEF elapsed, h, c
<1>7. CASE config.timed /\ g.remaining[c] < 0 /\ game' = Flagged(g, c) /\ phase' = "playing"
  <2>1. g = h
    BY <1>7
  <2>2. QED
    BY <1>1, <1>3, <1>4, <1>6, <1>7, <2>1, FlagEarned DEF IInv, TypeOK, Phases, CellOK, WithinList, ThinkingIsOpen, DeadlineHasCause
<1>8. CASE /\ config.timed /\ answer = "DeadlineExceeded" /\ phase' = "playing"
           /\ game' = [Flagged(g, c) EXCEPT !.gaveUp = own]
  <2>1. g = h /\ (own => Kind[Mover(game)] = "custom")
    BY <1>2, <1>8, DeadlineAnswer
  <2>2. Mover(game) = IF c = "white" THEN h.white ELSE h.black
    BY <1>4 DEF Mover, c
  <2>3. ~own => stop = "DeadlineExceeded" \/ elapsed >= game.remaining[c]
    BY <1>1 DEF IInv, DeadlineHasCause, elapsed, c
  <2>4. \/ h.spent[c] >= Allowance(h, c)
        \/ stop' = "DeadlineExceeded"
        \/ own /\ Kind[IF c = "white" THEN h.white ELSE h.black] = "custom"
    BY <1>1, <1>6, <1>8, <2>1, <2>2, <2>3
  <2>5. own \in BOOLEAN
    OBVIOUS
  <2> HIDE DEF own
  <2>6. FlagIsEarned' /\ ClockIsExact' /\ game' \in GameRecord
    BY <1>1, <1>3, <1>4, <1>8, <2>1, <2>4, <2>5, FlagEarned
  <2>7. QED
    BY <1>1, <1>3, <1>8, <2>6 DEF IInv, TypeOK, Phases, CellOK, WithinList, ThinkingIsOpen, DeadlineHasCause
<1>9. CASE phase' = "failed" /\ game' = g
  <2>1. TypeOK' /\ CellOK' /\ ThinkingIsOpen' /\ DeadlineHasCause'
    BY <1>1, <1>5, <1>9 DEF IInv, TypeOK, Phases, CellOK, WithinList, ThinkingIsOpen, DeadlineHasCause
  <2>2. FlagIsEarned' /\ ClockIsExact'
    BY <1>3, <1>5, <1>9 DEF FlagIsEarned, ClockIsExact, Lost
  <2>3. QED
    BY <2>1, <2>2 DEF IInv
<1>10. CASE ~(config.timed /\ g.remaining[c] < 0) /\ game' = Played(g, ending) /\ phase' = "playing"
  <2>1. game' \in GameRecord /\ game'.flagged = game.flagged
    BY <1>5, <1>10, PlayedType
  <2>2. TypeOK' /\ CellOK' /\ ThinkingIsOpen' /\ DeadlineHasCause'
    BY <1>1, <1>10, <2>1 DEF IInv, TypeOK, Phases, CellOK, WithinList, ThinkingIsOpen, DeadlineHasCause
  <2>3. FlagIsEarned'
    BY <1>3, <2>1 DEF FlagIsEarned, Lost
  <2>4. CASE ~config.timed
    BY <1>1, <2>4, <2>2, <2>3 DEF IInv, ClockIsExact
  <2>5. CASE config.timed
    <3>1. g = h /\ h.remaining[c] >= 0
      BY <1>3, <1>4, <1>10, <2>5 DEF GameRecord
    <3>2. ClockIsExact'
      BY <1>1, <1>3, <1>10, <2>1, <2>5, <3>1, MoveKeepsClock DEF h, c
    <3>3. QED
      BY <2>2, <2>3, <3>2 DEF IInv
  <2>6. QED
    BY <1>3, <2>4, <2>5
<1>11. QED
  BY <1>2, <1>7, <1>8, <1>9, <1>10

\* A step that at most ends the context of the move.
LEMMA StopKeeps ==
    ASSUME IInv, NEW why \in Causes, game' = Stopped(why), UNCHANGED <<config, phase, at, records>>,
           now' \in Nat, now' >= now, stop' \in Causes, stop # "none" => stop' = stop,
           phase # "failed",
           why = "DeadlineExceeded" =>
               \/ stop' = "DeadlineExceeded"
               \/ config.timed /\ now' - game.started >= game.remaining[Turn(game)]
    PROVE  IInv'
<1>1. game \in GameRecord /\ FirstOf(game.context, why) \in Causes
  BY DEF IInv, TypeOK, GameRecord, FirstOf
<1>2. /\ game' \in GameRecord /\ game'.ply = game.ply /\ game'.remaining = game.remaining
      /\ game'.spent = game.spent /\ game'.flagged = game.flagged /\ game'.result = game.result
      /\ game'.white = game.white /\ game'.black = game.black /\ game'.gaveUp = game.gaveUp
      /\ game'.started = game.started
      /\ phase = "thinking" => game'.context = FirstOf(game.context, why)
  BY <1>1 DEF Stopped, GameRecord
<1>3. TypeOK' /\ CellOK' /\ ThinkingIsOpen'
  BY <1>2 DEF IInv, TypeOK, CellOK, WithinList, ThinkingIsOpen
<1>4. DeadlineHasCause'
  <2>1. SUFFICES ASSUME phase = "thinking", game'.context = "DeadlineExceeded"
                 PROVE  \/ stop' = "DeadlineExceeded"
                        \/ config.timed /\ now' - game.started >= game.remaining[Turn(game)]
    BY <1>2 DEF DeadlineHasCause, Turn
  <2>2. game.context = "DeadlineExceeded" \/ why = "DeadlineExceeded"
    BY <1>2, <2>1 DEF FirstOf
  <2>3. CASE game.context = "DeadlineExceeded"
    <3>1. \/ stop = "DeadlineExceeded"
          \/ config.timed /\ now - game.started >= game.remaining[Turn(game)]
      BY <2>1, <2>3 DEF IInv, DeadlineHasCause
    <3>2. now \in Int /\ game.started \in Int /\ game.remaining[Turn(game)] \in Int
      BY <1>1 DEF IInv, TypeOK, GameRecord, Turn, Colours
    <3>3. QED
      BY <3>1, <3>2
  <2>4. QED
    BY <2>2, <2>3
<1>5. FlagIsEarned'
  <2>1. stop' = stop \/ stop # "DeadlineExceeded"
    OBVIOUS
  <2>2. QED BY <1>2, <2>1, FlagSame DEF IInv
<1>6. ClockIsExact'
  BY <1>2, ClockSame DEF IInv, Lost
<1>7. QED
  BY <1>3, <1>4, <1>5, <1>6 DEF IInv

\* Time passes.
LEMMA TickKeeps ==
    ASSUME IInv, Tick
    PROVE  IInv'
<1> DEFINE due == config.timed /\ now + 1 >= game.started + game.remaining[Turn(game)]
           why == IF due THEN "DeadlineExceeded" ELSE stop'
<1>1. /\ now' = now + 1 /\ now \in Nat /\ stop \in Causes /\ phase \in {"next", "thinking"}
      /\ UNCHANGED <<config, phase, at, records>> /\ game' = Stopped(why)
  BY DEF Tick, IInv, TypeOK
<1>2. stop' \in Causes /\ (stop # "none" => stop' = stop)
  BY DEF Tick, FirstOf, IInv, TypeOK, Causes
<1>3. game.started \in Int /\ game.remaining[Turn(game)] \in Int
  BY DEF IInv, TypeOK, GameRecord, Turn, Colours
<1>4. why = "DeadlineExceeded" =>
          \/ stop' = "DeadlineExceeded"
          \/ config.timed /\ now' - game.started >= game.remaining[Turn(game)]
  BY <1>1, <1>3
<1>5. why \in Causes
  BY <1>2 DEF Causes
<1> HIDE DEF why
<1>6. QED
  BY <1>1, <1>2, <1>4, <1>5, StopKeeps

\* The caller cancels the tournament.
LEMMA CancelKeeps ==
    ASSUME IInv, Cancel
    PROVE  IInv'
<1>1. /\ UNCHANGED <<config, phase, at, records, now>> /\ game' = Stopped("Canceled")
      /\ stop = "none" /\ stop' = "Canceled" /\ phase # "failed" /\ now \in Nat
  BY DEF Cancel, IInv, TypeOK
<1>2. "Canceled" \in Causes /\ now' \in Nat /\ now' >= now
  BY <1>1 DEF Causes
<1>3. QED
  BY <1>1, <1>2, StopKeeps

\* A step that changes nothing.
LEMMA StutterKeeps ==
    ASSUME IInv, UNCHANGED vars
    PROVE  IInv'
BY DEF vars, IInv, TypeOK, CellOK, WithinList, ThinkingIsOpen, DeadlineHasCause, Turn,
       ClockIsExact, FlagIsEarned, Lost, Allowance, MovesBy, Loser

\* Every step keeps the inductive invariant.
THEOREM StepHolds == IInv /\ [Next]_vars => IInv'
BY StartKeeps, SettleKeeps, RecordKeeps, NoTimeLeftKeeps, AskKeeps, AnswerKeeps, TickKeeps,
   CancelKeeps, StutterKeeps DEF Next, Step

THEOREM InductiveInvariant == Spec => []IInv
BY InitHolds, StepHolds, PTL DEF Spec

\* The counters of the loop name two players of the list, and every part of
\* the state has its type, for every tournament.
THEOREM TypeCorrect == Spec => [](TypeOK /\ CellOK)
<1>1. IInv => TypeOK /\ CellOK
  BY DEF IInv
<1>2. QED
  BY <1>1, InductiveInvariant, PTL

\* playGame and Clock.complete: whatever the time control, the players and
\* the deadline, a clock shows the base and the increments earned less the time
\* thought, and at least the increment of the last move is left.
THEOREM ClockStaysExact == Spec => []ClockIsExact
<1>1. IInv => ClockIsExact
  BY DEF IInv
<1>2. QED
  BY <1>1, InductiveInvariant, PTL

\* playGame: nobody loses on time who had time left, save when the deadline of
\* the whole tournament has passed or the loser is a foreign player who returned
\* a DeadlineExceeded of his own.
THEOREM FlagsAreEarned == Spec => []FlagIsEarned
<1>1. IInv => FlagIsEarned
  BY DEF IInv
<1>2. QED
  BY <1>1, InductiveInvariant, PTL

-----------------------------------------------------------------------------
(* The schedule. The loop counters stand for the meetings before them, and *)
(* the players at the board are those of the meeting they are at.          *)

\* Each pair is met once, with its lower number first.
Ahead(cell) == cell.first < cell.second /\ cell.gameIndex < config.gamesPerPair

\* Who plays is who the counters name, with the colours of the game's number.
Seated ==
    phase \in {"playing", "thinking"} =>
        LET one == config.players[at.first]
            two == config.players[at.second]
            back == at.gameIndex % 2 = 1
        IN  /\ ~Finished
            /\ game.white = IF back THEN two ELSE one
            /\ game.black = IF back THEN one ELSE two

ScheduleInv == IInv /\ Ahead(at) /\ Seated

\* The meeting the loop is at.
Here == <<at.first, at.second, at.gameIndex + 1>>

\* What the assumption says of the number of games.
LEMMA GamesType ==
    ASSUME TypeOK
    PROVE  config.gamesPerPair \in Nat \ {0} /\ Len(config.players) \in Nat \ {0, 1}
<1>1. config \in Configs
  BY DEF TypeOK
<1>2. config.players \in Seq(DOMAIN Kind) /\ Len(config.players) >= 2 /\ config.gamesPerPair \in Nat \ {0}
  BY <1>1, TournamentAssumption
<1> DEFINE n == Len(config.players)
<1>3. n \in Nat /\ n >= 2
  BY <1>2
<1> HIDE DEF n
<1>4. n \in Nat \ {0, 1}
  BY <1>3
<1>5. QED BY <1>2, <1>4 DEF n

LEMMA AdvanceAhead ==
    ASSUME TypeOK, CellOK, Ahead(at)
    PROVE  Ahead(Advance(at))
<1>1. /\ at \in [first : Nat \ {0}, second : Nat \ {0}, gameIndex : Nat]
      /\ config.gamesPerPair \in Nat \ {0} /\ Len(config.players) \in Nat
  BY GamesType DEF CellOK, WithinList
<1>2. CASE at.gameIndex + 1 < config.gamesPerPair
  <2>1. Advance(at) = [first |-> at.first, second |-> at.second, gameIndex |-> at.gameIndex + 1]
    BY <1>1, <1>2 DEF Advance
  <2>2. QED BY <1>1, <1>2, <2>1 DEF Ahead
<1>3. CASE ~(at.gameIndex + 1 < config.gamesPerPair) /\ at.second < Len(config.players)
  <2>1. Advance(at) = [first |-> at.first, second |-> at.second + 1, gameIndex |-> 0]
    BY <1>1, <1>3 DEF Advance
  <2>2. QED BY <1>1, <2>1 DEF Ahead
<1>4. CASE ~(at.gameIndex + 1 < config.gamesPerPair) /\ ~(at.second < Len(config.players))
  <2>1. Advance(at) = [first |-> at.first + 1, second |-> at.first + 2, gameIndex |-> 0]
    BY <1>4 DEF Advance
  <2>2. QED BY <1>1, <2>1 DEF Ahead
<1>5. QED BY <1>2, <1>3, <1>4

\* While there is a game to play, its meeting is the first that is not met.
LEMMA HereIsNext ==
    ASSUME TypeOK, CellOK, Ahead(at), ~Finished
    PROVE  /\ Here \in Promised!Meetings \ Met
           /\ \A m \in Promised!Meetings : Promised!Before(m, Here) <=> m \in Met
<1>1. /\ at.first \in Nat \ {0} /\ at.second \in Nat \ {0} /\ at.gameIndex \in Nat
      /\ at.first < at.second /\ at.second <= Len(config.players)
      /\ at.gameIndex < config.gamesPerPair
      /\ config.gamesPerPair \in Nat \ {0} /\ Len(config.players) \in Nat
  BY GamesType DEF CellOK, WithinList, Ahead, Finished
<1>2. at.first \in 1 .. Len(config.players) /\ at.second \in 1 .. Len(config.players)
      /\ at.gameIndex + 1 \in 1 .. config.gamesPerPair
  BY <1>1
<1>3. Here \in Promised!Meetings
  BY <1>1, <1>2 DEF Here, Promised!Meetings
<1>4. Here \notin Met
  BY <1>1 DEF Here, Met
<1>5. \A m \in Promised!Meetings : Promised!Before(m, Here) <=> m \in Met
  BY DEF Here, Met, Promised!Meetings, Promised!Before
<1>6. QED BY <1>3, <1>4, <1>5

\* When no game is left, all are met.
LEMMA AllAreMet ==
    ASSUME TypeOK, CellOK, Finished
    PROVE  Met = Promised!Meetings
<1>1. at.first \in Nat /\ Len(config.players) \in Nat /\ at.first >= Len(config.players)
  BY GamesType DEF CellOK, WithinList, Finished
<1>2. ASSUME NEW m \in Promised!Meetings PROVE m[1] < at.first
  BY <1>1 DEF Promised!Meetings
<1>3. QED BY <1>2 DEF Met, Promised!Meetings

\* Advancing the counters meets the meeting they were at and no other.
LEMMA AdvanceMeets ==
    ASSUME TypeOK, CellOK, Ahead(at), ~Finished, at' = Advance(at), config' = config
    PROVE  Met' = Met \cup {Here}
<1> DEFINE n == Len(config.players)
           all == {m \in (1..n) \X (1..n) \X (1..config.gamesPerPair) : m[1] < m[2]}
           met(m, cell) == \/ m[1] < cell.first
                           \/ m[1] = cell.first /\ m[2] < cell.second
                           \/ m[1] = cell.first /\ m[2] = cell.second /\ m[3] < cell.gameIndex + 1
<1>1. /\ at \in [first : Nat \ {0}, second : Nat \ {0}, gameIndex : Nat]
      /\ at.first < at.second /\ at.second <= n /\ at.gameIndex < config.gamesPerPair
      /\ config.gamesPerPair \in Nat \ {0} /\ n \in Nat
  BY GamesType DEF CellOK, WithinList, Ahead, Finished
<1>2. Met = {m \in all : met(m, at)} /\ Met' = {m \in all : met(m, Advance(at))}
  BY DEF Met
<1>3. Here \in all
  <2>1. at.first \in 1 .. n /\ at.second \in 1 .. n /\ at.gameIndex + 1 \in 1 .. config.gamesPerPair
    BY <1>1
  <2>2. QED BY <1>1, <2>1 DEF Here
<1>4. ASSUME NEW m \in all
      PROVE  /\ m[1] \in 1 .. n /\ m[2] \in 1 .. n /\ m[3] \in 1 .. config.gamesPerPair /\ m[1] < m[2]
             /\ m = Here <=> m[1] = at.first /\ m[2] = at.second /\ m[3] = at.gameIndex + 1
  BY <1>4 DEF Here
<1> HIDE DEF n, all
<1>5. ASSUME NEW m \in all PROVE met(m, Advance(at)) <=> met(m, at) \/ m = Here
  <2>1. /\ m[1] \in 1 .. n /\ m[2] \in 1 .. n /\ m[3] \in 1 .. config.gamesPerPair /\ m[1] < m[2]
        /\ m = Here <=> m[1] = at.first /\ m[2] = at.second /\ m[3] = at.gameIndex + 1
    BY <1>4
  <2>2. CASE at.gameIndex + 1 < config.gamesPerPair
    <3>1. Advance(at) = [first |-> at.first, second |-> at.second, gameIndex |-> at.gameIndex + 1]
      BY <1>1, <2>2 DEF Advance
    <3>2. QED BY <1>1, <2>1, <3>1
  <2>3. CASE ~(at.gameIndex + 1 < config.gamesPerPair) /\ at.second < n
    <3>1. Advance(at) = [first |-> at.first, second |-> at.second + 1, gameIndex |-> 0]
      BY <1>1, <2>3 DEF Advance, n
    <3>2. QED BY <1>1, <2>1, <2>3, <3>1
  <2>4. CASE ~(at.gameIndex + 1 < config.gamesPerPair) /\ ~(at.second < n)
    <3>1. Advance(at) = [first |-> at.first + 1, second |-> at.first + 2, gameIndex |-> 0]
      BY <2>4 DEF Advance, n
    <3>2. QED BY <1>1, <2>1, <2>4, <3>1
  <2>5. QED BY <2>2, <2>3, <2>4
<1> HIDE DEF met
<1>6. QED BY <1>2, <1>3, <1>5

\* A game goes on, or a player fails: the same two sit at the board.
LEMMA PlayersStay ==
    ASSUME IInv, NoTimeLeft \/ Ask \/ Answer \/ Tick \/ Cancel
    PROVE  /\ UNCHANGED <<config, at, records>>
           /\ game'.white = game.white /\ game'.black = game.black
           /\ phase' \in {"playing", "thinking"} => phase \in {"playing", "thinking"}
<1>0. game \in GameRecord
  BY DEF IInv, TypeOK
<1>1. CASE NoTimeLeft
  BY <1>0, <1>1 DEF NoTimeLeft, Flagged, GameRecord
<1>2. CASE Ask
  BY <1>0, <1>2 DEF Ask, GameRecord
<1>3. CASE Tick \/ Cancel
  <2>1. \E why : game' = Stopped(why)
    BY <1>3 DEF Tick, Cancel
  <2>2. game'.white = game.white /\ game'.black = game.black
    BY <1>0, <2>1 DEF Stopped, GameRecord
  <2>3. QED BY <1>3, <2>2 DEF Tick, Cancel
<1>4. CASE Answer
  <2> DEFINE c == Turn(game)
             h == Complete(game, c, now - game.started)
             g == IF config.timed THEN h ELSE game
  <2>1. UNCHANGED <<config, at, records>> /\ phase = "thinking"
    BY <1>4 DEF Answer
  <2>2. \/ game' = Flagged(g, c)
        \/ \E given \in BOOLEAN : game' = [Flagged(g, c) EXCEPT !.gaveUp = given]
        \/ game' = g
        \/ \E ending : game' = Played(g, ending)
    BY <1>4 DEF Answer, Failed
  <2>3. g \in GameRecord /\ g.white = game.white /\ g.black = game.black
    <3>1. c \in Colours /\ now - game.started \in Int
      BY <1>0 DEF IInv, TypeOK, GameRecord, Turn, Colours
    <3>2. h \in GameRecord
      BY <1>0, <3>1, CompleteType DEF IInv
    <3>3. h.white = game.white /\ h.black = game.black
      <4> DEFINE left == game.remaining[c] - (now - game.started)
                 used == [game.spent EXCEPT ![c] = @ + (now - game.started)]
                 kept == [game.remaining EXCEPT
                            ![c] = IF left < 0 THEN left ELSE left + config.increment]
      <4>1. h = [game EXCEPT !.spent = used, !.remaining = kept]
        BY <1>0 DEF Complete, GameRecord
      <4> HIDE DEF used, kept
      <4>2. QED BY <1>0, <4>1 DEF GameRecord
    <3>4. QED BY <1>0, <3>2, <3>3
  <2> HIDE DEF c, g
  <2>4. game'.white = g.white /\ game'.black = g.black
    <3>1. c \in Colours
      BY DEF c, Turn, Colours
    <3>2. CASE game' = Flagged(g, c) \/ \E given \in BOOLEAN : game' = [Flagged(g, c) EXCEPT !.gaveUp = given]
      <4>1. PICK given \in BOOLEAN :
              game' = Flagged(g, c) \/ game' = [Flagged(g, c) EXCEPT !.gaveUp = given]
        BY <3>2
      <4> DEFINE after == game'
      <4> HIDE DEF after
      <4>2. after = Flagged(g, c) \/ after = [Flagged(g, c) EXCEPT !.gaveUp = given]
        BY <4>1 DEF after
      <4>3. after.white = g.white /\ after.black = g.black
        BY <2>3, <3>1, <4>2, FlaggedType
      <4>4. QED BY <4>3 DEF after
    <3>3. CASE game' = g \/ \E ending : game' = Played(g, ending)
      BY <2>3, <3>3 DEF Played, GameRecord
    <3>4. QED BY <2>2, <3>2, <3>3
  <2>5. QED BY <2>1, <2>3, <2>4
<1>5. QED BY <1>1, <1>2, <1>3, <1>4

\* Every step keeps the players of a meeting at the board.
LEMMA SeatedHolds == ScheduleInv /\ [Next]_vars => ScheduleInv'
<1> SUFFICES ASSUME ScheduleInv, [Next]_vars PROVE ScheduleInv'
  OBVIOUS
<1>0. IInv' /\ IInv /\ TypeOK /\ CellOK /\ Ahead(at) /\ Seated
  BY StepHolds DEF ScheduleInv, IInv
<1>1. CASE StartGame
  <2>1. Ahead(at)'
    BY <1>0, <1>1 DEF StartGame, Ahead
  <2>2. Seated'
    BY <1>0, <1>1 DEF StartGame, Seated, NewGame, Finished
  <2>3. QED BY <1>0, <2>1, <2>2 DEF ScheduleInv
<1>2. CASE NoPlayer \/ ContextEnded \/ Report
  BY <1>0, <1>2 DEF NoPlayer, ContextEnded, Report, Failed, ScheduleInv, Ahead, Seated
<1>3. CASE Record
  <2>1. at' = Advance(at) /\ config' = config /\ phase' = "next"
    BY <1>3 DEF Record
  <2>2. Ahead(at)'
    BY <1>0, <2>1, AdvanceAhead DEF Ahead
  <2>3. QED BY <1>0, <2>1, <2>2 DEF ScheduleInv, Seated
<1>4. CASE NoTimeLeft \/ Ask \/ Answer \/ Tick \/ Cancel
  BY <1>0, <1>4, PlayersStay DEF ScheduleInv, Ahead, Seated, Finished
<1>5. CASE UNCHANGED vars
  BY <1>0, <1>5 DEF vars, ScheduleInv, Ahead, Seated, Finished
<1>6. QED BY <1>1, <1>2, <1>3, <1>4, <1>5 DEF Next, Step

\* At the beginning nobody has met.
LEMMA InitMaps == Init => ScheduleInv /\ Promised!Init
<1> SUFFICES ASSUME Init PROVE ScheduleInv /\ Promised!Init
  OBVIOUS
<1>1. IInv /\ TypeOK
  BY InitHolds DEF IInv
<1>2. Ahead(at) /\ Seated
  BY <1>1, GamesType DEF Init, Ahead, Seated
<1>3. Met = {}
  <2>1. ASSUME NEW m \in Met PROVE FALSE
    <3>1. m[1] \in Nat \ {0} /\ m[2] \in Nat /\ m[3] \in Nat \ {0} /\ m[1] < m[2]
      BY <1>1, GamesType DEF Met
    <3>2. m[1] < 1 \/ (m[1] = 1 /\ m[2] < 2) \/ (m[1] = 1 /\ m[2] = 2 /\ m[3] < 0 + 1)
      BY DEF Met, Init
    <3>3. QED BY <3>1, <3>2
  <2>2. QED BY <2>1
<1>4. QED BY <1>1, <1>2, <1>3 DEF ScheduleInv, Promised!Init, Init

\* Every step of the run is one of the schedule or leaves it as it is.
LEMMA StepMaps == ScheduleInv /\ [Next]_vars => [Promised!Next]_(Promised!schedule)
<1> SUFFICES ASSUME ScheduleInv, [Next]_vars PROVE [Promised!Next]_(Promised!schedule)
  OBVIOUS
<1>0. IInv /\ TypeOK /\ CellOK /\ Ahead(at) /\ Seated /\ phase \in Phases
  BY DEF ScheduleInv, IInv, TypeOK
<1> DEFINE running == phase \notin {"reported", "failed"}
<1>1. ASSUME config' = config, at' = at PROVE Met' = Met
  BY <1>1 DEF Met
<1>2. CASE Record
  <2>1. /\ at' = Advance(at) /\ config' = config /\ phase = "playing" /\ phase' = "next"
        /\ ~Finished
    BY <1>0, <1>2 DEF Record, Seated
  <2> DEFINE result == IF game.result = "*" THEN "1/2-1/2" ELSE game.result
  <2>2. result \in Promised!Results
    BY <1>0 DEF TypeOK, GameRecord, Results, Promised!Results
  <2>3. /\ Here \in Promised!Meetings /\ Here \notin Met
        /\ \A m \in Promised!Meetings : Promised!Before(m, Here) => m \in Met
    BY <1>0, <2>1, HereIsNext
  <2>4. Met' = Met \cup {Here}
    BY <1>0, <2>1, AdvanceMeets
  <2>5. Here[1] = at.first /\ Here[2] = at.second
        /\ (Here[3] % 2 = 1 <=> ~(at.gameIndex % 2 = 1))
    <3>1. at.gameIndex \in Nat
      BY <1>0 DEF CellOK, WithinList
    <3>2. (at.gameIndex + 1) % 2 = 1 <=> ~(at.gameIndex % 2 = 1)
      BY <3>1
    <3>3. QED BY <3>2 DEF Here
  <2> HIDE DEF result
  <2>6. records' = Append(records, [number |-> Len(records) + 1, white |-> game.white,
                                    black |-> game.black, result |-> result])
    BY <1>2 DEF Record, result
  <2>7. /\ game.white = IF Here[3] % 2 = 1 THEN config.players[Here[1]] ELSE config.players[Here[2]]
        /\ game.black = IF Here[3] % 2 = 1 THEN config.players[Here[2]] ELSE config.players[Here[1]]
    BY <1>0, <2>1, <2>5 DEF Seated
  <2>8. Promised!PlayFixture(Here, result)
    BY <2>1, <2>3, <2>4, <2>6, <2>7 DEF Promised!PlayFixture
  <2>9. QED BY <2>2, <2>3, <2>8 DEF Promised!Next
<1>3. CASE Report
  <2>1. Met = Promised!Meetings
    BY <1>0, <1>3, AllAreMet DEF Report
  <2>2. Promised!Report
    BY <1>1, <1>3, <2>1 DEF Report, Promised!Report
  <2>3. QED BY <2>2 DEF Promised!Next
<1>4. CASE StartGame
  BY <1>1, <1>4 DEF StartGame, Promised!schedule
<1>5. ASSUME config' = config, at' = at, records' = records, running, phase' = "failed", ~Finished
      PROVE  Promised!Next
  <2>1. Met # Promised!Meetings
    BY <1>0, <1>5, HereIsNext
  <2>2. Promised!Fail
    BY <1>1, <1>5, <2>1 DEF Promised!Fail
  <2>3. QED BY <2>2 DEF Promised!Next
<1>6. CASE NoPlayer \/ ContextEnded
  BY <1>5, <1>6 DEF NoPlayer, ContextEnded, Failed
<1>7. ASSUME config' = config, at' = at, records' = records, running, phase' \notin {"reported", "failed"}
      PROVE  UNCHANGED Promised!schedule
  BY <1>1, <1>7 DEF Promised!schedule
<1>8. CASE NoTimeLeft \/ Ask \/ Tick \/ Cancel
  <2>1. /\ UNCHANGED <<config, at, records>> /\ running
        /\ phase' \in Phases \ {"reported", "failed"}
    BY <1>0, <1>8 DEF NoTimeLeft, Ask, Tick, Cancel, Phases
  <2>2. QED BY <1>7, <2>1
<1>9. CASE Answer
  <2>1. /\ UNCHANGED <<config, at, records>> /\ phase = "thinking"
        /\ phase' \in {"playing", "failed"}
    BY <1>9 DEF Answer, Failed
  <2>2. ~Finished
    BY <1>0, <2>1 DEF Seated
  <2>3. QED BY <1>5, <1>7, <2>1, <2>2
<1>10. CASE UNCHANGED vars
  BY <1>1, <1>10 DEF vars, Promised!schedule
<1>11. QED
  BY <1>2, <1>3, <1>4, <1>6, <1>8, <1>9, <1>10 DEF Next, Step

\* RunPlayers: for any players, number of games, clocks and deadline, every
\* pair meets in each of its games, once, in order and with colours alternated;
\* a run that reports has played them all, and one that has is not lost.
THEOREM ScheduleIsKept == Spec => KeepsToSchedule
BY InitMaps, SeatedHolds, StepMaps, PTL DEF Spec, KeepsToSchedule, Promised!Spec

=============================================================================
